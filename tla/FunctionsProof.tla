------------------------------- MODULE FunctionsProof -------------------------------
(***************************************************************************)
(* What FastDepends computes on its own, for any frames on the stack, any  *)
(* signature and any program: the types of annotations, the arguments of a *)
(* call, and the parameters of a model.                                    *)
(***************************************************************************)
EXTENDS Arguments, Flatten, Schema, Annotations, SequenceTheorems, WellFoundedInduction,
        FiniteSetTheorems, TLAPS

-----------------------------------------------------------------------------
(* Induction and folds *)

\* What a sequence has at a position is one of its elements.
LEMMA ElementOf ==
    ASSUME NEW S, NEW t \in Seq(S), NEW i \in 1 .. Len(t)
    PROVE  t[i] \in S
OBVIOUS

\* What holds at 0 and goes from each number to the next holds up to N.
LEMMA Induction ==
    ASSUME NEW N \in Nat, NEW T, 0 \in T, \A k \in 0 .. N - 1 : k \in T => k + 1 \in T
    PROVE  \A k \in 0 .. N : k \in T
<1> DEFINE Out == {k \in 0 .. N : k \notin T}
<1> SUFFICES ASSUME Out # {} PROVE FALSE
  OBVIOUS
<1>1. Out \subseteq Nat
  OBVIOUS
<1>2. PICK x \in Out : \A y \in Out : ~(<<y, x>> \in OpToRel(<, Nat))
  BY <1>1, NatLessThanWellFounded, WFMin
<1>3. \A y \in Out : ~(y < x)
  BY <1>1, <1>2 DEF OpToRel
<1>4. x # 0 /\ x \in 0 .. N
  OBVIOUS
<1>5. x - 1 \in 0 .. N - 1 /\ x - 1 < x /\ x - 1 \in 0 .. N /\ (x - 1) + 1 = x
  BY <1>4
<1>6. x - 1 \in T
  BY <1>3, <1>5
<1>. QED  BY <1>5, <1>6

\* A set of positions that is not empty has a last one.
LEMMA MaxIn ==
    ASSUME NEW N \in Nat, NEW s \in SUBSET (1 .. N), s # {}
    PROVE  Max(s) \in s /\ \A y \in s : Max(s) >= y
<1> DEFINE T == {k \in 0 .. N : \A t \in SUBSET (1 .. k) :
                     t # {} => \E x \in t : \A y \in t : x >= y}
<1>1. 0 \in T
  <2>1. \A t \in SUBSET (1 .. 0) : t = {}
    <3>1. 1 .. 0 = {}
      OBVIOUS
    <3>. QED  BY <3>1
  <2>2. 0 \in 0 .. N
    OBVIOUS
  <2>. QED  BY <2>1, <2>2
<1>2. ASSUME NEW k \in 0 .. N - 1, k \in T PROVE k + 1 \in T
  <2> SUFFICES ASSUME NEW t \in SUBSET (1 .. k + 1), t # {}
               PROVE  \E x \in t : \A y \in t : x >= y
    OBVIOUS
  <2>1. CASE k + 1 \in t
    BY <2>1
  <2>2. CASE k + 1 \notin t
    <3>1. t \in SUBSET (1 .. k)
      BY <2>2
    <3>. QED  BY <1>2, <3>1
  <2>. QED  BY <2>1, <2>2
<1> HIDE DEF T
<1>3. N \in T
  BY <1>1, <1>2, Induction
<1>4. \E x \in s : \A y \in s : x >= y
  BY <1>3 DEF T
<1>. QED  BY <1>4 DEF Max

\* A fold: h[s] is what it has come to when it has gone through the positions in s, with a
\* step of its own for each.
Folds(h, k, base, step) ==
    \A s \in SUBSET (1 .. k) :
        h[s] = IF s = {} THEN base ELSE step[Max(s)][h[s \ {Max(s)}]]

\* It has values all the way.
LEMMA FoldExists ==
    ASSUME NEW Acc, NEW N \in Nat, NEW base \in Acc, NEW step \in [1 .. N -> [Acc -> Acc]]
    PROVE  \E h \in [SUBSET (1 .. N) -> Acc] : Folds(h, N, base, step)
<1> DEFINE T == {k \in 0 .. N : \E h \in [SUBSET (1 .. k) -> Acc] : Folds(h, k, base, step)}
<1>1. 0 \in T
  <2> DEFINE h == [s \in SUBSET (1 .. 0) |-> base]
  <2>1. \A s \in SUBSET (1 .. 0) : s = {}
    OBVIOUS
  <2>2. h \in [SUBSET (1 .. 0) -> Acc] /\ Folds(h, 0, base, step)
    BY <2>1 DEF Folds
  <2>3. 0 \in 0 .. N
    OBVIOUS
  <2> HIDE DEF h
  <2>. QED  BY <2>2, <2>3
<1>2. ASSUME NEW k \in 0 .. N - 1, k \in T PROVE k + 1 \in T
  <2>1. PICK h \in [SUBSET (1 .. k) -> Acc] : Folds(h, k, base, step)
    BY <1>2
  <2> DEFINE g == [s \in SUBSET (1 .. k + 1) |->
                      IF k + 1 \in s THEN step[k + 1][h[s \ {k + 1}]] ELSE h[s]]
  <2>2. \A s \in SUBSET (1 .. k + 1) :
           /\ s \ {k + 1} \in SUBSET (1 .. k)
           /\ k + 1 \notin s => s \in SUBSET (1 .. k)
    OBVIOUS
  <2>3. k + 1 \in 1 .. N /\ k + 1 \in 0 .. N /\ k + 1 \in Nat /\ k \in Nat
    OBVIOUS
  <2>4. g \in [SUBSET (1 .. k + 1) -> Acc]
    BY <2>2, <2>3
  <2>5. ASSUME NEW s \in SUBSET (1 .. k + 1), s # {}
        PROVE  g[s] = step[Max(s)][g[s \ {Max(s)}]]
    <3>1. Max(s) \in s /\ \A y \in s : Max(s) >= y
      BY <2>3, <2>5, MaxIn
    <3>2. CASE k + 1 \in s
      <4>1. Max(s) \in 1 .. k + 1 /\ Max(s) >= k + 1
        BY <3>1, <3>2
      <4>2. Max(s) = k + 1
        BY <2>3, <4>1
      <4>3. g[s \ {k + 1}] = h[s \ {k + 1}]
        BY <2>2
      <4>. QED  BY <3>2, <4>2, <4>3
    <3>3. CASE k + 1 \notin s
      <4>1. s \in SUBSET (1 .. k) /\ s \ {Max(s)} \in SUBSET (1 .. k)
        BY <2>2, <3>3
      <4>2. h[s] = step[Max(s)][h[s \ {Max(s)}]]
        BY <2>1, <2>5, <4>1 DEF Folds
      <4>3. g[s] = h[s] /\ g[s \ {Max(s)}] = h[s \ {Max(s)}]
        BY <3>3, <4>1
      <4>. QED  BY <4>2, <4>3
    <3>. QED  BY <3>2, <3>3
  <2>6. g[{}] = base
    BY <2>1 DEF Folds
  <2>7. Folds(g, k + 1, base, step)
    BY <2>5, <2>6 DEF Folds
  <2>. QED  BY <2>3, <2>4, <2>7
<1> HIDE DEF T
<1>3. \A k \in 0 .. N : k \in T
  BY <1>1, <1>2, Induction
<1>4. N \in T
  BY <1>3
<1>. QED  BY <1>4 DEF T

\* The positions up to k, and the last of them
LEMMA MaxUpTo ==
    ASSUME NEW k \in Nat, k > 0
    PROVE  Max(1 .. k) = k /\ (1 .. k) \ {Max(1 .. k)} = 1 .. (k - 1)
<1>1. Max(1 .. k) \in 1 .. k /\ \A y \in 1 .. k : Max(1 .. k) >= y
  <2>1. 1 .. k \in SUBSET (1 .. k) /\ 1 .. k # {}
    OBVIOUS
  <2>. QED  BY <2>1, MaxIn
<1>2. Max(1 .. k) = k
  BY <1>1
<1>. QED  BY <1>2

\* g goes through the positions with these steps, as long as it has values in Acc.
Goes(g, N, Acc, base, step) ==
    /\ g[{}] = base
    /\ \A s \in SUBSET (1 .. N) :
          s # {} /\ g[s \ {Max(s)}] \in Acc => g[s] = step[Max(s)][g[s \ {Max(s)}]]

\* f[k] is what it has come to after k of them.
Stages(f, N, base, step) == f[0] = base /\ \A k \in 1 .. N : f[k] = step[k][f[k - 1]]

\* All stages are in Acc.
LEMMA FoldSteps ==
    ASSUME NEW Acc, NEW N \in Nat, NEW base \in Acc, NEW step \in [1 .. N -> [Acc -> Acc]],
           NEW g, Goes(g, N, Acc, base, step)
    PROVE  \E f \in [0 .. N -> Acc] : Stages(f, N, base, step) /\ f[N] = g[1 .. N]
<1> DEFINE f == [k \in 0 .. N |-> g[1 .. k]]
<1>1. f[0] = base
  <2>1. 1 .. 0 = {} /\ 0 \in 0 .. N
    OBVIOUS
  <2>. QED  BY <2>1 DEF Goes
<1>2. ASSUME NEW k \in 1 .. N, f[k - 1] \in Acc
      PROVE  f[k] = step[k][f[k - 1]] /\ f[k] \in Acc
  <2>1. /\ k \in Nat /\ k > 0 /\ k <= N /\ k \in 0 .. N /\ k - 1 \in 0 .. N
        /\ 1 .. k # {} /\ \A i \in 1 .. k : i \in 1 .. N
    OBVIOUS
  <2>2. 1 .. k \in SUBSET (1 .. N)
    BY <2>1
  <2>3. Max(1 .. k) = k /\ (1 .. k) \ {Max(1 .. k)} = 1 .. (k - 1)
    BY <2>1, MaxUpTo
  <2>4. f[k] = g[1 .. k] /\ f[k - 1] = g[1 .. (k - 1)]
    BY <2>1
  <2>5. g[1 .. k] = step[k][g[1 .. (k - 1)]]
    BY <1>2, <2>1, <2>2, <2>3, <2>4 DEF Goes
  <2>. QED  BY <1>2, <2>4, <2>5
<1> DEFINE T == {k \in 0 .. N : f[k] \in Acc}
<1>3. 0 \in T
  BY <1>1
<1>4. ASSUME NEW k \in 0 .. N - 1, k \in T PROVE k + 1 \in T
  <2>1. k + 1 \in 1 .. N /\ k + 1 \in 0 .. N /\ (k + 1) - 1 = k
    OBVIOUS
  <2> HIDE DEF f
  <2>2. f[(k + 1) - 1] \in Acc
    BY <1>4, <2>1
  <2>. QED  BY <1>2, <2>1, <2>2
<1> HIDE DEF T
<1>5. \A k \in 0 .. N : k \in T
  BY <1>3, <1>4, Induction
<1>6. \A k \in 0 .. N : f[k] \in Acc
  BY <1>5 DEF T
<1>7. \A k \in 1 .. N : k - 1 \in 0 .. N
  OBVIOUS
<1>8. f \in [0 .. N -> Acc] /\ f[N] = g[1 .. N]
  BY <1>6
<1> HIDE DEF f
<1>. QED  BY <1>1, <1>2, <1>6, <1>7, <1>8 DEF Stages

-----------------------------------------------------------------------------
(* Annotations *)

Frames == [module : Modules, local : Types \cup {Unbound}]

\* What Update() has gone through the first k frames with
LEMMA UpdateSteps ==
    ASSUME NEW fs \in Seq(Frames)
    PROVE  \E f \in [0 .. Len(fs) -> Types \cup {Unbound}] :
              /\ f[0] = Unbound
              /\ \A k \in 1 .. Len(fs) :
                    f[k] = IF Own(fs[k]) \/ fs[k].local = Unbound THEN f[k - 1] ELSE fs[k].local
              /\ Update(fs) = f[Len(fs)]
<1> DEFINE N == Len(fs)
           Acc == Types \cup {Unbound}
           Skips(k) == Own(fs[k]) \/ fs[k].local = Unbound
           step == [k \in 1 .. N |-> [a \in Acc |-> IF Skips(k) THEN a ELSE fs[k].local]]
           Body(h) == [s \in SUBSET (1 .. N) |->
                          IF s = {} THEN Unbound
                          ELSE IF Own(fs[Max(s)]) \/ fs[Max(s)].local = Unbound
                               THEN h[s \ {Max(s)}] ELSE fs[Max(s)].local]
           g == CHOOSE h : h = Body(h)
<1>1. Update(fs) = g[1 .. N]
  BY DOMAIN fs = 1 .. N DEF Update, FoldLeft, MapThenFoldSet
<1>2. \A k \in 1 .. N : fs[k].local \in Acc
  <2>1. \A k \in 1 .. N : fs[k] \in Frames
    BY ElementOf
  <2>. QED  BY <2>1 DEF Frames
<1>3. N \in Nat /\ Unbound \in Acc /\ DOMAIN step = 1 .. N
  OBVIOUS
<1> HIDE DEF N, Acc
<1>4. step \in [1 .. N -> [Acc -> Acc]]
  BY <1>2
<1>5. \A k \in 1 .. N, a \in Acc : step[k][a] = IF Skips(k) THEN a ELSE fs[k].local
  OBVIOUS
<1> HIDE DEF step
<1>6. \A s \in SUBSET (1 .. N) : s # {} => Max(s) \in 1 .. N
  BY <1>3, MaxIn
<1>7. PICK h \in [SUBSET (1 .. N) -> Acc] : Folds(h, N, Unbound, step)
  BY <1>3, <1>4, FoldExists
<1>8. h = Body(h)
  <2>1. \A s \in SUBSET (1 .. N) : h[s] = Body(h)[s]
    BY <1>5, <1>6, <1>7 DEF Folds
  <2>. QED  BY <2>1
<1>9. g = Body(g)
  BY <1>8
<1> HIDE DEF g
<1>10. Goes(g, N, Acc, Unbound, step)
  BY <1>5, <1>6, <1>9 DEF Goes
<1>11. PICK f \in [0 .. N -> Acc] : Stages(f, N, Unbound, step) /\ f[N] = g[1 .. N]
  <2> HIDE DEF Body
  <2>. QED  BY <1>3, <1>4, <1>10, FoldSteps
<1>12. \A k \in 1 .. N : f[k] = IF Skips(k) THEN f[k - 1] ELSE fs[k].local
  <2>1. \A k \in 1 .. N : k - 1 \in 0 .. N
    BY <1>3
  <2>. QED  BY <1>5, <1>11, <2>1 DEF Stages
<1>. QED  BY <1>1, <1>11, <1>12 DEF N, Acc, Stages

Bound(f) == f.local # Unbound /\ ~Own(f)

\* What collect_outer_stack_locals() finds is what the innermost frame has that has any.
LEMMA UpdateFinds ==
    ASSUME NEW fs \in Seq(Frames)
    PROVE  \/ Update(fs) = Unbound /\ \A i \in DOMAIN fs : ~Bound(fs[i])
           \/ \E i \in DOMAIN fs : /\ Bound(fs[i]) /\ Update(fs) = fs[i].local
                                   /\ \A j \in DOMAIN fs : j > i => ~Bound(fs[j])
<1> DEFINE N == Len(fs)
           Found(v, k) ==
               \/ v = Unbound /\ \A i \in 1 .. k : ~Bound(fs[i])
               \/ \E i \in 1 .. k : /\ Bound(fs[i]) /\ v = fs[i].local
                                    /\ \A j \in 1 .. k : j > i => ~Bound(fs[j])
<1>1. PICK f \in [0 .. N -> Types \cup {Unbound}] :
              /\ f[0] = Unbound
              /\ \A k \in 1 .. N :
                    f[k] = IF Own(fs[k]) \/ fs[k].local = Unbound THEN f[k - 1] ELSE fs[k].local
              /\ Update(fs) = f[N]
  BY UpdateSteps
<1>2. N \in Nat /\ DOMAIN fs = 1 .. N
  OBVIOUS
<1> DEFINE T == {k \in 0 .. N : Found(f[k], k)}
<1>3. 0 \in T
  <2>1. 1 .. 0 = {}
    OBVIOUS
  <2>. QED  BY <1>1, <1>2, <2>1
<1>4. ASSUME NEW k \in 0 .. N - 1, k \in T PROVE k + 1 \in T
  <2>1. /\ k + 1 \in 1 .. N /\ k + 1 \in 0 .. N /\ (k + 1) - 1 = k
        /\ \A i \in 1 .. k + 1 : i = k + 1 \/ i \in 1 .. k
        /\ \A i \in 1 .. k : i \in 1 .. k + 1 /\ ~(i > k + 1) /\ ~(i = k + 1) /\ k + 1 > i
        /\ ~(k + 1 > k + 1) /\ k + 1 \in 1 .. k + 1
    BY <1>2
  <2>2. f[k + 1] = IF Bound(fs[k + 1]) THEN fs[k + 1].local ELSE f[k]
    BY <1>1, <2>1 DEF Bound
  <2>3. Found(f[k], k)
    BY <1>4
  <2>4. CASE Bound(fs[k + 1])
    <3>1. \A j \in 1 .. k + 1 : j > k + 1 => ~Bound(fs[j])
      BY <2>1
    <3>2. Found(f[k + 1], k + 1)
      BY <2>1, <2>2, <2>4, <3>1
    <3>. QED  BY <2>1, <3>2
  <2>5. CASE ~Bound(fs[k + 1])
    <3>1. CASE f[k] = Unbound /\ \A i \in 1 .. k : ~Bound(fs[i])
      BY <2>1, <2>2, <2>5, <3>1
    <3>2. CASE \E i \in 1 .. k : /\ Bound(fs[i]) /\ f[k] = fs[i].local
                                 /\ \A j \in 1 .. k : j > i => ~Bound(fs[j])
      <4>1. PICK i \in 1 .. k : /\ Bound(fs[i]) /\ f[k] = fs[i].local
                                /\ \A j \in 1 .. k : j > i => ~Bound(fs[j])
        BY <3>2
      <4>2. \A j \in 1 .. k + 1 : j > i => ~Bound(fs[j])
        BY <2>1, <2>5, <4>1
      <4>3. f[k + 1] = fs[i].local /\ i \in 1 .. k + 1
        BY <2>1, <2>2, <2>5, <4>1
      <4>4. Found(f[k + 1], k + 1)
        BY <4>1, <4>2, <4>3
      <4>. QED  BY <2>1, <4>4
    <3>. QED  BY <2>3, <3>1, <3>2
  <2>. QED  BY <2>4, <2>5
<1> HIDE DEF T
<1>5. \A k \in 0 .. N : k \in T
  BY <1>2, <1>3, <1>4, Induction
<1>6. Found(f[N], N)
  BY <1>2, <1>5 DEF T
<1>. QED  BY <1>1, <1>2, <1>6

\* The stack has frames with a module and perhaps a local, and what was injected last has
\* the type it is to have.
TypingInv == frames \in Seq(Frames) /\ ResolvedIsLexical

\* Nothing is said of what was injected when a frame is entered or left.
LEMMA FrameStep ==
    ASSUME TypingInv, EnterFrame \/ LeaveFrame
    PROVE  TypingInv'
<1>1. injected' = NothingInjected
  BY DEF EnterFrame, LeaveFrame
<1>2. ResolvedIsLexical'
  BY <1>1 DEF ResolvedIsLexical, NothingInjected
<1>3. CASE EnterFrame
  <2>1. PICK m \in Modules, t \in Types \cup {Unbound} :
           frames' = Append(frames, [module |-> m, local |-> t])
    BY <1>3 DEF EnterFrame
  <2>2. frames' \in Seq(Frames)
    BY <2>1 DEF TypingInv, Frames
  <2>. QED  BY <1>2, <2>2 DEF TypingInv
<1>4. CASE LeaveFrame
  <2>1. frames' \in Seq(Frames)
    BY <1>4 DEF TypingInv, LeaveFrame, Front
  <2>. QED  BY <1>2, <2>1 DEF TypingInv
<1>. QED  BY <1>3, <1>4

\* What inject() resolves on the way is lexical.
LEMMA InjectStep ==
    ASSUME TypingInv, NEW annotation \in {"string", "shared"}, NEW d \in 1 .. MaxFrames,
           InjectTyped(annotation, d)
    PROVE  TypingInv'
<1>1. frames' = frames /\ d \in DOMAIN frames /\ frames \in Seq(Frames)
  BY DEF InjectTyped, TypingInv
<1> DEFINE type == GetTypedAnnotation(annotation, Globals[frames[d].module])
<1>2. injected' = [annotation |-> annotation, defined |-> d, type |-> type, before |-> origin]
  BY DEF InjectTyped
<1>3. CASE annotation = "shared" /\ origin # Unbound
  BY <1>1, <1>2, <1>3 DEF TypingInv, ResolvedIsLexical
<1>4. CASE ~(annotation = "shared" /\ origin # Unbound)
  <2>1. type = IF Update(frames) # Unbound THEN Update(frames) ELSE Globals[frames[d].module]
    BY <1>4 DEF GetTypedAnnotation, EvaluateForwardref, CollectOuterStackLocals
  <2>2. CASE Update(frames) = Unbound /\ \A i \in DOMAIN frames : ~Bound(frames[i])
    <3>1. type = Lexical(d) \/ (frames[d].local # Unbound /\ Own(frames[d]))
      BY <1>1, <2>1, <2>2 DEF Lexical, Bound
    <3>. QED  BY <1>1, <1>2, <3>1 DEF TypingInv, ResolvedIsLexical, Lexical, Own
  <2>3. ASSUME NEW i \in DOMAIN frames, Bound(frames[i]), Update(frames) = frames[i].local,
               \A j \in DOMAIN frames : j > i => ~Bound(frames[j])
        PROVE  TypingInv'
    <3>1. type = frames[i].local /\ Binds(i)
      BY <2>1, <2>3 DEF Bound, Binds
    <3>2. i \in Nat /\ d \in Nat
      BY <1>1
    <3>3. type = Lexical(d) \/ (Binds(i) /\ (i > d \/ (i < d /\ ~Binds(d))))
      BY <1>1, <2>3, <3>1, <3>2 DEF Lexical, Binds, Bound
    <3>. QED  BY <1>1, <1>2, <3>3 DEF TypingInv, ResolvedIsLexical, Lexical, Binds, Own
  <2>. QED  BY <1>1, <2>2, <2>3, UpdateFinds
<1>. QED  BY <1>3, <1>4

\* The invariant is inductive.
LEMMA TypingStep ==
    ASSUME TypingInv, [TypingNext]_typingVars
    PROVE  TypingInv'
<1>1. CASE UNCHANGED typingVars
  BY <1>1 DEF TypingInv, typingVars, ResolvedIsLexical, Lexical, Binds, Own
<1>. QED  BY <1>1, FrameStep, InjectStep DEF TypingNext

\* Whatever frames there are, with whatever locals, a parameter has the type its annotation
\* names where the function is written, but in the cases ResolvedIsLexical lists.
THEOREM LexicalCorrect == TypingSpec => []ResolvedIsLexical
<1>1. TypingInit => TypingInv
  BY DEF TypingInit, TypingInv, NothingInjected, ResolvedIsLexical
<1>2. TypingInv /\ [TypingNext]_typingVars => TypingInv'
  BY TypingStep
<1>3. TypingInv => ResolvedIsLexical
  BY DEF TypingInv
<1>. QED  BY <1>1, <1>2, <1>3, PTL DEF TypingSpec

-----------------------------------------------------------------------------
(* Lists of parameters *)

\* What a list has become after the first k elements of s
Listing(f, s, S) ==
    f[0] = <<>> /\ \A k \in 1 .. Len(s) :
        f[k] = IF s[k] \in S THEN Append(f[k - 1], s[k]) ELSE f[k - 1]

\* A list is made in as many steps as there are elements.
LEMMA PickedSteps ==
    ASSUME NEW P, NEW s \in Seq(P), NEW S
    PROVE  \E f \in [0 .. Len(s) -> Seq(P)] : Listing(f, s, S) /\ Picked(s, S) = f[Len(s)]
<1> DEFINE N == Len(s)
           Acc == Seq(P)
           step == [k \in 1 .. N |-> [a \in Acc |-> IF s[k] \in S THEN Append(a, s[k]) ELSE a]]
           Body(h) == [t \in SUBSET (1 .. N) |->
                          IF t = {} THEN <<>>
                          ELSE IF s[Max(t)] \in S THEN Append(h[t \ {Max(t)}], s[Max(t)])
                               ELSE h[t \ {Max(t)}]]
           g == CHOOSE h : h = Body(h)
<1>1. Picked(s, S) = g[1 .. N]
  BY DOMAIN s = 1 .. N DEF Picked, FoldLeft, MapThenFoldSet
<1>2. \A k \in 1 .. N : s[k] \in P
  BY ElementOf
<1>3. N \in Nat /\ <<>> \in Acc /\ \A k \in 1 .. N, a \in Acc : Append(a, s[k]) \in Acc
  BY <1>2
<1> HIDE DEF N, Acc
<1>4. step \in [1 .. N -> [Acc -> Acc]]
  BY <1>3
<1>5. \A k \in 1 .. N, a \in Acc : step[k][a] = IF s[k] \in S THEN Append(a, s[k]) ELSE a
  OBVIOUS
<1> HIDE DEF step
<1>6. \A t \in SUBSET (1 .. N) : t # {} => Max(t) \in 1 .. N
  BY <1>3, MaxIn
<1>7. PICK h \in [SUBSET (1 .. N) -> Acc] : Folds(h, N, <<>>, step)
  BY <1>3, <1>4, FoldExists
<1>8. h = Body(h)
  <2>1. ASSUME NEW t \in SUBSET (1 .. N) PROVE h[t] = Body(h)[t]
    <3>1. CASE t = {}
      BY <1>7, <3>1 DEF Folds
    <3>2. CASE t # {}
      <4>1. Max(t) \in 1 .. N /\ t \ {Max(t)} \in SUBSET (1 .. N)
        BY <1>6, <3>2
      <4>2. h[t] = step[Max(t)][h[t \ {Max(t)}]] /\ h[t \ {Max(t)}] \in Acc
        BY <1>7, <3>2, <4>1 DEF Folds
      <4>. QED  BY <1>5, <3>2, <4>1, <4>2
    <3>. QED  BY <3>1, <3>2
  <2>. QED  BY <1>7, <2>1
<1>9. g = Body(g)
  BY <1>8
<1> HIDE DEF g
<1>10. Goes(g, N, Acc, <<>>, step)
  BY <1>5, <1>6, <1>9 DEF Goes
<1>11. PICK f \in [0 .. N -> Acc] : Stages(f, N, <<>>, step) /\ f[N] = g[1 .. N]
  BY <1>3, <1>4, <1>10, FoldSteps
<1>12. Listing(f, s, S)
  <2>1. \A k \in 1 .. N : k - 1 \in 0 .. N
    BY <1>3
  <2>2. \A k \in 1 .. N : f[k] = IF s[k] \in S THEN Append(f[k - 1], s[k]) ELSE f[k - 1]
    BY <1>5, <1>11, <2>1 DEF Stages
  <2>. QED  BY <1>11, <2>2 DEF Stages, Listing, N
<1>. QED  BY <1>1, <1>11, <1>12 DEF N, Acc

\* dicts with keys of Keys and values of Values
Dicts(Keys, Values) == UNION {[K -> Values] : K \in SUBSET Keys}

\* A dict is what has a domain and values.
LEMMA DictMeans ==
    ASSUME NEW Keys, NEW Values, NEW d
    PROVE  d \in Dicts(Keys, Values) <=>
              /\ d = [n \in DOMAIN d |-> d[n]]
              /\ DOMAIN d \subseteq Keys
              /\ \A n \in DOMAIN d : d[n] \in Values
<1>1. ASSUME d \in Dicts(Keys, Values)
      PROVE  /\ d = [n \in DOMAIN d |-> d[n]]
             /\ DOMAIN d \subseteq Keys
             /\ \A n \in DOMAIN d : d[n] \in Values
  <2>1. PICK K \in SUBSET Keys : d \in [K -> Values]
    BY <1>1 DEF Dicts
  <2>. QED  BY <2>1
<1>2. ASSUME d = [n \in DOMAIN d |-> d[n]], DOMAIN d \subseteq Keys,
             \A n \in DOMAIN d : d[n] \in Values
      PROVE  d \in Dicts(Keys, Values)
  <2>1. d \in [DOMAIN d -> Values]
    BY <1>2
  <2>. QED  BY <1>2, <2>1 DEF Dicts
<1>. QED  BY <1>1, <1>2

\* Keyword arguments, and positional ones that are left
Takings(Keys, Values) == [kw : Dicts(Keys, Values), left : Seq(Values)]

\* Take() takes one of them, or none.
LEMMA TakeType ==
    ASSUME NEW Keys, NEW Values, NEW st \in Takings(Keys, Values), NEW n \in Keys
    PROVE  /\ Take(st, n) \in Takings(Keys, Values)
           /\ n \in DOMAIN st.kw \/ st.left = <<>> => Take(st, n) = st
           /\ n \notin DOMAIN st.kw /\ st.left # <<>> =>
                 /\ DOMAIN Take(st, n).kw = DOMAIN st.kw \cup {n}
                 /\ \A m \in DOMAIN st.kw : Take(st, n).kw[m] = st.kw[m]
                 /\ Take(st, n).kw[n] = st.left[1]
                 /\ Take(st, n).left = Tail(st.left)
<1>1. CASE n \in DOMAIN st.kw \/ st.left = <<>>
  BY <1>1 DEF Take
<1>2. CASE ~(n \in DOMAIN st.kw \/ st.left = <<>>)
  <2> DEFINE d == Updated(st.kw, [m \in {n} |-> Head(st.left)])
  <2>1. Take(st, n) = [kw |-> d, left |-> Tail(st.left)]
    BY <1>2 DEF Take
  <2>2. st.left \in Seq(Values) /\ st.left # <<>> /\ st.kw \in Dicts(Keys, Values)
    BY <1>2 DEF Takings
  <2>3. Head(st.left) = st.left[1] /\ st.left[1] \in Values /\ Tail(st.left) \in Seq(Values)
    BY <2>2
  <2>4. /\ DOMAIN d = DOMAIN st.kw \cup {n} /\ d = [m \in DOMAIN d |-> d[m]]
        /\ d[n] = st.left[1] /\ \A m \in DOMAIN st.kw : d[m] = st.kw[m]
    BY <1>2, <2>3 DEF Updated
  <2>5. DOMAIN st.kw \subseteq Keys /\ \A m \in DOMAIN st.kw : st.kw[m] \in Values
    BY <2>2, DictMeans
  <2>6. d \in Dicts(Keys, Values)
    <3> HIDE DEF d
    <3>1. DOMAIN d \subseteq Keys /\ \A m \in DOMAIN d : d[m] \in Values
      BY <2>3, <2>4, <2>5
    <3>. QED  BY <2>4, <3>1, DictMeans
  <2> HIDE DEF d
  <2>. QED  BY <1>2, <2>1, <2>3, <2>4, <2>6 DEF Takings
<1>. QED  BY <1>1, <1>2

\* What is taken and left after the first k names of L
Giving(f, st, L) == f[0] = st /\ \A k \in 1 .. Len(L) : f[k] = Take(f[k - 1], L[k])

\* Arguments are handed out in as many steps as there are names.
LEMMA TakeSteps ==
    ASSUME NEW Keys, NEW Values, NEW st \in Takings(Keys, Values), NEW L \in Seq(Keys)
    PROVE  \E f \in [0 .. Len(L) -> Takings(Keys, Values)] :
              Giving(f, st, L) /\ FoldLeft(Take, st, L) = f[Len(L)]
<1> DEFINE N == Len(L)
           Acc == Takings(Keys, Values)
           step == [k \in 1 .. N |-> [a \in Acc |-> Take(a, L[k])]]
           Body(h) == [t \in SUBSET (1 .. N) |->
                          IF t = {} THEN st ELSE Take(h[t \ {Max(t)}], L[Max(t)])]
           g == CHOOSE h : h = Body(h)
<1>1. FoldLeft(Take, st, L) = g[1 .. N]
  BY DOMAIN L = 1 .. N DEF FoldLeft, MapThenFoldSet
<1>2. \A k \in 1 .. N : L[k] \in Keys
  BY ElementOf
<1>3. N \in Nat /\ st \in Acc /\ \A k \in 1 .. N, a \in Acc : Take(a, L[k]) \in Acc
  BY <1>2, TakeType
<1> HIDE DEF N, Acc
<1>4. step \in [1 .. N -> [Acc -> Acc]]
  BY <1>3
<1>5. \A k \in 1 .. N, a \in Acc : step[k][a] = Take(a, L[k])
  OBVIOUS
<1> HIDE DEF step
<1>6. \A t \in SUBSET (1 .. N) : t # {} => Max(t) \in 1 .. N
  BY <1>3, MaxIn
<1>7. PICK h \in [SUBSET (1 .. N) -> Acc] : Folds(h, N, st, step)
  BY <1>3, <1>4, FoldExists
<1>8. h = Body(h)
  <2>1. ASSUME NEW t \in SUBSET (1 .. N) PROVE h[t] = Body(h)[t]
    <3>1. CASE t = {}
      BY <1>7, <3>1 DEF Folds
    <3>2. CASE t # {}
      <4>1. Max(t) \in 1 .. N /\ t \ {Max(t)} \in SUBSET (1 .. N)
        BY <1>6, <3>2
      <4>2. h[t] = step[Max(t)][h[t \ {Max(t)}]] /\ h[t \ {Max(t)}] \in Acc
        BY <1>7, <3>2, <4>1 DEF Folds
      <4>. QED  BY <1>5, <3>2, <4>1, <4>2
    <3>. QED  BY <3>1, <3>2
  <2>. QED  BY <1>7, <2>1
<1>9. g = Body(g)
  BY <1>8
<1> HIDE DEF g
<1>10. Goes(g, N, Acc, st, step)
  BY <1>5, <1>6, <1>9 DEF Goes
<1>11. PICK f \in [0 .. N -> Acc] : Stages(f, N, st, step) /\ f[N] = g[1 .. N]
  BY <1>3, <1>4, <1>10, FoldSteps
<1>12. Giving(f, st, L)
  <2>1. \A k \in 1 .. N : k - 1 \in 0 .. N
    BY <1>3
  <2>2. \A k \in 1 .. N : f[k] = Take(f[k - 1], L[k])
    BY <1>5, <1>11, <2>1 DEF Stages
  <2>. QED  BY <1>11, <2>2 DEF Stages, Giving, N
<1>. QED  BY <1>1, <1>11, <1>12 DEF N, Acc

\* A list has the elements asked for, once each if they are there once.
LEMMA PickedElements ==
    ASSUME NEW P, NEW s \in Seq(P), NEW S
    PROVE  /\ Picked(s, S) \in Seq(P)
           /\ \A p : (\E i \in 1 .. Len(Picked(s, S)) : Picked(s, S)[i] = p)
                        <=> p \in S /\ \E i \in 1 .. Len(s) : s[i] = p
           /\ (\A i, j \in 1 .. Len(s) : s[i] = s[j] => i = j)
                 => \A i, j \in 1 .. Len(Picked(s, S)) : Picked(s, S)[i] = Picked(s, S)[j] => i = j
<1> DEFINE N == Len(s)
           In(l, k) == \A p : (\E i \in 1 .. Len(l) : l[i] = p)
                                 <=> p \in S /\ \E i \in 1 .. k : s[i] = p
           Distinct(l, k) == (\A i, j \in 1 .. k : s[i] = s[j] => i = j)
                                => \A i, j \in 1 .. Len(l) : l[i] = l[j] => i = j
<1>1. PICK f \in [0 .. N -> Seq(P)] : Listing(f, s, S) /\ Picked(s, S) = f[N]
  BY PickedSteps
<1> DEFINE T == {k \in 0 .. N : In(f[k], k) /\ Distinct(f[k], k)}
<1>2. 0 \in T
  <2>1. f[0] = <<>> /\ 1 .. 0 = {} /\ Len(<<>>) = 0
    BY <1>1 DEF Listing
  <2>. QED  BY <2>1
<1>3. ASSUME NEW k \in 0 .. N - 1, k \in T PROVE k + 1 \in T
  <2> DEFINE l == f[k]
             x == s[k + 1]
  <2>1. /\ k + 1 \in 1 .. N /\ k + 1 \in 0 .. N /\ (k + 1) - 1 = k /\ k \in 0 .. N /\ k \in Nat
        /\ \A i \in 1 .. k + 1 : i = k + 1 \/ i \in 1 .. k
        /\ \A i \in 1 .. k : i \in 1 .. k + 1 /\ i # k + 1
        /\ k + 1 \in 1 .. k + 1
    OBVIOUS
  <2>2. f[k + 1] = IF x \in S THEN Append(l, x) ELSE l
    BY <1>1, <2>1 DEF Listing
  <2>3. l \in Seq(P) /\ x \in P /\ In(l, k) /\ Distinct(l, k)
    BY <1>3, <2>1, ElementOf
  <2> HIDE DEF l, x
  <2>4. CASE x \notin S
    <3>1. In(l, k + 1)
      BY <2>1, <2>3, <2>4 DEF x
    <3>2. Distinct(l, k + 1)
      BY <2>1, <2>3
    <3>. QED  BY <2>1, <2>2, <2>4, <3>1, <3>2
  <2>5. CASE x \in S
    <3> DEFINE m == Append(l, x)
    <3>1. /\ Len(m) = Len(l) + 1 /\ Len(l) \in Nat
          /\ \A i \in 1 .. Len(l) : m[i] = l[i] /\ m[Len(m)] = x
      BY <2>3
    <3>2. /\ \A i \in 1 .. Len(m) : i = Len(m) \/ i \in 1 .. Len(l)
          /\ \A i \in 1 .. Len(l) : i \in 1 .. Len(m) /\ i # Len(m)
          /\ Len(m) \in 1 .. Len(m) /\ m[Len(m)] = x
      BY <2>3, <3>1
    <3> HIDE DEF m
    <3>3. In(m, k + 1)
      <4> SUFFICES ASSUME NEW p
                   PROVE  (\E i \in 1 .. Len(m) : m[i] = p) <=> p \in S /\ \E i \in 1 .. k + 1 : s[i] = p
        OBVIOUS
      <4>1. (\E i \in 1 .. Len(m) : m[i] = p) <=> p = x \/ \E i \in 1 .. Len(l) : l[i] = p
        BY <3>1, <3>2
      <4>2. (\E i \in 1 .. k + 1 : s[i] = p) <=> p = x \/ \E i \in 1 .. k : s[i] = p
        BY <2>1 DEF x
      <4>. QED  BY <2>3, <2>5, <4>1, <4>2
    <3>4. Distinct(m, k + 1)
      <4>1. SUFFICES ASSUME \A i, j \in 1 .. k + 1 : s[i] = s[j] => i = j
                     PROVE  \A i, j \in 1 .. Len(m) : m[i] = m[j] => i = j
        OBVIOUS
      <4>2. \A i, j \in 1 .. Len(l) : l[i] = l[j] => i = j
        BY <2>1, <2>3, <4>1
      <4>3. \A i \in 1 .. Len(l) : l[i] # x
        <5>1. \A j \in 1 .. k : s[j] # x
          BY <2>1, <4>1 DEF x
        <5>2. \A p : (\E i \in 1 .. Len(l) : l[i] = p) => \E j \in 1 .. k : s[j] = p
          BY <2>3
        <5>. QED  BY <5>1, <5>2
      <4> HIDE DEF m
      <4>4. \A i \in 1 .. Len(m) : (i = Len(m) /\ m[i] = x) \/ (i \in 1 .. Len(l) /\ m[i] = l[i])
        BY <3>1, <3>2
      <4> SUFFICES ASSUME NEW i \in 1 .. Len(m), NEW j \in 1 .. Len(m), m[i] = m[j]
                   PROVE  i = j
        OBVIOUS
      <4>5. CASE i = Len(m) /\ m[i] = x
        BY <4>3, <4>4, <4>5
      <4>6. CASE i \in 1 .. Len(l) /\ m[i] = l[i]
        BY <4>2, <4>3, <4>4, <4>6
      <4>. QED  BY <4>4, <4>5, <4>6
    <3>. QED  BY <2>1, <2>2, <2>5, <3>3, <3>4 DEF m
  <2>. QED  BY <2>4, <2>5
<1>4. N \in Nat /\ N \in 0 .. N
  OBVIOUS
<1> HIDE DEF T, N
<1>5. \A k \in 0 .. N : k \in T
  BY <1>2, <1>3, <1>4, Induction
<1>6. In(f[N], N) /\ Distinct(f[N], N)
  BY <1>4, <1>5 DEF T
<1>. QED  BY <1>1, <1>6 DEF N

\* As long as all that is in the larger list is in the smaller one, they are the same.
LEMMA PickedPrefix ==
    ASSUME NEW P, NEW s \in Seq(P), NEW R, NEW S, S \subseteq R
    PROVE  /\ Len(Picked(s, S)) <= Len(Picked(s, R))
           /\ \A m \in 0 .. Len(Picked(s, R)) :
                 (\A i \in 1 .. m : Picked(s, R)[i] \in S)
                    => /\ m <= Len(Picked(s, S))
                       /\ \A i \in 1 .. m : Picked(s, S)[i] = Picked(s, R)[i]
<1> DEFINE N == Len(s)
           Same(l, r) == /\ Len(l) <= Len(r)
                         /\ \A m \in 0 .. Len(r) :
                               (\A i \in 1 .. m : r[i] \in S)
                                  => m <= Len(l) /\ \A i \in 1 .. m : l[i] = r[i]
<1>1. PICK f \in [0 .. N -> Seq(P)] : Listing(f, s, S) /\ Picked(s, S) = f[N]
  BY PickedSteps
<1>2. PICK g \in [0 .. N -> Seq(P)] : Listing(g, s, R) /\ Picked(s, R) = g[N]
  BY PickedSteps
<1> DEFINE T == {k \in 0 .. N : Same(f[k], g[k])}
<1>3. 0 \in T
  <2>1. f[0] = <<>> /\ g[0] = <<>> /\ Len(<<>>) = 0
    BY <1>1, <1>2 DEF Listing
  <2>2. Same(<<>>, <<>>)
    BY Len(<<>>) = 0
  <2>. QED  BY <2>1, <2>2
<1>4. ASSUME NEW k \in 0 .. N - 1, k \in T PROVE k + 1 \in T
  <2> DEFINE l == f[k]
             r == g[k]
             x == s[k + 1]
  <2>1. k + 1 \in 1 .. N /\ k + 1 \in 0 .. N /\ (k + 1) - 1 = k /\ k \in 0 .. N
    OBVIOUS
  <2>2. /\ f[k + 1] = IF x \in S THEN Append(l, x) ELSE l
        /\ g[k + 1] = IF x \in R THEN Append(r, x) ELSE r
    BY <1>1, <1>2, <2>1 DEF Listing
  <2>3. l \in Seq(P) /\ r \in Seq(P) /\ x \in P /\ Same(l, r)
    BY <1>4, <2>1, ElementOf
  <2> HIDE DEF l, r, x
  <2>4. CASE x \notin R
    BY <2>1, <2>2, <2>3, <2>4
  <2>5. CASE x \in R
    <3> DEFINE r1 == Append(r, x)
    <3>1. /\ Len(r1) = Len(r) + 1 /\ Len(r) \in Nat /\ Len(l) \in Nat /\ r1[Len(r) + 1] = x
          /\ \A i \in 1 .. Len(r) : r1[i] = r[i]
      BY <2>3
    <3> HIDE DEF r1
    <3>2. \A m \in 0 .. Len(r1) : m = Len(r) + 1 \/ m \in 0 .. Len(r)
      BY <3>1
    <3>3. \A m \in 0 .. Len(r) : \A i \in 1 .. m : i \in 1 .. Len(r)
      BY <3>1
    <3>4. CASE x \notin S
      <4>1. Len(r) + 1 \in 1 .. Len(r) + 1 /\ Len(l) <= Len(r1)
        BY <2>3, <3>1
      <4>2. Same(l, r1)
        BY <2>3, <3>1, <3>2, <3>3, <3>4, <4>1
      <4>. QED  BY <2>1, <2>2, <2>5, <3>4, <4>2 DEF r1
    <3>5. CASE x \in S
      <4> DEFINE l1 == Append(l, x)
      <4>1. /\ Len(l1) = Len(l) + 1 /\ l1[Len(l) + 1] = x
            /\ \A i \in 1 .. Len(l) : l1[i] = l[i]
        BY <2>3
      <4> HIDE DEF l1
      <4>2. Len(l1) <= Len(r1)
        BY <2>3, <3>1, <4>1
      <4>3. ASSUME NEW m \in 0 .. Len(r1), \A i \in 1 .. m : r1[i] \in S
            PROVE  m <= Len(l1) /\ \A i \in 1 .. m : l1[i] = r1[i]
        <5>1. CASE m \in 0 .. Len(r)
          <6>1. \A i \in 1 .. m : r[i] \in S
            BY <3>1, <3>3, <4>3, <5>1
          <6>2. m <= Len(l) /\ \A i \in 1 .. m : l[i] = r[i]
            BY <2>3, <5>1, <6>1
          <6>3. \A i \in 1 .. m : i \in 1 .. Len(l)
            BY <3>1, <5>1, <6>2
          <6>. QED  BY <3>1, <3>3, <4>1, <5>1, <6>2, <6>3
        <5>2. CASE m = Len(r) + 1
          <6>1. Len(r) \in 0 .. Len(r) /\ \A i \in 1 .. Len(r) : i \in 1 .. m
            BY <3>1, <5>2
          <6>2. \A i \in 1 .. Len(r) : r[i] \in S
            BY <3>1, <4>3, <6>1
          <6>3. Len(r) <= Len(l) /\ \A i \in 1 .. Len(r) : l[i] = r[i]
            BY <2>3, <6>1, <6>2
          <6>4. Len(r) = Len(l)
            BY <2>3, <3>1, <6>3
          <6>5. \A i \in 1 .. m : i \in 1 .. Len(r) \/ i = Len(r) + 1
            BY <3>1, <5>2
          <6>. QED  BY <3>1, <4>1, <5>2, <6>3, <6>4, <6>5
        <5>. QED  BY <3>2, <5>1, <5>2
      <4>. QED  BY <2>1, <2>2, <2>5, <3>5, <4>2, <4>3 DEF l1, r1
    <3>. QED  BY <3>4, <3>5
  <2>. QED  BY <2>4, <2>5
<1>5. N \in Nat /\ N \in 0 .. N
  OBVIOUS
<1> HIDE DEF T, N
<1>6. \A k \in 0 .. N : k \in T
  BY <1>3, <1>4, <1>5, Induction
<1>7. Same(f[N], g[N])
  BY <1>5, <1>6 DEF T
<1>. QED  BY <1>1, <1>2, <1>7

\* S picks of s what R picks of t.
SamePlaces(s, S, t, R) == Len(t) = Len(s) /\ \A i \in 1 .. Len(s) : s[i] \in S <=> t[i] \in R

\* l and r are made from the same places of s and t.
Alike(l, r, s, t) ==
    /\ Len(r) = Len(l)
    /\ \A j \in 1 .. Len(l) : \E i \in 1 .. Len(s) : l[j] = s[i] /\ r[j] = t[i]

\* The same places give lists that go together.
LEMMA PickedAlike ==
    ASSUME NEW P, NEW s \in Seq(P), NEW S, NEW Q, NEW t \in Seq(Q), NEW R,
           SamePlaces(s, S, t, R)
    PROVE  Alike(Picked(s, S), Picked(t, R), s, t)
<1> USE DEF SamePlaces, Alike
<1> DEFINE N == Len(s)
<1>1. PICK f \in [0 .. N -> Seq(P)] : Listing(f, s, S) /\ Picked(s, S) = f[N]
  BY PickedSteps
<1>2. PICK g \in [0 .. N -> Seq(Q)] : Listing(g, t, R) /\ Picked(t, R) = g[N]
  BY PickedSteps
<1> DEFINE T == {k \in 0 .. N : Alike(f[k], g[k], s, t)}
<1>3. 0 \in T
  <2>1. f[0] = <<>> /\ g[0] = <<>> /\ Len(<<>>) = 0 /\ 1 .. 0 = {} /\ 0 \in 0 .. N
    BY <1>1, <1>2 DEF Listing
  <2>. QED  BY <2>1
<1>4. ASSUME NEW k \in 0 .. N - 1, k \in T PROVE k + 1 \in T
  <2> DEFINE l == f[k]
             r == g[k]
  <2>1. k + 1 \in 1 .. N /\ k + 1 \in 0 .. N /\ (k + 1) - 1 = k /\ k \in 0 .. N
    OBVIOUS
  <2>2. /\ f[k + 1] = IF s[k + 1] \in S THEN Append(l, s[k + 1]) ELSE l
        /\ g[k + 1] = IF t[k + 1] \in R THEN Append(r, t[k + 1]) ELSE r
    BY <1>1, <1>2, <2>1 DEF Listing
  <2>3. l \in Seq(P) /\ r \in Seq(Q) /\ Alike(l, r, s, t)
    BY <1>4, <2>1
  <2> HIDE DEF l, r
  <2>4. CASE s[k + 1] \notin S
    BY <2>1, <2>2, <2>3, <2>4
  <2>5. CASE s[k + 1] \in S
    <3> DEFINE l1 == Append(l, s[k + 1])
               r1 == Append(r, t[k + 1])
    <3>1. /\ Len(l1) = Len(l) + 1 /\ Len(r1) = Len(r) + 1 /\ Len(r) = Len(l) /\ Len(l) \in Nat
          /\ l1[Len(l) + 1] = s[k + 1] /\ r1[Len(l) + 1] = t[k + 1]
          /\ \A j \in 1 .. Len(l) : l1[j] = l[j] /\ r1[j] = r[j]
      BY <2>3
    <3> HIDE DEF l1, r1
    <3>2. \A j \in 1 .. Len(l1) : j \in 1 .. Len(l) \/ j = Len(l) + 1
      BY <3>1
    <3>3. Alike(l1, r1, s, t)
      BY <2>1, <2>3, <3>1, <3>2
    <3>. QED  BY <2>1, <2>2, <2>5, <3>3 DEF l1, r1
  <2>. QED  BY <2>4, <2>5
<1>5. N \in Nat /\ N \in 0 .. N
  OBVIOUS
<1> HIDE DEF T
<1>6. \A k \in 0 .. N : k \in T
  BY <1>3, <1>4, <1>5, Induction
<1>7. Alike(f[N], g[N], s, t)
  BY <1>5, <1>6 DEF T
<1>. QED  BY <1>1, <1>2, <1>7

\* What is handed out goes to names of L that had nothing; all else stays.
LEMMA TakeKeeps ==
    ASSUME NEW Keys, NEW Values, NEW st \in Takings(Keys, Values), NEW L \in Seq(Keys)
    PROVE  LET r == FoldLeft(Take, st, L)
           IN  /\ r \in Takings(Keys, Values)
               /\ DOMAIN st.kw \subseteq DOMAIN r.kw
               /\ \A n \in DOMAIN r.kw : n \in DOMAIN st.kw \/ \E i \in 1 .. Len(L) : L[i] = n
               /\ \A n \in DOMAIN st.kw : r.kw[n] = st.kw[n]
               /\ st.left = <<>> \/ (\A i \in 1 .. Len(L) : L[i] \in DOMAIN st.kw) => r = st
<1> DEFINE N == Len(L)
           Keeps(r) == /\ r \in Takings(Keys, Values)
                       /\ DOMAIN st.kw \subseteq DOMAIN r.kw
                       /\ \A n \in DOMAIN r.kw : n \in DOMAIN st.kw \/ \E i \in 1 .. N : L[i] = n
                       /\ \A n \in DOMAIN st.kw : r.kw[n] = st.kw[n]
                       /\ st.left = <<>> \/ (\A i \in 1 .. N : L[i] \in DOMAIN st.kw) => r = st
<1>1. PICK f \in [0 .. N -> Takings(Keys, Values)] :
              Giving(f, st, L) /\ FoldLeft(Take, st, L) = f[N]
  BY TakeSteps
<1> DEFINE T == {k \in 0 .. N : Keeps(f[k])}
<1>2. 0 \in T
  <2>1. f[0] = st /\ 0 \in 0 .. N
    BY <1>1 DEF Giving
  <2>. QED  BY <2>1
<1>3. ASSUME NEW k \in 0 .. N - 1, k \in T PROVE k + 1 \in T
  <2>1. k + 1 \in 1 .. N /\ k + 1 \in 0 .. N /\ (k + 1) - 1 = k /\ k \in 0 .. N
    OBVIOUS
  <2>2. f[k + 1] = Take(f[k], L[k + 1])
    BY <1>1, <2>1 DEF Giving
  <2> DEFINE r == f[k]
             n == L[k + 1]
             q == Take(r, n)
  <2>3. Keeps(r) /\ n \in Keys
    BY <1>3, <2>1, ElementOf
  <2>4. n = L[k + 1]
    OBVIOUS
  <2> HIDE DEF r, n
  <2>5. /\ q \in Takings(Keys, Values)
        /\ n \in DOMAIN r.kw \/ r.left = <<>> => q = r
        /\ n \notin DOMAIN r.kw /\ r.left # <<>> =>
              /\ DOMAIN q.kw = DOMAIN r.kw \cup {n}
              /\ \A m \in DOMAIN r.kw : q.kw[m] = r.kw[m]
    BY <2>3, TakeType
  <2> HIDE DEF q
  <2>6. Keeps(q)
    BY <2>1, <2>3, <2>4, <2>5
  <2>. QED  BY <2>1, <2>2, <2>6 DEF q, r, n
<1>4. N \in Nat /\ N \in 0 .. N
  OBVIOUS
<1> HIDE DEF T
<1>5. \A k \in 0 .. N : k \in T
  BY <1>2, <1>3, <1>4, Induction
<1>6. Keeps(f[N])
  BY <1>4, <1>5 DEF T
<1>. QED  BY <1>1, <1>6

\* If none of the first names has a value, as many of them as there are arguments get one
\* each, in order, and what is left is the rest.
Straight(r, st, L, k) ==
    /\ DOMAIN r.kw = DOMAIN st.kw \cup {L[i] : i \in {j \in 1 .. k : j <= Len(st.left)}}
    /\ \A i \in 1 .. k : i <= Len(st.left) => r.kw[L[i]] = st.left[i]
    /\ r.left = SubSeq(st.left, k + 1, Len(st.left))

\* One more, or none are left.
LEMMA StraightStep ==
    ASSUME NEW Keys, NEW Values, NEW st \in Takings(Keys, Values), NEW L \in Seq(Keys),
           \A i, j \in 1 .. Len(L) : L[i] = L[j] => i = j,
           \A i \in 1 .. Len(L) : i <= Len(st.left) => L[i] \notin DOMAIN st.kw,
           NEW k \in 0 .. Len(L) - 1, NEW r \in Takings(Keys, Values), Straight(r, st, L, k)
    PROVE  Straight(Take(r, L[k + 1]), st, L, k + 1)
<1> DEFINE n == L[k + 1]
           q == Take(r, n)
           m == Len(st.left)
<1>1. /\ k \in Nat /\ k + 1 \in 1 .. Len(L) /\ m \in Nat /\ n \in Keys /\ st.left \in Seq(Values)
      /\ \A i \in 1 .. k : i \in 1 .. Len(L) /\ i # k + 1 /\ i \in 1 .. k + 1
      /\ \A i \in 1 .. k + 1 : i \in 1 .. k \/ i = k + 1
      /\ k + 1 \in 1 .. k + 1
  BY ElementOf DEF Takings
<1>2. /\ q \in Takings(Keys, Values)
      /\ n \in DOMAIN r.kw \/ r.left = <<>> => q = r
      /\ n \notin DOMAIN r.kw /\ r.left # <<>> =>
            /\ DOMAIN q.kw = DOMAIN r.kw \cup {n}
            /\ \A x \in DOMAIN r.kw : q.kw[x] = r.kw[x]
            /\ q.kw[n] = r.left[1]
            /\ q.left = Tail(r.left)
  BY <1>1, TakeType
<1>3. CASE k + 1 > m
  <2>1. r.left = <<>> /\ SubSeq(st.left, (k + 1) + 1, m) = <<>>
    BY <1>1, <1>3 DEF Straight
  <2>2. {j \in 1 .. k + 1 : j <= m} = {j \in 1 .. k : j <= m}
    BY <1>1, <1>3
  <2>3. q = r
    BY <1>2, <2>1
  <2> HIDE DEF n, q
  <2>. QED  BY <1>1, <1>3, <2>1, <2>2, <2>3 DEF Straight, q, n
<1>4. CASE k + 1 <= m
  <2>1. /\ r.left # <<>> /\ r.left[1] = st.left[k + 1]
        /\ Tail(r.left) = SubSeq(st.left, (k + 1) + 1, m)
    <3>1. r.left = SubSeq(st.left, k + 1, m)
      BY DEF Straight
    <3>2. k + 1 \in 1 .. Len(st.left) /\ m \in (k + 1) .. Len(st.left)
      BY <1>1, <1>4
    <3>3. Tail(SubSeq(st.left, k + 1, m)) = SubSeq(st.left, (k + 1) + 1, m)
      BY <1>1, <3>2, HeadTailOfSubSeq
    <3>4. SubSeq(st.left, k + 1, m) # <<>> /\ SubSeq(st.left, k + 1, m)[1] = st.left[k + 1]
      <4> DEFINE u == SubSeq(st.left, k + 1, m)
      <4>1. \A i \in (k + 1) .. m : st.left[i] \in Values
        BY <1>1, <3>2, ElementOf
      <4>2. k + 1 \in Int /\ m \in Int /\ k + 1 <= m /\ 1 \in 1 .. m - (k + 1) + 1
            /\ (k + 1) + 1 - 1 = k + 1 /\ m - (k + 1) + 1 # 0
        BY <1>1, <1>4
      <4>3. /\ Len(u) = m - (k + 1) + 1
            /\ \A i \in 1 .. m - (k + 1) + 1 : u[i] = st.left[(k + 1) + i - 1]
        BY <4>1, <4>2, SubSeqProperties
      <4> HIDE DEF u
      <4>4. u # <<>> /\ u[1] = st.left[k + 1]
        BY <4>2, <4>3
      <4>. QED  BY <4>4 DEF u
    <3>. QED  BY <3>1, <3>3, <3>4
  <2>2. n \notin DOMAIN r.kw
    BY <1>1, <1>4 DEF Straight
  <2>3. {j \in 1 .. k + 1 : j <= m} = {j \in 1 .. k : j <= m} \cup {k + 1}
    BY <1>1, <1>4
  <2>4. {L[i] : i \in {j \in 1 .. k + 1 : j <= m}}
            = {L[i] : i \in {j \in 1 .. k : j <= m}} \cup {n}
    BY <2>3
  <2>5. DOMAIN q.kw = DOMAIN st.kw \cup {L[i] : i \in {j \in 1 .. k + 1 : j <= m}}
    BY <1>2, <2>1, <2>2, <2>4 DEF Straight
  <2>6. ASSUME NEW i \in 1 .. k + 1, i <= m
        PROVE  q.kw[L[i]] = st.left[i]
    <3>1. CASE i = k + 1
      BY <1>2, <2>1, <2>2, <3>1
    <3>2. CASE i \in 1 .. k
      <4>1. L[i] \in DOMAIN r.kw /\ r.kw[L[i]] = st.left[i]
        BY <2>6, <3>2 DEF Straight
      <4>. QED  BY <1>2, <2>1, <2>2, <4>1
    <3>. QED  BY <1>1, <3>1, <3>2
  <2>. QED  BY <1>2, <2>1, <2>2, <2>5, <2>6 DEF Straight
<1>. QED  BY <1>1, <1>3, <1>4

\* All of them
LEMMA TakeStraight ==
    ASSUME NEW Keys, NEW Values, NEW st \in Takings(Keys, Values), NEW L \in Seq(Keys),
           \A i, j \in 1 .. Len(L) : L[i] = L[j] => i = j,
           \A i \in 1 .. Len(L) : i <= Len(st.left) => L[i] \notin DOMAIN st.kw
    PROVE  Straight(FoldLeft(Take, st, L), st, L, Len(L))
<1> DEFINE N == Len(L)
<1>1. PICK f \in [0 .. N -> Takings(Keys, Values)] :
              Giving(f, st, L) /\ FoldLeft(Take, st, L) = f[N]
  BY TakeSteps
<1> DEFINE T == {k \in 0 .. N : Straight(f[k], st, L, k)}
<1>2. 0 \in T
  <2>1. f[0] = st /\ 0 \in 0 .. N /\ 1 .. 0 = {} /\ st.left \in Seq(Values)
    BY <1>1 DEF Giving, Takings
  <2>2. SubSeq(st.left, 0 + 1, Len(st.left)) = st.left
    BY <2>1
  <2>3. {j \in 1 .. 0 : j <= Len(st.left)} = {}
    BY <2>1
  <2>. QED  BY <2>1, <2>2, <2>3 DEF Straight
<1>3. ASSUME NEW k \in 0 .. N - 1, k \in T PROVE k + 1 \in T
  <2>1. k + 1 \in 1 .. N /\ k + 1 \in 0 .. N /\ (k + 1) - 1 = k /\ k \in 0 .. N
    OBVIOUS
  <2>2. f[k + 1] = Take(f[k], L[k + 1])
    BY <1>1, <2>1 DEF Giving
  <2>3. Straight(Take(f[k], L[k + 1]), st, L, k + 1)
    BY <1>3, <2>1, StraightStep
  <2>. QED  BY <2>1, <2>2, <2>3
<1>4. N \in Nat /\ N \in 0 .. N
  OBVIOUS
<1> HIDE DEF T
<1>5. \A k \in 0 .. N : k \in T
  BY <1>2, <1>3, <1>4, Induction
<1>. QED  BY <1>1, <1>4, <1>5 DEF T

-----------------------------------------------------------------------------
(* The lists of a signature *)

\* Who is who: names and aliases tell parameters apart, and unknown keywords are no names.
LEMMA Parameters ==
    ASSUME SignatureOK(sig)
    PROVE  /\ sig \in Seq(Parameter)
           /\ \A p \in ToSet(sig) : p \in Parameter /\ \E i \in 1 .. Len(sig) : sig[i] = p
           /\ \A i \in 1 .. Len(sig) : sig[i] \in ToSet(sig)
           /\ \A i, j \in 1 .. Len(sig) : sig[i] = sig[j] => i = j
           /\ \A p, q \in ToSet(sig) : p.name = q.name \/ p.alias = q.name \/ p.alias = q.alias
                                          => p = q
           /\ \A p \in ToSet(sig) :
                 /\ p.source # "caller" \/ p.kind \in Stars => p.alias = p.name
                 /\ p.kind \in Stars => p.name = p.kind /\ p.source = "caller" /\ ~p.required
                 /\ p.name \notin Unknown /\ p.alias \notin Unknown
<1>1. sig \in Seq(Parameter) /\ DOMAIN sig = 1 .. Len(sig)
  BY DEF SignatureOK
<1>2. \A p \in ToSet(sig) : p \in Parameter /\ \E i \in 1 .. Len(sig) : sig[i] = p
  BY <1>1, ElementOf DEF ToSet
<1>3. \A i \in 1 .. Len(sig) : sig[i] \in ToSet(sig)
  BY <1>1 DEF ToSet
<1>4. \A i, j \in 1 .. Len(sig) : sig[i] = sig[j] => i = j
  BY <1>1 DEF SignatureOK
<1>5. ASSUME NEW p \in ToSet(sig), NEW q \in ToSet(sig),
             p.name = q.name \/ p.alias = q.name \/ p.alias = q.alias
      PROVE  p = q
  <2>1. PICK i \in 1 .. Len(sig) : sig[i] = p
    BY <1>2
  <2>2. PICK j \in 1 .. Len(sig) : sig[j] = q
    BY <1>2
  <2>3. i = j
    BY <1>1, <1>5, <2>1, <2>2 DEF SignatureOK
  <2>. QED  BY <2>1, <2>2, <2>3
<1>6. ASSUME NEW p \in ToSet(sig)
      PROVE  /\ p.source # "caller" \/ p.kind \in Stars => p.alias = p.name
             /\ p.kind \in Stars => p.name = p.kind /\ p.source = "caller" /\ ~p.required
             /\ p.name \notin Unknown /\ p.alias \notin Unknown
  <2>1. PICK i \in 1 .. Len(sig) : sig[i] = p
    BY <1>2
  <2>. QED  BY <1>1, <2>1 DEF SignatureOK
<1>. QED  BY <1>1, <1>2, <1>3, <1>4, <1>5, <1>6

\* The names of a list made of parameters are different, and those of these parameters.
LEMMA NamesOf ==
    ASSUME SignatureOK(sig), NEW S
    PROVE  LET l == Picked(sig, S)
               L == Names(l)
           IN  /\ l \in Seq(Parameter) /\ Len(L) = Len(l) /\ DOMAIN L = 1 .. Len(l)
               /\ L \in Seq({p.name : p \in ToSet(sig)})
               /\ \A i \in 1 .. Len(l) : l[i] \in ToSet(sig) /\ l[i] \in S /\ L[i] = l[i].name
               /\ \A p \in ToSet(sig) : p \in S => \E i \in 1 .. Len(l) : l[i] = p
               /\ \A i, j \in 1 .. Len(l) : L[i] = L[j] => i = j
               /\ ToSet(L) = {p.name : p \in {q \in ToSet(sig) : q \in S}}
<1> DEFINE l == Picked(sig, S)
           L == Names(l)
<1>1. /\ l \in Seq(Parameter)
      /\ \A p : (\E i \in 1 .. Len(l) : l[i] = p) <=> p \in S /\ \E i \in 1 .. Len(sig) : sig[i] = p
      /\ \A i, j \in 1 .. Len(l) : l[i] = l[j] => i = j
  <2>1. sig \in Seq(Parameter) /\ \A i, j \in 1 .. Len(sig) : sig[i] = sig[j] => i = j
    BY Parameters
  <2>2. Picked(sig, S) \in Seq(Parameter)
    BY <2>1, PickedElements
  <2>3. \A p : (\E i \in 1 .. Len(Picked(sig, S)) : Picked(sig, S)[i] = p)
                 <=> p \in S /\ \E i \in 1 .. Len(sig) : sig[i] = p
    BY <2>1, PickedElements
  <2>4. \A i, j \in 1 .. Len(Picked(sig, S)) : Picked(sig, S)[i] = Picked(sig, S)[j] => i = j
    BY <2>1, PickedElements
  <2>. QED  BY <2>2, <2>3, <2>4
<1> HIDE DEF l
<1>2. /\ L = [i \in 1 .. Len(l) |-> l[i].name] /\ DOMAIN L = 1 .. Len(l) /\ Len(l) \in Nat
  BY <1>1 DEF Names
<1> HIDE DEF L
<1>3. Len(L) = Len(l)
  BY <1>2
<1>4. \A i \in 1 .. Len(l) : l[i] \in ToSet(sig) /\ l[i] \in S /\ L[i] = l[i].name
  BY <1>1, <1>2, Parameters
<1>5. \A p \in ToSet(sig) : p \in S => \E i \in 1 .. Len(l) : l[i] = p
  BY <1>1, Parameters
<1>6. \A i, j \in 1 .. Len(l) : L[i] = L[j] => i = j
  BY <1>1, <1>4, Parameters
<1>7. L \in Seq({p.name : p \in ToSet(sig)})
  BY <1>2, <1>4
<1>8. ToSet(L) = {p.name : p \in {q \in ToSet(sig) : q \in S}}
  BY <1>2, <1>4, <1>5 DEF ToSet
<1>. QED  BY <1>1, <1>2, <1>3, <1>4, <1>5, <1>6, <1>7, <1>8 DEF l, L

-----------------------------------------------------------------------------
(* What _solve() makes of what a caller passes *)

IsValue(v) == v = [of |-> v.of, as |-> v.as]

\* What a caller may pass
GivenOK ==
    /\ given.args \in Seq(ToSet(given.args))
    /\ \A i \in 1 .. Len(given.args) : IsValue(given.args[i])
    /\ DOMAIN given.kwargs \subseteq Keywords
    /\ \A n \in DOMAIN given.kwargs : IsValue(given.kwargs[n]) /\ given.kwargs[n].of = n

PA == positional_args(sig)
KA == keyword_args(sig)
Kept == IF Boxed("kwargs") THEN DOMAIN given.kwargs \cap ToSet(KA) ELSE DOMAIN given.kwargs
Start == [kw |-> Restrict(given.kwargs, Kept), left |-> given.args]
First == FoldLeft(Take, Start, PA)
Handed == IF Boxed("args") THEN First ELSE LeftOver(First)
Outcome ==
    [kw |-> Handed.kw, left |-> Handed.left,
     dict |-> Restrict(given.kwargs, DOMAIN given.kwargs \ Kept)]
Keys == {p.name : p \in ToSet(sig)} \cup DOMAIN given.kwargs
Vals == ToSet(given.args) \cup {given.kwargs[n] : n \in DOMAIN given.kwargs}

\* Arguments are handed out of what there is.
LEMMA StartType ==
    ASSUME SignatureOK(sig), GivenOK
    PROVE  /\ Start \in Takings(Keys, Vals) /\ Start.left = given.args
           /\ DOMAIN Start.kw = Kept /\ Kept \subseteq DOMAIN given.kwargs
           /\ \A n \in Kept : Start.kw[n] = given.kwargs[n]
           /\ PA \in Seq(Keys) /\ KA \in Seq(Keys)
           /\ \A v \in Vals : IsValue(v)
<1>1. Kept \subseteq DOMAIN given.kwargs
  BY DEF Kept
<1>2. /\ Start.left = given.args /\ Start.kw = [n \in Kept |-> given.kwargs[n]]
      /\ Start = [kw |-> Start.kw, left |-> Start.left]
  BY DEF Start, Restrict
<1>3. Start.kw \in Dicts(Keys, Vals)
  <2>1. /\ Start.kw = [n \in DOMAIN Start.kw |-> Start.kw[n]] /\ DOMAIN Start.kw \subseteq Keys
        /\ \A n \in DOMAIN Start.kw : Start.kw[n] \in Vals
    BY <1>1, <1>2 DEF Keys, Vals
  <2>. QED  BY <2>1, DictMeans
<1>4. given.args \in Seq(Vals)
  <2>1. given.args \in Seq(ToSet(given.args)) /\ ToSet(given.args) \subseteq Vals
    BY DEF GivenOK, Vals
  <2>. QED  BY <2>1
<1>5. PA \in Seq(Keys) /\ KA \in Seq(Keys)
  <2>1. {p.name : p \in ToSet(sig)} \subseteq Keys
    BY DEF Keys
  <2>2. PA \in Seq({p.name : p \in ToSet(sig)}) /\ KA \in Seq({p.name : p \in ToSet(sig)})
    BY NamesOf DEF PA, KA, positional_args, keyword_args
  <2>. QED  BY <2>1, <2>2
<1>6. \A v \in Vals : IsValue(v)
  BY DEF Vals, GivenOK, ToSet
<1>. QED  BY <1>1, <1>2, <1>3, <1>4, <1>5, <1>6 DEF Takings

\* The names LeftOver() gives something to are those of parameters that are not injected.
LEMMA OverType ==
    ASSUME SignatureOK(sig), GivenOK
    PROVE  LET names == KA \o PA
               L == Picked(names, ToSet(names) \ dependencies(sig))
           IN  /\ L \in Seq(Keys)
               /\ \A i \in 1 .. Len(L) : L[i] \in (ToSet(KA) \cup ToSet(PA)) \ dependencies(sig)
<1> DEFINE names == KA \o PA
           L == Picked(names, ToSet(names) \ dependencies(sig))
<1>1. KA \in Seq(Keys) /\ PA \in Seq(Keys)
  BY StartType
<1>2. names \in Seq(Keys) /\ \A i \in 1 .. Len(names) : names[i] \in ToSet(KA) \cup ToSet(PA)
  BY <1>1 DEF ToSet
<1> HIDE DEF names
<1>3. \A S : Picked(names, S) \in Seq(Keys)
  BY <1>2, PickedElements
<1>4. \A n : (\E i \in 1 .. Len(L) : L[i] = n)
                <=> n \in ToSet(names) \ dependencies(sig) /\ \E i \in 1 .. Len(names) : names[i] = n
  BY <1>2, PickedElements
<1>. QED  BY <1>2, <1>3, <1>4 DEF names

\* Whatever becomes of the positional arguments, what was passed by keyword and kept is
\* there, and nothing is handed to a dependency.
LEMMA OutcomeKeeps ==
    ASSUME SignatureOK(sig), GivenOK
    PROVE  /\ Outcome.kw \in Dicts(Keys, Vals) /\ Outcome.left \in Seq(Vals)
           /\ Kept \subseteq DOMAIN Outcome.kw
           /\ \A n \in Kept : Outcome.kw[n] = given.kwargs[n]
           /\ \A n \in DOMAIN Outcome.kw :
                 n \in Kept \/ n \in (ToSet(KA) \cup ToSet(PA)) \ dependencies(sig)
           /\ DOMAIN Outcome.dict = DOMAIN given.kwargs \ Kept
           /\ \A n \in DOMAIN Outcome.dict : Outcome.dict[n] = given.kwargs[n]
<1> DEFINE Keeps(st) ==
              /\ st \in Takings(Keys, Vals)
              /\ Kept \subseteq DOMAIN st.kw
              /\ \A n \in Kept : st.kw[n] = given.kwargs[n]
              /\ \A n \in DOMAIN st.kw :
                    n \in Kept \/ n \in (ToSet(KA) \cup ToSet(PA)) \ dependencies(sig)
           names == KA \o PA
           Over == Picked(names, ToSet(names) \ dependencies(sig))
<1>1. /\ Start \in Takings(Keys, Vals) /\ DOMAIN Start.kw = Kept
      /\ \A n \in Kept : Start.kw[n] = given.kwargs[n]
      /\ PA \in Seq(Keys) /\ KA \in Seq(Keys)
  BY StartType
<1>2. \A i \in 1 .. Len(PA) : PA[i] \in ToSet(PA) \ dependencies(sig)
  <2>1. /\ \A i \in 1 .. Len(PA) : PA[i] \in ToSet(PA)
        /\ ToSet(PA) = {p.name : p \in {q \in ToSet(sig) : q \in PositionalParams(sig)}}
    BY <1>1, NamesOf DEF PA, positional_args, ToSet
  <2>2. \A p \in PositionalParams(sig) : p.name \notin dependencies(sig)
    BY Parameters DEF PositionalParams, dependencies, Of
  <2>. QED  BY <2>1, <2>2
<1>3. Keeps(First)
  <2>1. First = FoldLeft(Take, Start, PA)
    BY DEF First
  <2>2. /\ First \in Takings(Keys, Vals)
        /\ DOMAIN Start.kw \subseteq DOMAIN First.kw
        /\ \A n \in DOMAIN First.kw : n \in DOMAIN Start.kw \/ \E i \in 1 .. Len(PA) : PA[i] = n
        /\ \A n \in DOMAIN Start.kw : First.kw[n] = Start.kw[n]
    BY <1>1, <2>1, TakeKeeps
  <2>. QED  BY <1>1, <1>2, <2>2
<1>4. Keeps(LeftOver(First))
  <2>1. Over \in Seq(Keys)
        /\ \A i \in 1 .. Len(Over) : Over[i] \in (ToSet(KA) \cup ToSet(PA)) \ dependencies(sig)
    BY OverType
  <2>2. LeftOver(First) = FoldLeft(Take, First, Over)
    BY DEF LeftOver, KA, PA
  <2> HIDE DEF Over
  <2>3. /\ LeftOver(First) \in Takings(Keys, Vals)
        /\ DOMAIN First.kw \subseteq DOMAIN LeftOver(First).kw
        /\ \A n \in DOMAIN LeftOver(First).kw :
              n \in DOMAIN First.kw \/ \E i \in 1 .. Len(Over) : Over[i] = n
        /\ \A n \in DOMAIN First.kw : LeftOver(First).kw[n] = First.kw[n]
    BY <1>3, <2>1, <2>2, TakeKeeps
  <2>. QED  BY <1>3, <2>1, <2>3
<1>5. Keeps(IF Boxed("args") THEN First ELSE LeftOver(First))
  BY <1>3, <1>4
<1>6. /\ DOMAIN Outcome.dict = DOMAIN given.kwargs \ Kept
      /\ \A n \in DOMAIN Outcome.dict : Outcome.dict[n] = given.kwargs[n]
  BY DEF Outcome, Restrict
<1>7. \A st \in Takings(Keys, Vals) : st.kw \in Dicts(Keys, Vals) /\ st.left \in Seq(Vals)
  BY DEF Takings
<1>8. Keeps(Handed) /\ Outcome.kw = Handed.kw /\ Outcome.left = Handed.left
  BY <1>5 DEF Handed, Outcome
<1>. QED  BY <1>6, <1>7, <1>8

-----------------------------------------------------------------------------
(* What has become of a call in each phase *)

Solved ==
    Updated(Outcome.kw,
            [n \in (dependencies(sig) \ DOMAIN Outcome.kw) \cup found |-> Value("injected")])
CastKw == Updated(Solved, IF Serialized THEN Casted(sig, Solved) ELSE Empty)
CastLeft ==
    IF Serialized THEN [i \in DOMAIN Outcome.left |-> CastAs(Outcome.left[i], "args")]
    ELSE Outcome.left
CastDict ==
    IF Serialized THEN [n \in DOMAIN Outcome.dict |-> CastAs(Outcome.dict[n], "kwargs")]
    ELSE Outcome.dict

IsSolved == kw = Solved /\ left = Outcome.left /\ dict = Outcome.dict
IsCast == kw = CastKw /\ left = CastLeft /\ dict = CastDict
IsPassed ==
    /\ IsCast
    /\ Popped \subseteq DOMAIN kw
    /\ kwargs_ = KeywordArgs
    /\ args_ = IF Has(sig, "args") THEN [i \in DOMAIN PA |-> kw[PA[i]]] \o left ELSE <<>>
NotRun == bound = NotBound /\ error = NoError

\* Why a call is refused: by the serializer, for want of an argument to pop, by Python, or
\* for its response.
IsRefused ==
    \/ /\ Serialized /\ IsSolved /\ Culprits(sig, kw, wrong) # {}
       /\ bound = NotBound /\ error.kind \in {"ValidationError", "library"}
    \/ IsCast /\ ~(Popped \subseteq DOMAIN kw) /\ bound = NotBound /\ error.kind = "KeyError"
    \/ /\ IsPassed /\ bound = PyBind(sig, args_, kwargs_) /\ ~bound.ok
       /\ error.kind = "TypeError"
    \/ bound.ok /\ error.kind \in {"ValidationError", "library"}

CallInv ==
    /\ phase \in {"none", "idle", "solving", "solved", "cast", "bound", "called", "refused"}
    /\ phase # "none" => sig \in Signatures /\ serializer \in Classes
    /\ phase \in {"none", "idle"} => NotRun
    /\ phase \notin {"none", "idle"} => GivenOK
    /\ phase \notin {"none", "idle", "solving"} => found \subseteq custom_fields(sig)
    /\ phase = "solving" =>
          kw = Outcome.kw /\ left = Outcome.left /\ dict = Outcome.dict /\ NotRun
    /\ phase = "solved" => IsSolved /\ NotRun
    /\ phase = "cast" => IsCast /\ NotRun
    /\ phase = "bound" => IsPassed /\ NotRun
    /\ phase = "called" =>
          IsPassed /\ bound = PyBind(sig, args_, kwargs_) /\ bound.ok /\ error = NoError
    /\ phase = "refused" => IsRefused

\* The outcome depends on the callable and what was passed alone.
LEMMA SameOutcome ==
    ASSUME UNCHANGED <<sig, serializer, given>>
    PROVE  /\ Outcome' = Outcome
           /\ GivenOK' = GivenOK
           /\ Serialized' = Serialized
           /\ custom_fields(sig)' = custom_fields(sig)
           /\ dependencies(sig)' = dependencies(sig)
<1>1. Serialized' = Serialized /\ Boxed("args")' = Boxed("args") /\ Boxed("kwargs")' = Boxed("kwargs")
  BY DEF Serialized, Boxed, Has, GetAliases, Options
<1>2. Keywords' = Keywords
  BY DEF Keywords
<1>3. GivenOK' = GivenOK
  BY <1>2 DEF GivenOK
<1>4. PA' = PA /\ KA' = KA /\ dependencies(sig)' = dependencies(sig)
      /\ custom_fields(sig)' = custom_fields(sig)
  BY DEF PA, KA
<1>5. Kept' = Kept /\ Start' = Start
  BY <1>1, <1>4 DEF Kept, Start, Restrict
<1>6. First' = First
  BY <1>4, <1>5 DEF First
<1>7. LeftOver(First)' = LeftOver(First)
  BY <1>4, <1>6 DEF LeftOver, KA, PA
<1>8. Handed' = Handed
  BY <1>1, <1>6, <1>7 DEF Handed
<1>9. Outcome' = Outcome
  BY <1>5, <1>8 DEF Outcome, Restrict
<1>. QED  BY <1>1, <1>3, <1>4, <1>9

\* What _solve() starts with is what it makes of the arguments.
LEMMA CallStep ==
    ASSUME CallInv, Call
    PROVE  CallInv'
<1>1. phase = "idle" /\ phase' = "solving" /\ sig' = sig /\ serializer' = serializer
      /\ bound' = bound /\ error' = error
  BY DEF Call
<1>2. PICK n \in 0 .. Len(Ordinals), names \in SUBSET Keywords :
          LET args == [i \in 1 .. n |-> Value(Ordinals[i])]
              kwargs == [k \in names |-> Value(k)]
              st == Distribute(args, kwargs)
          IN  /\ given' = [args |-> args, kwargs |-> kwargs]
              /\ kw' = st.kw /\ left' = st.left /\ dict' = st.dict
  BY DEF Call
<1> DEFINE args == [i \in 1 .. n |-> Value(Ordinals[i])]
           kwargs == [k \in names |-> Value(k)]
<1>3. given'.args = args /\ given'.kwargs = kwargs
  BY <1>2
<1>4. GivenOK'
  <2>1. n \in Nat /\ args \in Seq(ToSet(args)) /\ Len(args) = n
    BY ArgumentsAssumption DEF ToSet
  <2>2. Keywords' = Keywords
    BY <1>1 DEF Keywords
  <2>. QED  BY <1>3, <2>1, <2>2 DEF GivenOK, IsValue, Value
<1>5. Serialized' = Serialized /\ Boxed("args")' = Boxed("args") /\ Boxed("kwargs")' = Boxed("kwargs")
      /\ PA' = PA /\ KA' = KA
  BY <1>1 DEF Serialized, Boxed, Has, GetAliases, Options, PA, KA
<1>6. Distribute(args, kwargs) = Outcome'
  BY <1>1, <1>3, <1>5 DEF Distribute, Outcome, Handed, First, Start, Kept, LeftOver, PA, KA, Restrict
<1>7. kw' = Outcome.kw' /\ left' = Outcome.left' /\ dict' = Outcome.dict'
  BY <1>2, <1>6
<1>. QED  BY <1>1, <1>4, <1>7 DEF CallInv, NotRun

\* Dependencies and customs fill what they fill.
LEMMA InjectedStep ==
    ASSUME CallInv, SolveInjected
    PROVE  CallInv'
<1>1. /\ phase = "solving" /\ phase' = "solved" /\ UNCHANGED <<sig, serializer, given>>
      /\ UNCHANGED <<left, dict, bound, error>> /\ found' \in SUBSET custom_fields(sig)
      /\ kw' = Updated(kw, [n \in (dependencies(sig) \ DOMAIN kw) \cup found' |-> Value("injected")])
  BY DEF SolveInjected
<1>2. Outcome' = Outcome /\ GivenOK' = GivenOK /\ custom_fields(sig)' = custom_fields(sig)
      /\ dependencies(sig)' = dependencies(sig)
  BY <1>1, SameOutcome
<1>3. kw = Outcome.kw /\ left = Outcome.left /\ dict = Outcome.dict /\ NotRun /\ GivenOK
  BY <1>1 DEF CallInv
<1>4. IsSolved'
  BY <1>1, <1>2, <1>3 DEF IsSolved, Solved
<1>. QED  BY <1>1, <1>2, <1>3, <1>4 DEF CallInv, NotRun

\* From here on kw, left and dict are what they are by what was passed and found.
LEMMA SameSolved ==
    ASSUME UNCHANGED <<sig, serializer, given, found>>
    PROVE  /\ Outcome' = Outcome /\ GivenOK' = GivenOK /\ Serialized' = Serialized
           /\ custom_fields(sig)' = custom_fields(sig)
           /\ Solved' = Solved /\ CastKw' = CastKw /\ CastLeft' = CastLeft /\ CastDict' = CastDict
           /\ PA' = PA /\ Popped' = Popped /\ Has(sig, "args")' = Has(sig, "args")
<1>1. /\ Outcome' = Outcome /\ GivenOK' = GivenOK /\ Serialized' = Serialized
      /\ custom_fields(sig)' = custom_fields(sig) /\ dependencies(sig)' = dependencies(sig)
  BY SameOutcome
<1>2. Solved' = Solved
  BY <1>1 DEF Solved
<1>3. CastKw' = CastKw /\ CastLeft' = CastLeft /\ CastDict' = CastDict
  BY <1>1, <1>2 DEF CastKw, CastLeft, CastDict
<1>4. PA' = PA /\ Popped' = Popped /\ Has(sig, "args")' = Has(sig, "args")
  BY DEF PA, Popped, Has
<1>. QED  BY <1>1, <1>2, <1>3, <1>4

\* The serializer accepts or refuses.
LEMMA SerializerReturns ==
    ASSUME serializer \in Classes, NEW outcome \in SerializerCall(serializer, sig, kw, wrong)
    PROVE  /\ outcome.ok => outcome.values = IF Serialized THEN Casted(sig, kw) ELSE Empty
           /\ outcome.ok /\ Serialized => Culprits(sig, kw, wrong) = {}
           /\ ~outcome.ok => Serialized /\ Culprits(sig, kw, wrong) # {}
<1>1. serializer.lib \in {"none", "pydantic", "msgspec"}
  BY ArgumentsAssumption DEF NoSerializer
<1>2. CASE serializer.lib = "none"
  BY <1>2 DEF SerializerCall, Serialized, Returns
<1>3. CASE serializer.lib = "pydantic"
  BY <1>3 DEF SerializerCall, Serialized, PydanticCall, Returns, Raises
<1>4. CASE serializer.lib = "msgspec"
  BY <1>4 DEF SerializerCall, Serialized, MsgSpecCall, Returns, Raises
<1>. QED  BY <1>1, <1>2, <1>3, <1>4

\* It accepts.
LEMMA CastStep ==
    ASSUME CallInv, CastArguments
    PROVE  CallInv'
<1>1. /\ phase = "solved" /\ phase' = "cast" /\ UNCHANGED <<sig, serializer, given, found>>
      /\ UNCHANGED <<bound, error>>
  BY DEF CastArguments
<1>2. PICK outcome \in SerializerCall(serializer, sig, kw, wrong) :
           outcome.ok /\ kw' = Updated(kw, outcome.values)
  BY DEF CastArguments
<1>3. IsSolved /\ NotRun /\ GivenOK /\ serializer \in Classes /\ found \subseteq custom_fields(sig)
  BY <1>1 DEF CallInv
<1>4. kw' = CastKw
  BY <1>2, <1>3, SerializerReturns DEF IsSolved, CastKw
<1>5. left' = CastLeft /\ dict' = CastDict
  BY <1>3 DEF CastArguments, IsSolved, CastLeft, CastDict
<1>6. IsCast'
  BY <1>1, <1>4, <1>5, SameSolved DEF IsCast
<1>. QED  BY <1>1, <1>3, <1>6, SameSolved DEF CallInv, NotRun

\* It refuses.
LEMMA RefuseStep ==
    ASSUME CallInv, RefuseArguments
    PROVE  CallInv'
<1>1. /\ phase = "solved" /\ phase' = "refused" /\ UNCHANGED <<sig, serializer, given, found>>
      /\ UNCHANGED <<kw, left, dict, wrong, bound>>
  BY DEF RefuseArguments
<1>2. PICK outcome \in SerializerCall(serializer, sig, kw, wrong) :
           ~outcome.ok /\ error'.kind \in {"ValidationError", "library"}
  BY DEF RefuseArguments, Error
<1>3. IsSolved /\ NotRun /\ GivenOK /\ serializer \in Classes /\ found \subseteq custom_fields(sig)
  BY <1>1 DEF CallInv
<1>4. Serialized /\ Culprits(sig, kw, wrong) # {}
  BY <1>2, <1>3, SerializerReturns
<1>5. IsSolved' /\ Serialized' /\ Culprits(sig, kw, wrong)' # {}
  BY <1>1, <1>3, <1>4, SameSolved DEF IsSolved
<1>6. IsRefused'
  BY <1>1, <1>2, <1>3, <1>5 DEF IsRefused, NotRun
<1>. QED  BY <1>1, <1>3, <1>6, SameSolved DEF CallInv

\* Why a call is refused does not change with what it does not depend on.
LEMMA SamePassed ==
    ASSUME UNCHANGED <<sig, serializer, given, found, kw, left, dict>>
    PROVE  /\ IsCast' = IsCast
           /\ KeywordArgs' = KeywordArgs
           /\ UNCHANGED <<args_, kwargs_>> => IsPassed' = IsPassed
<1>1. /\ CastKw' = CastKw /\ CastLeft' = CastLeft /\ CastDict' = CastDict
      /\ PA' = PA /\ Popped' = Popped /\ Has(sig, "args")' = Has(sig, "args")
  BY SameSolved
<1>2. IsCast' = IsCast
  BY <1>1 DEF IsCast
<1>3. KeywordArgs' = KeywordArgs
  BY <1>1 DEF KeywordArgs, Boxed, Serialized, Has, GetAliases, Options, Restrict
<1>. QED  BY <1>1, <1>2, <1>3 DEF IsPassed

\* What is passed to the callable is popped from kw, or there is something to pop missing.
LEMMA PassStep ==
    ASSUME CallInv, Pass
    PROVE  CallInv'
<1>1. /\ phase = "cast" /\ UNCHANGED <<sig, serializer, given, found>>
      /\ UNCHANGED <<kw, left, dict, wrong, bound>>
  BY DEF Pass
<1>2. IsCast /\ NotRun /\ GivenOK /\ found \subseteq custom_fields(sig)
      /\ sig \in Signatures /\ serializer \in Classes
  BY <1>1 DEF CallInv
<1>3. IsCast' /\ GivenOK' /\ (found \subseteq custom_fields(sig))' /\ KeywordArgs' = KeywordArgs
      /\ PA' = PA /\ Popped' = Popped /\ Has(sig, "args")' = Has(sig, "args")
  BY <1>1, <1>2, SameSolved, SamePassed
<1>4. CASE Popped \subseteq DOMAIN kw
  <2>1. /\ phase' = "bound" /\ kwargs_' = KeywordArgs /\ error' = error
        /\ args_' = IF Has(sig, "args") THEN [i \in DOMAIN PA |-> kw[PA[i]]] \o left ELSE <<>>
    BY <1>4 DEF Pass, PA
  <2>2. IsPassed'
    BY <1>1, <1>3, <1>4, <2>1 DEF IsPassed
  <2>. QED  BY <1>1, <1>2, <1>3, <2>1, <2>2 DEF CallInv, NotRun
<1>5. CASE ~(Popped \subseteq DOMAIN kw)
  <2>1. phase' = "refused" /\ error'.kind = "KeyError"
    BY <1>5 DEF Pass, Error
  <2>2. IsRefused'
    BY <1>1, <1>2, <1>3, <1>5, <2>1 DEF IsRefused, NotRun
  <2>. QED  BY <1>1, <1>2, <1>3, <2>1, <2>2 DEF CallInv
<1>. QED  BY <1>4, <1>5

\* Python binds it, or not.
LEMMA InvokeStep ==
    ASSUME CallInv, Invoke
    PROVE  CallInv'
<1>1. /\ phase = "bound" /\ UNCHANGED <<sig, serializer, given, found>>
      /\ UNCHANGED <<kw, left, dict, wrong, args_, kwargs_>>
      /\ bound' = PyBind(sig, args_, kwargs_)
  BY DEF Invoke
<1>2. IsPassed /\ NotRun /\ GivenOK /\ found \subseteq custom_fields(sig)
      /\ sig \in Signatures /\ serializer \in Classes
  BY <1>1 DEF CallInv
<1>3. IsPassed' /\ GivenOK' /\ (found \subseteq custom_fields(sig))'
  BY <1>1, <1>2, SameSolved, SamePassed
<1>4. bound' = PyBind(sig, args_, kwargs_)'
  BY <1>1
<1>5. CASE bound'.ok
  <2>1. phase' = "called" /\ error' = error
    BY <1>5 DEF Invoke
  <2>. QED  BY <1>1, <1>2, <1>3, <1>4, <1>5, <2>1 DEF CallInv, NotRun
<1>6. CASE ~bound'.ok
  <2>1. phase' = "refused" /\ error'.kind = "TypeError"
    BY <1>6 DEF Invoke, Error
  <2>2. IsRefused'
    BY <1>3, <1>4, <1>6, <2>1 DEF IsRefused
  <2>. QED  BY <1>1, <1>2, <1>3, <2>1, <2>2 DEF CallInv
<1>. QED  BY <1>5, <1>6

\* Each step of a call leaves it where its phase says it is.
LEMMA CallInvStep ==
    CallInv /\ [ArgumentsNext]_vars => CallInv'
<1> SUFFICES ASSUME CallInv, [ArgumentsNext]_vars PROVE CallInv'
  OBVIOUS
<1>1. CASE Declare
  BY <1>1 DEF CallInv, Declare, NotRun
<1>2. CASE Call
  BY <1>2, CallStep
<1>3. CASE SolveInjected
  BY <1>3, InjectedStep
<1>4. CASE CastArguments
  BY <1>4, CastStep
<1>5. CASE RefuseArguments
  BY <1>5, RefuseStep
<1>6. CASE Pass
  BY <1>6, PassStep
<1>7. CASE Invoke
  BY <1>7, InvokeStep
<1>8. CASE RefuseResponse
  <2>1. /\ phase = "called" /\ phase' = "refused" /\ UNCHANGED <<sig, serializer, given, found>>
        /\ UNCHANGED bound /\ error'.kind \in {"ValidationError", "library"}
    BY <1>8 DEF RefuseResponse, Error
  <2>2. GivenOK' /\ (found \subseteq custom_fields(sig))'
    BY <2>1, SameSolved DEF CallInv
  <2>. QED  BY <2>1, <2>2 DEF CallInv, IsRefused
<1>9. CASE Return
  BY <1>9 DEF CallInv, Return, NotRun
<1>10. CASE UNCHANGED vars
  <2>1. /\ UNCHANGED <<sig, serializer, given, found, kw, left, dict>>
        /\ UNCHANGED <<phase, wrong, args_, kwargs_, bound, error>>
    BY <1>10 DEF vars
  <2>2. /\ Outcome' = Outcome /\ GivenOK' = GivenOK /\ Serialized' = Serialized
        /\ custom_fields(sig)' = custom_fields(sig) /\ Solved' = Solved /\ Popped' = Popped
        /\ IsCast' = IsCast /\ IsPassed' = IsPassed
    BY <2>1, SameSolved, SamePassed
  <2>3. NotRun' = NotRun /\ PyBind(sig, args_, kwargs_)' = PyBind(sig, args_, kwargs_)
        /\ Culprits(sig, kw, wrong)' = Culprits(sig, kw, wrong)
    BY <2>1 DEF NotRun
  <2>4. IsSolved' = IsSolved
    BY <2>1, <2>2 DEF IsSolved
  <2>5. IsRefused' = IsRefused
    BY <2>1, <2>2, <2>3, <2>4 DEF IsRefused
  <2>. QED  BY <2>1, <2>2, <2>3, <2>4, <2>5 DEF CallInv
<1>. QED  BY <1>1, <1>2, <1>3, <1>4, <1>5, <1>6, <1>7, <1>8, <1>9, <1>10 DEF ArgumentsNext

\* ... and from the beginning
LEMMA CallInvCorrect == ArgumentsSpec => []CallInv
<1>1. ArgumentsInit => CallInv
  BY DEF ArgumentsInit, CallInv, NotRun
<1>. QED  BY <1>1, CallInvStep, PTL DEF ArgumentsSpec

-----------------------------------------------------------------------------
(* The properties of a call *)

\* A call that is not refused has no error.
LEMMA NotRefused == ASSUME CallInv, phase # "refused" PROVE error = NoError
BY DEF CallInv, NotRun

\* The errors of both libraries are those of parameters at fault.
LEMMA AtFault ==
    ASSUME SignatureOK(sig), serializer.lib \in {"pydantic", "msgspec"},
           NEW outcome \in SerializerCall(serializer, sig, kw, wrong), ~outcome.ok
    PROVE  LET names == {p.name : p \in ToSet(sig)}
               fields == ErrorFields(ToSet(Names(sig)), outcome.locations)
               culprits == Culprits(sig, kw, wrong)
               at == {p.name : p \in culprits}
               plain == {p.name : p \in {q \in culprits : q.alias = q.name}}
               parts == {wrong[n] : n \in DOMAIN wrong}
           IN  /\ ToSet(Names(sig)) = names
               /\ fields # {} /\ fields \subseteq names
               /\ fields \subseteq at \cup parts \/ fields = names
               /\ IF serializer.lib = "pydantic" THEN plain \subseteq fields
                  ELSE plain = at => plain \cap fields # {}
<1> DEFINE names == {p.name : p \in ToSet(sig)}
           locations == outcome.locations
           fields == ErrorFields(ToSet(Names(sig)), locations)
           culprits == Culprits(sig, kw, wrong)
           at == {p.name : p \in culprits}
           plain == {p.name : p \in {q \in culprits : q.alias = q.name}}
           parts == {wrong[n] : n \in DOMAIN wrong}
<1>1. ToSet(Names(sig)) = names
  BY Parameters DEF Names, ToSet
<1>2. /\ culprits \subseteq ToSet(sig) /\ Unfit(sig, kw, wrong) \subseteq culprits
      /\ \A p \in Unfit(sig, kw, wrong) : wrong[p.name] \in parts
  BY DEF Culprits, Missing, Unfit, Options
<1>3. \A p, q \in ToSet(sig) : p.alias = q.name => p = q
  BY Parameters
<1>4. culprits # {}
  BY DEF SerializerCall, PydanticCall, MsgSpecCall, Returns
<1>5. fields = IF locations \cap names # {} THEN locations \cap names ELSE names
  BY <1>1 DEF ErrorFields
<1>6. at \subseteq names /\ at # {} /\ plain \subseteq at
  BY <1>2, <1>4
<1>7. CASE serializer.lib = "pydantic"
  <2>1. locations = {p.alias : p \in culprits} \cup {wrong[p.name] : p \in Unfit(sig, kw, wrong)}
    BY <1>4, <1>7 DEF SerializerCall, PydanticCall, Raises, PydanticLocations
  <2> HIDE DEF locations, culprits, fields
  <2>2. plain \subseteq locations \cap names
    BY <1>6, <2>1
  <2>3. locations \cap names \subseteq at \cup parts
    BY <1>2, <1>3, <2>1
  <2>. QED  BY <1>1, <1>5, <1>6, <1>7, <2>2, <2>3 DEF locations, culprits, fields
<1>8. CASE serializer.lib = "msgspec"
  <2>1. locations = {} \/ \E p \in culprits : locations = {p.alias}
    BY <1>2, <1>4, <1>8 DEF SerializerCall, MsgSpecCall, Raises, MsgSpecLocations
  <2> HIDE DEF locations, culprits, fields
  <2>2. fields = names \/ \E p \in culprits : fields = {p.name}
    BY <1>2, <1>3, <1>5, <2>1
  <2>3. plain = at => plain \cap fields # {}
    BY <1>6, <2>2
  <2>4. fields # {} /\ fields \subseteq names /\ (fields \subseteq at \cup parts \/ fields = names)
    BY <1>2, <1>6, <2>2
  <2>. QED  BY <1>1, <1>8, <2>3, <2>4 DEF locations, culprits, fields
<1>. QED  BY <1>7, <1>8

\* Who reads a wrapped error finds there every option at fault (msgspec: one of them),
\* and no other than those, unless all of them or the part of a value that shares an
\* option's name.  Options with an alias may be missed (exceptions.py:23-27).
THEOREM CulpritCorrect == ArgumentsSpec => []ErrorNamesCulprit
<1>1. ArgumentsInit => ErrorNamesCulprit
  BY DEF ArgumentsInit, ErrorNamesCulprit, NoError
<1>2. ASSUME CallInv, CallInv', ErrorNamesCulprit, [ArgumentsNext]_vars
      PROVE  ErrorNamesCulprit'
  <2>1. CASE phase' # "refused"
    <3>1. error' = NoError
      BY <1>2, <2>1 DEF CallInv, NotRun
    <3>. QED  BY <3>1 DEF ErrorNamesCulprit, NoError
  <2>2. CASE RefuseArguments
    <3>1. /\ phase = "solved" /\ UNCHANGED <<sig, serializer, wrong>>
          /\ SignatureOK(sig) /\ serializer \in Classes
      BY <1>2, <2>2, ArgumentsAssumption DEF RefuseArguments, CallInv
    <3>2. PICK outcome \in SerializerCall(serializer, sig, kw, wrong) :
              /\ ~outcome.ok
              /\ error' = IF Wraps(serializer)
                          THEN Error("ValidationError",
                                     ErrorFields(ToSet(Names(sig)), outcome.locations),
                                     Culprits(sig, kw, wrong))
                          ELSE Error("library", {}, Culprits(sig, kw, wrong))
      BY <2>2 DEF RefuseArguments
    <3>3. serializer.lib \in {"pydantic", "msgspec"}
      BY <3>1, <3>2, SerializerReturns, ArgumentsAssumption DEF Serialized, NoSerializer
    <3>4. CASE Wraps(serializer)
      <4> DEFINE fields == ErrorFields(ToSet(Names(sig)), outcome.locations)
                 culprits == Culprits(sig, kw, wrong)
      <4>1. error' = [kind |-> "ValidationError", fields |-> fields, culprits |-> culprits]
        BY <3>2, <3>4 DEF Error
      <4>2. LET names == {p.name : p \in ToSet(sig)}
                at == {p.name : p \in culprits}
                plain == {p.name : p \in {q \in culprits : q.alias = q.name}}
                parts == {wrong[n] : n \in DOMAIN wrong}
            IN  /\ ToSet(Names(sig)) = names
                /\ fields # {} /\ fields \subseteq names
                /\ fields \subseteq at \cup parts \/ fields = names
                /\ IF serializer.lib = "pydantic" THEN plain \subseteq fields
                   ELSE plain = at => plain \cap fields # {}
        BY <3>1, <3>2, <3>3, AtFault
      <4> HIDE DEF fields, culprits
      <4>3. ToSet(Names(sig))' = ToSet(Names(sig))
        BY <3>1
      <4>. QED  BY <3>1, <4>1, <4>2, <4>3 DEF ErrorNamesCulprit
    <3>5. CASE ~Wraps(serializer)
      BY <3>2, <3>5 DEF Error, ErrorNamesCulprit
    <3>. QED  BY <3>4, <3>5
  <2>3. CASE Pass \/ Invoke
    <3>1. error' = error \/ error'.kind \in {"KeyError", "TypeError"}
      BY <2>3 DEF Pass, Invoke, Error
    <3>2. error = NoError
      BY <1>2, <2>3, NotRefused DEF Pass, Invoke
    <3>. QED  BY <3>1, <3>2 DEF ErrorNamesCulprit, NoError
  <2>4. CASE RefuseResponse
    <3>1. bound'.ok
      BY <1>2, <2>4 DEF RefuseResponse, CallInv
    <3>. QED  BY <3>1 DEF ErrorNamesCulprit
  <2>5. CASE UNCHANGED vars
    BY <1>2, <2>5 DEF vars, ErrorNamesCulprit
  <2>6. CASE Declare \/ Call \/ SolveInjected \/ CastArguments \/ Return
    BY <2>1, <2>6 DEF Declare, Call, SolveInjected, CastArguments, Return
  <2>. QED  BY <1>2, <2>2, <2>3, <2>4, <2>5, <2>6 DEF ArgumentsNext
<1>. QED  BY <1>1, <1>2, CallInvCorrect, PTL DEF ArgumentsSpec

-----------------------------------------------------------------------------
(* How Python binds arguments, and what it is given to bind *)

\* What PyBind() makes of the parameters l that are passed by position, and of the others
BindsWell(s, l, args, kwargs) ==
    LET b == PyBind(s, args, kwargs)
        Named(p) == p.kind \notin Stars /\ p.kind # "positional only" /\ p.name \in DOMAIN kwargs
        rest == SubSeq(args, Len(l) + 1, Len(args))
    IN  /\ l \in Seq(Parameter) /\ l = ByPos(s)
        /\ \A i \in 1 .. Len(l) : l[i] \in ToSet(s) /\ l[i].kind \in ByPosition
        /\ \A p \in ToSet(s) : p.kind \in ByPosition => \E i \in 1 .. Len(l) : l[i] = p
        /\ \A i, j \in 1 .. Len(l) : l[i] = l[j] => i = j
        /\ b.ok <=> /\ rest = <<>> \/ Has(s, "args")
                    /\ Has(s, "kwargs") \/ \A n \in DOMAIN kwargs :
                          \E p \in ToSet(s) : Named(p) /\ p.name = n
                    /\ \A i \in 1 .. Len(l) : i <= Len(args) => ~Named(l[i])
                    /\ \A p \in ToSet(s) : p.kind \notin Stars /\ p.required =>
                          Named(p) \/ \E i \in 1 .. Len(l) : i <= Len(args) /\ l[i] = p
        /\ DOMAIN b.named = {p.name : p \in {q \in ToSet(s) : q.kind \notin Stars}}
        /\ \A i \in 1 .. Len(l) : i <= Len(args) => b.named[l[i].name] = args[i]
        /\ \A p \in ToSet(s) :
              p.kind \notin Stars /\ ~(\E i \in 1 .. Len(l) : i <= Len(args) /\ l[i] = p) =>
                 b.named[p.name] = IF Named(p) THEN kwargs[p.name] ELSE Value("default")
        /\ b.rest = rest
        /\ \A n : n \in DOMAIN b.extra <=>
              n \in DOMAIN kwargs /\ ~\E p \in ToSet(s) : Named(p) /\ p.name = n

\* Parameters with names of their own are bound one by one.
LEMMA BindMeans ==
    ASSUME NEW s \in Seq(Parameter), \A i, j \in 1 .. Len(s) : s[i].name = s[j].name => i = j,
           NEW args, Len(args) \in Nat, NEW kwargs
    PROVE  BindsWell(s, ByPos(s), args, kwargs)
<1> DEFINE l == ByPos(s)
           b == PyBind(s, args, kwargs)
           params == {p \in ToSet(s) : p.kind \notin Stars}
           filled == {i \in DOMAIN l : i <= Len(args)}
           named == {p \in params : p.kind # "positional only" /\ p.name \in DOMAIN kwargs}
           Named(p) == p.kind \notin Stars /\ p.kind # "positional only" /\ p.name \in DOMAIN kwargs
           rest == SubSeq(args, Len(l) + 1, Len(args))
           extra == DOMAIN kwargs \ {p.name : p \in named}
           S == {p \in ToSet(s) : p.kind \in ByPosition}
<1>1. /\ \A p \in ToSet(s) : p \in Parameter /\ \E i \in 1 .. Len(s) : s[i] = p
      /\ \A i \in 1 .. Len(s) : s[i] \in ToSet(s)
  BY ElementOf DEF ToSet
<1>2. \A p, q \in ToSet(s) : p.name = q.name => p = q
  BY <1>1
<1>3. /\ l \in Seq(Parameter)
      /\ \A p : (\E i \in 1 .. Len(l) : l[i] = p) <=> p \in S /\ \E i \in 1 .. Len(s) : s[i] = p
      /\ \A i, j \in 1 .. Len(l) : l[i] = l[j] => i = j
  <2>1. \A i, j \in 1 .. Len(s) : s[i] = s[j] => i = j
    OBVIOUS
  <2>2. l = Picked(s, S)
    BY DEF ByPos
  <2> HIDE DEF S
  <2>3. Picked(s, S) \in Seq(Parameter)
    BY PickedElements
  <2>4. \A p : (\E i \in 1 .. Len(Picked(s, S)) : Picked(s, S)[i] = p)
                 <=> p \in S /\ \E i \in 1 .. Len(s) : s[i] = p
    BY PickedElements
  <2>5. \A i, j \in 1 .. Len(Picked(s, S)) : Picked(s, S)[i] = Picked(s, S)[j] => i = j
    BY <2>1, PickedElements
  <2>. QED  BY <2>2, <2>3, <2>4, <2>5
<1>4. /\ \A i \in 1 .. Len(l) : l[i] \in ToSet(s) /\ l[i].kind \in ByPosition
      /\ \A p \in ToSet(s) : p.kind \in ByPosition => \E i \in 1 .. Len(l) : l[i] = p
      /\ \A i, j \in 1 .. Len(l) : l[i].name = l[j].name => i = j
      /\ DOMAIN l = 1 .. Len(l)
  <2> HIDE DEF l
  <2>1. \A i \in 1 .. Len(l) : l[i] \in S
    BY <1>3
  <2>2. \A i \in 1 .. Len(l) : l[i] \in ToSet(s) /\ l[i].kind \in ByPosition
    BY <2>1
  <2>3. ASSUME NEW p \in ToSet(s), p.kind \in ByPosition PROVE \E i \in 1 .. Len(l) : l[i] = p
    <3>1. p \in S /\ \E i \in 1 .. Len(s) : s[i] = p
      BY <1>1, <2>3
    <3>. QED  BY <1>3, <3>1
  <2>4. \A i, j \in 1 .. Len(l) : l[i].name = l[j].name => i = j
    BY <1>2, <1>3, <2>2
  <2>. QED  BY <1>3, <2>2, <2>3, <2>4
<1>5. b = [ok |-> /\ rest = <<>> \/ Has(s, "args")
                  /\ extra = {} \/ Has(s, "kwargs")
                  /\ \A i \in filled : l[i] \notin named
                  /\ \A p \in params : p.required => p \in named \/ \E i \in filled : l[i] = p,
           named |-> [n \in {p.name : p \in params} |->
               IF \E i \in filled : l[i].name = n
               THEN args[CHOOSE i \in filled : l[i].name = n]
               ELSE IF \E p \in named : p.name = n THEN kwargs[n] ELSE Value("default")],
           rest |-> rest,
           extra |-> [n \in extra |-> kwargs[n]]]
  BY DEF PyBind
<1>6. \A p \in ToSet(s) : p \in named <=> Named(p)
  OBVIOUS
<1>7. \A i : i \in filled <=> i \in 1 .. Len(l) /\ i <= Len(args)
  BY <1>4
<1>8. \A n : n \in extra <=> n \in DOMAIN kwargs /\ ~\E p \in ToSet(s) : Named(p) /\ p.name = n
  BY <1>6
<1> HIDE DEF l, filled, rest, extra
<1>9. b.ok <=> /\ rest = <<>> \/ Has(s, "args")
               /\ Has(s, "kwargs") \/ \A n \in DOMAIN kwargs :
                     \E p \in ToSet(s) : Named(p) /\ p.name = n
               /\ \A i \in 1 .. Len(l) : i <= Len(args) => ~Named(l[i])
               /\ \A p \in ToSet(s) : p.kind \notin Stars /\ p.required =>
                     Named(p) \/ \E i \in 1 .. Len(l) : i <= Len(args) /\ l[i] = p
  <2>1. extra = {} <=> \A n \in DOMAIN kwargs : \E p \in ToSet(s) : Named(p) /\ p.name = n
    BY <1>8
  <2>2. (\A i \in filled : l[i] \notin named)
           <=> \A i \in 1 .. Len(l) : i <= Len(args) => ~Named(l[i])
    BY <1>4, <1>6, <1>7
  <2>3. (\A p \in params : p.required => p \in named \/ \E i \in filled : l[i] = p)
           <=> \A p \in ToSet(s) : p.kind \notin Stars /\ p.required =>
                     Named(p) \/ \E i \in 1 .. Len(l) : i <= Len(args) /\ l[i] = p
    BY <1>6, <1>7
  <2> HIDE DEF params, named, Named
  <2>4. b.ok <=> /\ rest = <<>> \/ Has(s, "args")
                 /\ extra = {} \/ Has(s, "kwargs")
                 /\ \A i \in filled : l[i] \notin named
                 /\ \A p \in params : p.required => p \in named \/ \E i \in filled : l[i] = p
    BY <1>5
  <2>. QED  BY <2>1, <2>2, <2>3, <2>4
<1>10. /\ DOMAIN b.named = {p.name : p \in params}
       /\ \A n \in {p.name : p \in params} :
             b.named[n] = IF \E i \in filled : l[i].name = n
                          THEN args[CHOOSE i \in filled : l[i].name = n]
                          ELSE IF \E p \in named : p.name = n THEN kwargs[n] ELSE Value("default")
       /\ b.rest = rest /\ DOMAIN b.extra = extra
  <2> HIDE DEF params, named, b
  <2>. QED  BY <1>5
<1>11. \A i \in 1 .. Len(l) : i <= Len(args) => b.named[l[i].name] = args[i]
  <2> SUFFICES ASSUME NEW i \in 1 .. Len(l), i <= Len(args)
               PROVE  b.named[l[i].name] = args[i]
    OBVIOUS
  <2>1. i \in filled /\ \A j \in filled : l[j].name = l[i].name => j = i
    BY <1>4, <1>7
  <2>2. (CHOOSE j \in filled : l[j].name = l[i].name) = i
    BY <2>1
  <2>3. l[i].name \in {p.name : p \in params}
    <3>1. l[i] \in params
      BY <1>4 DEF ByPosition, Stars
    <3>. QED  BY <3>1
  <2> HIDE DEF params, named, b
  <2>4. b.named[l[i].name] = args[CHOOSE j \in filled : l[j].name = l[i].name]
    BY <1>10, <2>1, <2>3
  <2>. QED  BY <2>2, <2>4
<1>12. \A p \in ToSet(s) :
          p.kind \notin Stars /\ ~(\E i \in 1 .. Len(l) : i <= Len(args) /\ l[i] = p) =>
             b.named[p.name] = IF Named(p) THEN kwargs[p.name] ELSE Value("default")
  <2> SUFFICES ASSUME NEW p \in ToSet(s), p.kind \notin Stars,
                      ~(\E i \in 1 .. Len(l) : i <= Len(args) /\ l[i] = p)
               PROVE  b.named[p.name] = IF Named(p) THEN kwargs[p.name] ELSE Value("default")
    OBVIOUS
  <2>1. ~\E i \in filled : l[i].name = p.name
    BY <1>2, <1>4, <1>7
  <2>2. p.name \in {q.name : q \in params}
    OBVIOUS
  <2>3. (\E q \in named : q.name = p.name) <=> Named(p)
    BY <1>2
  <2> HIDE DEF params, named, Named, b
  <2>. QED  BY <1>10, <2>1, <2>2, <2>3
<1>. QED  BY <1>3, <1>4, <1>8, <1>9, <1>10, <1>11, <1>12 DEF BindsWell, l, rest, extra

\* Every parameter but *args and **kwargs is in one of the two lists, with its name.
LEMMA InOneList ==
    ASSUME SignatureOK(sig), NEW p \in ToSet(sig)
    PROVE  /\ p.name \in ToSet(PA) <=> p \in PositionalParams(sig)
           /\ p.name \in ToSet(KA) <=> p \in KeywordParams(sig)
           /\ p.kind \notin Stars <=> p \in PositionalParams(sig) \cup KeywordParams(sig)
           /\ p \notin PositionalParams(sig) \/ p \notin KeywordParams(sig)
<1>1. ToSet(PA) = {q.name : q \in {r \in ToSet(sig) : r \in PositionalParams(sig)}}
  BY NamesOf DEF PA, positional_args
<1>2. ToSet(KA) = {q.name : q \in {r \in ToSet(sig) : r \in KeywordParams(sig)}}
  BY NamesOf DEF KA, keyword_args
<1>3. \A q \in ToSet(sig) : q.name = p.name => q = p
  BY Parameters
<1>4. p \in Parameter /\ (p.kind \in Stars => p.source = "caller")
  BY Parameters
<1>5. /\ p \in PositionalParams(sig) <=> p.source = "caller" /\ p.kind \in ByPosition
      /\ p \in KeywordParams(sig) <=> p.source # "caller" \/ p.kind = "keyword only"
  BY DEF PositionalParams, KeywordParams
<1>6. p.kind \in ByPosition \cup {"keyword only"} \cup Stars
  BY <1>4 DEF Parameter
<1>7. p.name \in ToSet(PA) <=> p \in PositionalParams(sig)
  BY <1>1, <1>3 DEF PositionalParams
<1>8. p.name \in ToSet(KA) <=> p \in KeywordParams(sig)
  BY <1>2, <1>3 DEF KeywordParams
<1>9. p.kind \notin Stars <=> p \in PositionalParams(sig) \cup KeywordParams(sig)
  BY <1>4, <1>5, <1>6 DEF ByPosition, Stars
<1>10. p \notin PositionalParams(sig) \/ p \notin KeywordParams(sig)
  BY <1>5 DEF ByPosition
<1>. QED  BY <1>7, <1>8, <1>9, <1>10

\* The lists have no other names.
LEMMA ListedNames ==
    ASSUME SignatureOK(sig)
    PROVE  /\ \A n \in ToSet(PA) : \E p \in PositionalParams(sig) : p.name = n
           /\ \A n \in ToSet(KA) : \E p \in KeywordParams(sig) : p.name = n
           /\ PositionalParams(sig) \cup KeywordParams(sig) \subseteq ToSet(sig)
           /\ ToSet(PA) \cap ToSet(KA) = {}
<1>1. ToSet(PA) = {q.name : q \in {r \in ToSet(sig) : r \in PositionalParams(sig)}}
  BY NamesOf DEF PA, positional_args
<1>2. ToSet(KA) = {q.name : q \in {r \in ToSet(sig) : r \in KeywordParams(sig)}}
  BY NamesOf DEF KA, keyword_args
<1>3. PositionalParams(sig) \cup KeywordParams(sig) \subseteq ToSet(sig)
  BY DEF PositionalParams, KeywordParams
<1>4. ToSet(PA) \cap ToSet(KA) = {}
  BY <1>1, <1>2, InOneList
<1>. QED  BY <1>1, <1>2, <1>3, <1>4

\* What is passed by keyword is in kw and not popped from it, or the value of **kwargs.
LEMMA KeywordsMean ==
    ASSUME SignatureOK(sig)
    PROVE  /\ \A n \in DOMAIN KeywordArgs :
                 \/ n \in DOMAIN kw /\ n \notin Popped /\ KeywordArgs[n] = kw[n]
                 \/ Boxed("kwargs") /\ n \in DOMAIN dict
           /\ \A n \in DOMAIN kw :
                 n \in ToSet(KA) \/ (n \in ToSet(PA) /\ ~Has(sig, "args")) => n \in DOMAIN KeywordArgs
           /\ ~Has(sig, "kwargs") => DOMAIN KeywordArgs \subseteq ToSet(KA) \cup ToSet(PA)
           /\ Boxed("kwargs") =>
                 /\ DOMAIN dict \subseteq DOMAIN KeywordArgs
                 /\ DOMAIN KeywordArgs \subseteq ToSet(KA) \cup ToSet(PA) \cup DOMAIN dict
           /\ Has(sig, "kwargs") /\ ~Boxed("kwargs") => DOMAIN KeywordArgs = DOMAIN kw \ Popped
<1> DEFINE listed == ToSet(KA) \cup IF Boxed("args") THEN {} ELSE ToSet(PA)
           keywords == (listed \cap DOMAIN kw) \ Popped
           others == IF Boxed("kwargs") THEN dict
                     ELSE Restrict(kw, DOMAIN kw \ (keywords \cup Popped))
<1>1. KeywordArgs = IF Has(sig, "kwargs") THEN Updated(Restrict(kw, keywords), others)
                    ELSE Restrict(kw, keywords)
  BY DEF KeywordArgs, PA, KA
<1>2. Popped \subseteq ToSet(PA) /\ ToSet(PA) \cap ToSet(KA) = {}
      /\ (~Has(sig, "args") => Popped = {} /\ ~Boxed("args"))
      /\ (Boxed("kwargs") => Has(sig, "kwargs"))
  BY ListedNames DEF Popped, Boxed, PA
<1> DEFINE R == Restrict(kw, keywords)
<1>3. DOMAIN R = keywords /\ \A n \in keywords : R[n] = kw[n]
  BY DEF Restrict
<1>4. ~Boxed("kwargs") => DOMAIN others = DOMAIN kw \ (keywords \cup Popped)
                          /\ \A n \in DOMAIN others : others[n] = kw[n]
  BY DEF Restrict
<1>5. Boxed("kwargs") => others = dict
  OBVIOUS
<1>6. keywords \subseteq DOMAIN kw /\ keywords \cap Popped = {}
      /\ keywords \subseteq ToSet(KA) \cup ToSet(PA)
      /\ \A n \in DOMAIN kw :
            n \in ToSet(KA) \/ (n \in ToSet(PA) /\ ~Has(sig, "args")) => n \in keywords
  BY <1>2
<1> HIDE DEF R, others, keywords
<1>7. CASE ~Has(sig, "kwargs")
  BY <1>1, <1>2, <1>3, <1>6, <1>7 DEF R
<1>8. CASE Has(sig, "kwargs")
  <2>1. DOMAIN KeywordArgs = DOMAIN R \cup DOMAIN others
        /\ \A n \in DOMAIN KeywordArgs :
              KeywordArgs[n] = IF n \in DOMAIN others THEN others[n] ELSE R[n]
    BY <1>1, <1>8 DEF Updated, R
  <2>2. CASE Boxed("kwargs")
    BY <1>3, <1>5, <1>6, <1>8, <2>1, <2>2
  <2>3. CASE ~Boxed("kwargs")
    BY <1>3, <1>4, <1>6, <1>8, <2>1, <2>3
  <2>. QED  BY <2>2, <2>3
<1>. QED  BY <1>7, <1>8

\* If it is not one of the divergences, **kwargs has no parameter's name.
LEMMA NoNameSwallowed ==
    ASSUME SignatureOK(sig), GivenOK, ~Swallowed, NEW p \in ToSet(sig), Boxed("kwargs")
    PROVE  p.name \notin DOMAIN Outcome.dict /\ DOMAIN CastDict = DOMAIN Outcome.dict
<1>1. DOMAIN Outcome.dict = DOMAIN given.kwargs \ ToSet(KA)
  BY OutcomeKeeps DEF Kept
<1>2. DOMAIN CastDict = DOMAIN Outcome.dict
  BY DEF CastDict
<1>3. ASSUME p.name \in DOMAIN given.kwargs
      PROVE  p.alias = p.name
  <2>1. p.name \in {q.alias : q \in {r \in ToSet(sig) : r.kind \notin Stars}}
    BY <1>3, Parameters DEF GivenOK, Keywords
  <2>. QED  BY <2>1, Parameters
<1>4. ASSUME p.name \in DOMAIN given.kwargs \ ToSet(KA)
      PROVE  FALSE
  BY <1>3, <1>4 DEF Swallowed, Shown, KA
<1>. QED  BY <1>1, <1>2, <1>4

\* What is passed by position: what was popped, and what was left.
LEMMA ArgsMean ==
    ASSUME SignatureOK(sig), GivenOK, IsPassed
    PROVE  /\ ~Has(sig, "args") => args_ = <<>> /\ Len(args_) = 0
           /\ Len(args_) \in Nat /\ Len(PA) \in Nat /\ Len(left) \in Nat
           /\ Has(sig, "args") =>
                 /\ Len(args_) = Len(PA) + Len(left)
                 /\ \A i \in 1 .. Len(PA) : args_[i] = kw[PA[i]]
                 /\ \A i \in 1 .. Len(left) : args_[Len(PA) + i] = left[i]
           /\ Len(left) = Len(Outcome.left)
           /\ \A i \in 1 .. Len(left) :
                 left[i].of = Outcome.left[i].of /\ (Serialized => left[i].as = "args")
<1>1. Outcome.left \in Seq(Vals) /\ PA \in Seq(Keys) /\ \A v \in Vals : IsValue(v)
  BY OutcomeKeeps, StartType
<1>2. /\ left = IF Serialized THEN [i \in DOMAIN Outcome.left |-> CastAs(Outcome.left[i], "args")]
                ELSE Outcome.left
      /\ args_ = IF Has(sig, "args") THEN [i \in DOMAIN PA |-> kw[PA[i]]] \o left ELSE <<>>
  BY DEF IsPassed, IsCast, CastLeft
<1>3. DOMAIN Outcome.left = 1 .. Len(Outcome.left) /\ Len(Outcome.left) \in Nat
      /\ \A i \in 1 .. Len(Outcome.left) : IsValue(Outcome.left[i])
  BY <1>1, ElementOf
<1>4. left \in Seq(ToSet(left)) /\ Len(left) = Len(Outcome.left)
      /\ \A i \in 1 .. Len(left) :
            left[i].of = Outcome.left[i].of /\ (Serialized => left[i].as = "args")
  <2>1. CASE Serialized
    <3> DEFINE l == [i \in 1 .. Len(Outcome.left) |-> CastAs(Outcome.left[i], "args")]
    <3>1. left = l
      BY <1>2, <1>3, <2>1
    <3>2. l \in Seq(ToSet(l)) /\ Len(l) = Len(Outcome.left)
      BY <1>3 DEF ToSet
    <3>3. \A i \in 1 .. Len(l) : l[i].of = Outcome.left[i].of /\ l[i].as = "args"
      BY <1>3, <3>2 DEF CastAs, IsValue
    <3>. QED  BY <3>1, <3>2, <3>3
  <2>2. CASE ~Serialized
    <3>1. left = Outcome.left
      BY <1>2, <2>2
    <3>2. left \in Seq(ToSet(left))
      BY <1>1, <3>1 DEF ToSet
    <3>. QED  BY <2>2, <3>1, <3>2
  <2>. QED  BY <2>1, <2>2
<1>5. CASE Has(sig, "args")
  <2> DEFINE f == [i \in 1 .. Len(PA) |-> kw[PA[i]]]
             W == {kw[PA[i]] : i \in 1 .. Len(PA)} \cup ToSet(left)
  <2>1. args_ = f \o left /\ Len(PA) \in Nat
    <3>1. DOMAIN PA = 1 .. Len(PA) /\ Len(PA) \in Nat
      BY <1>1
    <3>2. args_ = [i \in DOMAIN PA |-> kw[PA[i]]] \o left
      BY <1>2, <1>5
    <3>. QED  BY <3>1, <3>2
  <2>2. f \in Seq(W) /\ left \in Seq(W) /\ Len(f) = Len(PA)
        /\ \A i \in 1 .. Len(PA) : f[i] = kw[PA[i]]
    <3>1. ToSet(left) \subseteq W
      OBVIOUS
    <3>2. \A i \in 1 .. Len(PA) : kw[PA[i]] \in W
      OBVIOUS
    <3> HIDE DEF W
    <3>3. left \in Seq(W)
      BY <1>4, <3>1
    <3>4. f \in Seq(W) /\ Len(f) = Len(PA)
      BY <2>1, <3>2
    <3>. QED  BY <3>3, <3>4
  <2> HIDE DEF f, W
  <2>3. /\ Len(args_) = Len(PA) + Len(left)
        /\ \A i \in 1 .. Len(PA) : args_[i] = kw[PA[i]]
        /\ \A i \in 1 .. Len(left) : args_[Len(PA) + i] = left[i]
    <3>1. Len(f \o left) = Len(f) + Len(left)
          /\ \A i \in 1 .. Len(f) + Len(left) :
                (f \o left)[i] = IF i <= Len(f) THEN f[i] ELSE left[i - Len(f)]
      BY <2>2, ConcatProperties
    <3>2. Len(left) \in Nat
      BY <1>3, <1>4
    <3>3. \A i \in 1 .. Len(left) : /\ Len(PA) + i \in 1 .. Len(PA) + Len(left)
                                   /\ ~(Len(PA) + i <= Len(PA)) /\ (Len(PA) + i) - Len(PA) = i
      BY <2>1, <3>2
    <3>4. \A i \in 1 .. Len(PA) : i \in 1 .. Len(PA) + Len(left) /\ i <= Len(PA)
      BY <2>1, <3>2
    <3>. QED  BY <2>1, <2>2, <3>1, <3>3, <3>4
  <2>4. Len(left) \in Nat /\ Len(args_) \in Nat
    <3>1. Len(left) \in Nat
      BY <1>3, <1>4
    <3>. QED  BY <2>1, <2>3, <3>1
  <2>. QED  BY <1>4, <1>5, <2>1, <2>3, <2>4
<1>6. CASE ~Has(sig, "args")
  <2>1. args_ = <<>> /\ Len(<<>>) = 0 /\ Len(PA) \in Nat
    BY <1>1, <1>2, <1>6
  <2>2. Len(left) \in Nat
    BY <1>3, <1>4
  <2>. QED  BY <1>4, <1>6, <2>1, <2>2
<1>. QED  BY <1>5, <1>6

\* Once kw is solved: what the caller's parameters and the injected ones find there.
LEMMA SolvedMeans ==
    ASSUME SignatureOK(sig), GivenOK, found \subseteq custom_fields(sig)
    PROVE  /\ DOMAIN Solved = DOMAIN Outcome.kw \cup dependencies(sig) \cup found
           /\ \A n \in DOMAIN Solved : IsValue(Solved[n])
           /\ \A p \in ToSet(sig) : p.source = "depends" =>
                 p.name \in DOMAIN Solved /\ Solved[p.name].of \in {"injected", p.name}
           /\ \A p \in ToSet(sig) : p.source = "caller" =>
                 /\ Shown(p) \in DOMAIN Solved <=> Shown(p) \in DOMAIN Outcome.kw
                 /\ Shown(p) \in DOMAIN Solved => Solved[Shown(p)] = Outcome.kw[Shown(p)]
           /\ \A p \in ToSet(sig) : p.source \in Customs =>
                 (p.name \in found \cup DOMAIN given.kwargs => p.name \in DOMAIN Solved)
<1> DEFINE o == Outcome.kw
           put == (dependencies(sig) \ DOMAIN o) \cup found
<1>1. /\ o \in Dicts(Keys, Vals) /\ Kept \subseteq DOMAIN o
      /\ \A n \in Kept : o[n] = given.kwargs[n]
      /\ \A n \in DOMAIN o : n \in Kept \/ n \in (ToSet(KA) \cup ToSet(PA)) \ dependencies(sig)
  BY OutcomeKeeps
<1>2. \A n \in DOMAIN o : IsValue(o[n])
  BY <1>1, DictMeans, StartType
<1>3. Solved = Updated(o, [n \in put |-> Value("injected")])
  BY DEF Solved
<1> HIDE DEF o
<1>4. /\ DOMAIN Solved = DOMAIN o \cup put
      /\ \A n \in put : Solved[n] = Value("injected")
      /\ \A n \in DOMAIN o : n \notin put => Solved[n] = o[n]
  BY <1>3 DEF Updated
<1>5. \A n \in DOMAIN Solved : IsValue(Solved[n])
  BY <1>2, <1>4 DEF IsValue, Value
<1>6. ASSUME NEW p \in ToSet(sig), p.source = "depends"
      PROVE  p.name \in DOMAIN Solved /\ Solved[p.name].of \in {"injected", p.name}
  <2>1. p.name \in dependencies(sig)
    BY <1>6 DEF dependencies, Of
  <2>2. CASE p.name \in put
    BY <1>4, <2>2 DEF Value
  <2>3. CASE p.name \notin put
    <3>1. p.name \in DOMAIN o /\ Solved[p.name] = o[p.name]
      BY <1>4, <2>1, <2>3
    <3>2. p.name \in Kept /\ Kept \subseteq DOMAIN given.kwargs
      BY <1>1, <2>1, <3>1, StartType
    <3>3. o[p.name].of = p.name
      BY <1>1, <3>2 DEF GivenOK
    <3>. QED  BY <1>4, <3>1, <3>3
  <2>. QED  BY <2>2, <2>3
<1>7. ASSUME NEW p \in ToSet(sig), p.source = "caller"
      PROVE  Shown(p) \notin put
  <2>1. \A q \in ToSet(sig) : q.source # "caller" => q.name # Shown(p)
    BY <1>7, Parameters DEF Shown
  <2>2. \A n \in put : \E q \in ToSet(sig) : q.source # "caller" /\ q.name = n
    BY DEF dependencies, custom_fields, Of, Customs
  <2>. QED  BY <2>1, <2>2
<1>8. ASSUME NEW p \in ToSet(sig), p.source \in Customs, p.name \in found \cup DOMAIN given.kwargs
      PROVE  p.name \in DOMAIN Solved
  <2>1. p.name \in ToSet(KA)
    BY <1>8, InOneList DEF KeywordParams, Customs
  <2>2. p.name \in DOMAIN given.kwargs => p.name \in Kept
    BY <2>1 DEF Kept
  <2>. QED  BY <1>1, <1>4, <1>8, <2>2
<1>. QED  BY <1>4, <1>5, <1>6, <1>7, <1>8 DEF o

\* Once kw is cast: each parameter's argument is there by name, as that parameter.
LEMMA CastMeans ==
    ASSUME SignatureOK(sig), GivenOK, found \subseteq custom_fields(sig), IsCast
    PROVE  /\ \A p \in ToSet(sig) : p.kind \notin Stars =>
                 /\ p.name \in DOMAIN kw <=> Serialized \/ Shown(p) \in DOMAIN Solved
                 /\ p.name \in DOMAIN kw =>
                       /\ kw[p.name].of = IF Shown(p) \in DOMAIN Solved
                                          THEN Solved[Shown(p)].of ELSE "default"
                       /\ Serialized => kw[p.name].as = p.name
           /\ ~Serialized => DOMAIN kw = DOMAIN Solved
<1>1. \A n \in DOMAIN Solved : IsValue(Solved[n])
  BY SolvedMeans
<1>2. CASE Serialized
  <2> DEFINE plain == {p \in ToSet(sig) : p.kind \notin Stars}
             c == Casted(sig, Solved)
  <2>1. /\ DOMAIN c = {p.name : p \in plain}
        /\ \A n \in DOMAIN c : c[n] = CastOption(CHOOSE p \in plain : p.name = n, Solved)
    BY DEF Casted, Options
  <2>2. kw = Updated(Solved, c)
    BY <1>2 DEF IsCast, CastKw
  <2> HIDE DEF c
  <2>3. ASSUME NEW p \in ToSet(sig), p.kind \notin Stars
        PROVE  /\ p.name \in DOMAIN kw /\ kw[p.name].as = p.name
               /\ kw[p.name].of = IF Shown(p) \in DOMAIN Solved THEN Solved[Shown(p)].of
                                  ELSE "default"
    <3>1. (CHOOSE q \in plain : q.name = p.name) = p
      BY <2>3, Parameters
    <3>2. p.name \in DOMAIN c /\ c[p.name] = CastOption(p, Solved)
      BY <2>1, <2>3, <3>1
    <3>3. p.name \in DOMAIN kw /\ kw[p.name] = CastOption(p, Solved)
      BY <2>2, <3>2 DEF Updated
    <3>4. CASE p.alias \in DOMAIN Solved
      <4>1. CastOption(p, Solved) = [Solved[p.alias] EXCEPT !.as = p.name]
        BY <3>4 DEF CastOption, CastAs
      <4>2. IsValue(Solved[p.alias])
        BY <1>1, <3>4
      <4>3. CastOption(p, Solved).as = p.name /\ CastOption(p, Solved).of = Solved[p.alias].of
        BY <4>1, <4>2 DEF IsValue
      <4>. QED  BY <1>2, <3>3, <3>4, <4>3 DEF Shown
    <3>5. CASE p.alias \notin DOMAIN Solved
      <4>1. CastOption(p, Solved).as = p.name /\ CastOption(p, Solved).of = "default"
        BY <3>5 DEF CastOption, CastAs, Value
      <4>. QED  BY <1>2, <3>3, <3>5, <4>1 DEF Shown
    <3>. QED  BY <3>4, <3>5
  <2>. QED  BY <1>2, <2>3
<1>3. CASE ~Serialized
  <2>1. kw = Updated(Solved, Empty)
    BY <1>3 DEF IsCast, CastKw
  <2>2. DOMAIN kw = DOMAIN Solved /\ \A n \in DOMAIN kw : kw[n] = Solved[n]
    BY <2>1 DEF Updated, Empty
  <2>. QED  BY <1>3, <2>2 DEF Shown
<1>. QED  BY <1>2, <1>3

\* Unless one is injected among them, the arguments passed by position are where Python
\* puts them: those of positional_args first, then those of *args.
LEMMA InPlace ==
    ASSUME SignatureOK(sig), GivenOK, IsPassed, ~Shifted, Has(sig, "args")
    PROVE  LET l == ByPos(sig)
               q == Picked(sig, PositionalParams(sig))
           IN  /\ Len(PA) = Len(q) /\ Len(l) \in Nat
               /\ \A i \in 1 .. Len(PA) :
                     /\ i \in 1 .. Len(l) /\ i <= Len(args_)
                     /\ l[i] = q[i] /\ PA[i] = q[i].name /\ args_[i] = kw[PA[i]]
               /\ \A i \in 1 .. Len(l) : i <= Len(args_) => i <= Len(PA)
<1> DEFINE S == PositionalParams(sig)
           R == {p \in ToSet(sig) : p.kind \in ByPosition}
           l == ByPos(sig)
           q == Picked(sig, S)
           m == IF Len(args_) <= Len(l) THEN Len(args_) ELSE Len(l)
<1>1. Len(args_) \in Nat /\ Len(args_) = Len(PA) + Len(left) /\ Len(left) \in Nat /\ Len(PA) \in Nat
      /\ \A i \in 1 .. Len(PA) : args_[i] = kw[PA[i]]
  BY ArgsMean
<1>2. PA = Names(q)
  BY DEF PA, positional_args
<1>3. /\ Len(PA) = Len(q) /\ \A i \in 1 .. Len(q) : PA[i] = q[i].name
  BY <1>2, NamesOf
<1>4. sig \in Seq(Parameter) /\ S \subseteq R
  BY Parameters DEF PositionalParams
<1>5. l = Picked(sig, R)
  BY DEF ByPos
<1> HIDE DEF S, R
<1>6. l \in Seq(Parameter) /\ \A i \in 1 .. Len(l) : l[i] \in R
  <2>1. Picked(sig, R) \in Seq(Parameter)
    BY <1>4, PickedElements
  <2>2. \A p : (\E i \in 1 .. Len(Picked(sig, R)) : Picked(sig, R)[i] = p)
                 <=> p \in R /\ \E i \in 1 .. Len(sig) : sig[i] = p
    BY <1>4, PickedElements
  <2>. QED  BY <1>5, <2>1, <2>2
<1>7. Len(l) \in Nat /\ DOMAIN l = 1 .. Len(l)
  BY <1>6
<1>8. Len(q) <= Len(l)
      /\ \A k \in 0 .. Len(l) : (\A i \in 1 .. k : l[i] \in S)
                                   => k <= Len(q) /\ \A i \in 1 .. k : q[i] = l[i]
  BY <1>4, <1>5, PickedPrefix
<1> HIDE DEF l, q
<1>9. m \in 0 .. Len(l) /\ m <= Len(args_) /\ Len(PA) <= m
      /\ \A i \in 1 .. Len(l) : i <= Len(args_) => i <= m
  BY <1>1, <1>3, <1>7, <1>8
<1>10. \A i \in 1 .. m : l[i] \in S
  <2> SUFFICES ASSUME NEW i \in 1 .. m PROVE l[i] \in S
    OBVIOUS
  <2>1. i \in 1 .. Len(l) /\ i <= Len(args_)
    BY <1>1, <1>7, <1>9
  <2>2. l[i].source = "caller"
    BY <1>7, <2>1 DEF Shifted, l
  <2>. QED  BY <1>6, <2>1, <2>2 DEF S, R, PositionalParams
<1>11. m <= Len(q) /\ \A i \in 1 .. m : q[i] = l[i]
  BY <1>8, <1>9, <1>10
<1>12. m = Len(PA)
  BY <1>1, <1>3, <1>9, <1>11
<1> HIDE DEF m
<1>. QED  BY <1>1, <1>3, <1>7, <1>9, <1>11, <1>12 DEF l, q, S

\* Where the argument of a parameter is: in its position, or under its name.
AtPosition(p) ==
    /\ p.name \in DOMAIN kw /\ p.name \notin DOMAIN kwargs_
    /\ \E i \in 1 .. Len(ByPos(sig)) :
          i <= Len(args_) /\ ByPos(sig)[i] = p /\ args_[i] = kw[p.name]

ByName(p) ==
    /\ p.kind # "positional only"
    /\ ~\E i \in 1 .. Len(ByPos(sig)) : i <= Len(args_) /\ ByPos(sig)[i] = p
    /\ p.name \in DOMAIN kwargs_ <=> p.name \in DOMAIN kw
    /\ p.name \in DOMAIN kwargs_ => kwargs_[p.name] = kw[p.name]

\* It is in one of them, unless the call is one of the divergences.
LEMMA Placed ==
    ASSUME SignatureOK(sig), GivenOK, IsPassed, ~Swallowed, ~PositionalOnly, ~Shifted,
           NEW p \in ToSet(sig), p.kind \notin Stars
    PROVE  IF Has(sig, "args") /\ p \in PositionalParams(sig) THEN AtPosition(p) ELSE ByName(p)
<1> DEFINE l == ByPos(sig)
           q == Picked(sig, PositionalParams(sig))
<1>1. kwargs_ = KeywordArgs /\ Popped \subseteq DOMAIN kw /\ dict = CastDict
  BY DEF IsPassed, IsCast
<1>2. ~(Boxed("kwargs") /\ p.name \in DOMAIN dict)
  BY <1>1, NoNameSwallowed
<1>3. /\ p.name \in DOMAIN kwargs_ =>
            p.name \in DOMAIN kw /\ p.name \notin Popped /\ kwargs_[p.name] = kw[p.name]
      /\ \A n \in DOMAIN kw :
            n \in ToSet(KA) \/ (n \in ToSet(PA) /\ ~Has(sig, "args")) => n \in DOMAIN kwargs_
  BY <1>1, <1>2, KeywordsMean
<1>4. /\ p.name \in ToSet(PA) <=> p \in PositionalParams(sig)
      /\ p.name \in ToSet(KA) <=> p \in KeywordParams(sig)
      /\ p \in PositionalParams(sig) \cup KeywordParams(sig)
  BY InOneList
<1>5. CASE Has(sig, "args")
  <2>1. /\ Len(PA) = Len(q)
        /\ \A i \in 1 .. Len(PA) :
              /\ i \in 1 .. Len(l) /\ i <= Len(args_)
              /\ l[i] = q[i] /\ PA[i] = q[i].name /\ args_[i] = kw[PA[i]]
        /\ \A i \in 1 .. Len(l) : i <= Len(args_) => i <= Len(PA)
    BY <1>5, InPlace
  <2>2. /\ \A i \in 1 .. Len(q) : q[i] \in PositionalParams(sig)
        /\ p \in PositionalParams(sig) => \E i \in 1 .. Len(q) : q[i] = p
    <3> DEFINE S == PositionalParams(sig)
    <3> HIDE DEF S
    <3>1. \A i \in 1 .. Len(Picked(sig, S)) : Picked(sig, S)[i] \in S
      BY NamesOf
    <3>2. \A r \in ToSet(sig) :
              r \in S => \E i \in 1 .. Len(Picked(sig, S)) : Picked(sig, S)[i] = r
      BY NamesOf
    <3>. QED  BY <3>1, <3>2 DEF S
  <2> HIDE DEF l, q
  <2>3. CASE p \in PositionalParams(sig)
    <3>1. PICK i \in 1 .. Len(q) : q[i] = p
      BY <2>2, <2>3
    <3>2. i \in 1 .. Len(l) /\ i <= Len(args_) /\ l[i] = p /\ args_[i] = kw[p.name]
      BY <2>1, <3>1
    <3>3. p.name \in Popped
      BY <1>4, <1>5, <2>3 DEF Popped, PA
    <3>4. p.name \in DOMAIN kw /\ p.name \notin DOMAIN kwargs_
      BY <1>1, <1>3, <3>3
    <3>. QED  BY <1>5, <2>3, <3>2, <3>4 DEF AtPosition, l
  <2>4. CASE p \notin PositionalParams(sig)
    <3>1. ~\E i \in 1 .. Len(l) : i <= Len(args_) /\ l[i] = p
      <4> SUFFICES ASSUME NEW i \in 1 .. Len(l), i <= Len(args_), l[i] = p PROVE FALSE
        OBVIOUS
      <4>1. Len(l) \in Nat /\ Len(PA) \in Nat
        BY <1>5, InPlace, ArgsMean DEF l
      <4>2. i \in 1 .. Len(PA)
        BY <2>1, <4>1
      <4>. QED  BY <2>1, <2>2, <2>4, <4>2
    <3>2. p.kind # "positional only"
      BY <2>4 DEF PositionalOnly, PositionalParams, ByPosition
    <3>3. p.name \in DOMAIN kwargs_ <=> p.name \in DOMAIN kw
      <4>1. p.name \in ToSet(KA)
        BY <1>4, <2>4
      <4>. QED  BY <1>3, <4>1
    <3>4. ByName(p)
      BY <1>3, <3>1, <3>2, <3>3 DEF ByName, l
    <3>. QED  BY <2>4, <3>4
  <2>. QED  BY <2>3, <2>4
<1>6. CASE ~Has(sig, "args")
  <2>1. ~\E i \in 1 .. Len(l) : i <= Len(args_) /\ l[i] = p
    <3>1. Len(args_) = 0
      BY <1>6, ArgsMean
    <3>2. \A i \in 1 .. Len(l) : i >= 1
      OBVIOUS
    <3>. QED  BY <3>1, <3>2
  <2>2. p.kind # "positional only"
    BY <1>6 DEF PositionalOnly
  <2>. QED  BY <1>3, <1>4, <1>6, <2>1, <2>2 DEF ByName, l
<1>. QED  BY <1>5, <1>6

\* Either way it is what the callable has there, or the default if there is none.
LEMMA BoundIs ==
    ASSUME SignatureOK(sig), GivenOK, IsPassed, ~Swallowed, ~PositionalOnly, ~Shifted,
           NEW p \in ToSet(sig), p.kind \notin Stars
    PROVE  PyBind(sig, args_, kwargs_).named[p.name]
              = IF p.name \in DOMAIN kw THEN kw[p.name] ELSE Value("default")
<1>1. BindsWell(sig, ByPos(sig), args_, kwargs_)
  <2>1. sig \in Seq(Parameter) /\ \A i, j \in 1 .. Len(sig) : sig[i].name = sig[j].name => i = j
    BY Parameters
  <2>2. Len(args_) \in Nat
    BY ArgsMean
  <2>. QED  BY <2>1, <2>2, BindMeans
<1>2. CASE Has(sig, "args") /\ p \in PositionalParams(sig)
  <2>1. AtPosition(p)
    BY <1>2, Placed
  <2>. QED  BY <1>1, <2>1 DEF AtPosition, BindsWell
<1>3. CASE ~(Has(sig, "args") /\ p \in PositionalParams(sig))
  <2>1. ByName(p)
    BY <1>3, Placed
  <2>. QED  BY <1>1, <2>1 DEF ByName, BindsWell
<1>. QED  BY <1>2, <1>3

\* Then Python binds them all, unless there is none for a required one.
LEMMA BoundOK ==
    ASSUME SignatureOK(sig), GivenOK, found \subseteq custom_fields(sig), IsPassed,
           ~Swallowed, ~PositionalOnly, ~Shifted,
           \A p \in ToSet(sig) : p.kind \notin Stars /\ p.required => p.name \in DOMAIN kw
    PROVE  PyBind(sig, args_, kwargs_).ok
<1> DEFINE l == ByPos(sig)
           Named(p) == p.kind \notin Stars /\ p.kind # "positional only" /\ p.name \in DOMAIN kwargs_
<1>1. BindsWell(sig, l, args_, kwargs_)
  <2>1. sig \in Seq(Parameter) /\ \A i, j \in 1 .. Len(sig) : sig[i].name = sig[j].name => i = j
    BY Parameters
  <2>2. Len(args_) \in Nat
    BY ArgsMean
  <2>. QED  BY <2>1, <2>2, BindMeans
<1>2. SubSeq(args_, Len(l) + 1, Len(args_)) = <<>> \/ Has(sig, "args")
  <2>1. SUFFICES ASSUME ~Has(sig, "args") PROVE SubSeq(args_, Len(l) + 1, Len(args_)) = <<>>
    OBVIOUS
  <2>2. args_ = <<>> /\ Len(args_) = 0
    BY <2>1, ArgsMean
  <2>3. Len(l) \in Nat
    <3>1. l \in Seq(Parameter)
      BY <1>1 DEF BindsWell
    <3> HIDE DEF l
    <3>. QED  BY <3>1
  <2> HIDE DEF l
  <2>. QED  BY <2>2, <2>3
<1>3. Has(sig, "kwargs") \/ \A n \in DOMAIN kwargs_ : \E p \in ToSet(sig) : Named(p) /\ p.name = n
  <2>1. SUFFICES ASSUME ~Has(sig, "kwargs"), NEW n \in DOMAIN kwargs_
                 PROVE  \E p \in ToSet(sig) : Named(p) /\ p.name = n
    OBVIOUS
  <2>2. n \in ToSet(KA) \cup ToSet(PA)
    BY <2>1, KeywordsMean DEF IsPassed
  <2>3. PICK p \in ToSet(sig) : p.name = n /\ p \in PositionalParams(sig) \cup KeywordParams(sig)
    BY <2>2, ListedNames
  <2>4. p.kind \notin Stars
    BY <2>3, InOneList
  <2>5. ByName(p)
    BY <2>1, <2>3, <2>4, Placed DEF AtPosition
  <2>. QED  BY <2>3, <2>4, <2>5 DEF ByName
<1>4. \A i \in 1 .. Len(l) : i <= Len(args_) => ~Named(l[i])
  <2> SUFFICES ASSUME NEW i \in 1 .. Len(l), i <= Len(args_) PROVE ~Named(l[i])
    OBVIOUS
  <2>1. l[i] \in ToSet(sig) /\ l[i].kind \notin Stars
    BY <1>1 DEF BindsWell, ByPosition, Stars
  <2>2. ~ByName(l[i])
    BY DEF ByName
  <2>3. AtPosition(l[i])
    BY <2>1, <2>2, Placed
  <2>. QED  BY <2>3 DEF AtPosition
<1>5. \A p \in ToSet(sig) : p.kind \notin Stars /\ p.required =>
          Named(p) \/ \E i \in 1 .. Len(l) : i <= Len(args_) /\ l[i] = p
  <2> SUFFICES ASSUME NEW p \in ToSet(sig), p.kind \notin Stars, p.required
               PROVE  Named(p) \/ \E i \in 1 .. Len(l) : i <= Len(args_) /\ l[i] = p
    OBVIOUS
  <2>1. AtPosition(p) \/ ByName(p)
    BY Placed
  <2>. QED  BY <2>1 DEF AtPosition, ByName
<1> HIDE DEF l
<1>. QED  BY <1>1, <1>2, <1>3, <1>4, <1>5 DEF BindsWell

\* What is known of a call that has got this far
LEMMA Declared ==
    ASSUME CallInv, phase \in {"called", "refused"}
    PROVE  /\ SignatureOK(sig) /\ serializer \in Classes /\ GivenOK
           /\ found \subseteq custom_fields(sig)
BY ArgumentsAssumption DEF CallInv

\* What _solve() passes reaches the callable as Python binds it
LEMMA SigBindsWell ==
    ASSUME SignatureOK(sig), GivenOK, IsPassed
    PROVE  BindsWell(sig, ByPos(sig), args_, kwargs_)
<1>1. sig \in Seq(Parameter) /\ \A i, j \in 1 .. Len(sig) : sig[i].name = sig[j].name => i = j
  BY Parameters
<1>2. Len(args_) \in Nat
  BY ArgsMean
<1>. QED  BY <1>1, <1>2, BindMeans

\* No positional argument ever gets into the place of a dependency, not even in a call
\* that passes too many: it is the dependency's value, or the caller's by name.  Not so if
\* the dependency is positional only, and there are *args and **kwargs (model.py:154-172).
THEOREM DependsCorrect == ArgumentsSpec => []DependsNotPositional
<1>1. ASSUME CallInv PROVE DependsNotPositional
  <2> SUFFICES ASSUME phase = "called", NEW p \in ToSet(sig), p.source = "depends",
                      p.kind # "positional only"
               PROVE  bound.named[p.name].of \in {"injected", p.name}
    BY DEF DependsNotPositional
  <2>1. /\ SignatureOK(sig) /\ GivenOK /\ found \subseteq custom_fields(sig)
        /\ IsPassed /\ IsCast /\ bound = PyBind(sig, args_, kwargs_) /\ bound.ok
    BY <1>1, Declared DEF CallInv, IsPassed
  <2>2. p.kind \notin Stars /\ p.alias = p.name
    BY <2>1, Parameters
  <2>3. p.name \in DOMAIN Solved /\ Solved[p.name].of \in {"injected", p.name}
    BY <2>1, SolvedMeans
  <2>4. p.name \in DOMAIN kw /\ kw[p.name].of = Solved[p.name].of
    BY <2>1, <2>2, <2>3, CastMeans DEF Shown
  <2>5. p.name \in ToSet(KA)
    BY <2>1, InOneList DEF KeywordParams
  <2>6. p.name \in DOMAIN kwargs_ /\ kwargs_[p.name] = kw[p.name]
    <3>1. p.name \in DOMAIN KeywordArgs
      BY <2>1, <2>4, <2>5, KeywordsMean
    <3>2. ~(p.name \in DOMAIN dict)  \/ ~Boxed("kwargs")
      <4>1. dict = CastDict /\ DOMAIN CastDict = DOMAIN Outcome.dict
        BY <2>1 DEF IsCast, CastDict
      <4>2. DOMAIN Outcome.dict = DOMAIN given.kwargs \ Kept
        BY <2>1, OutcomeKeeps
      <4>. QED  BY <2>5, <4>1, <4>2 DEF Kept
    <3>3. kwargs_ = KeywordArgs
      BY <2>1 DEF IsPassed
    <3>. QED  BY <2>1, <3>1, <3>2, <3>3, KeywordsMean
  <2>7. BindsWell(sig, ByPos(sig), args_, kwargs_)
    BY <2>1, SigBindsWell
  <2>8. ~\E i \in 1 .. Len(ByPos(sig)) : i <= Len(args_) /\ ByPos(sig)[i] = p
    <3>1. PyBind(sig, args_, kwargs_).ok
      BY <2>1
    <3>2. \A i \in 1 .. Len(ByPos(sig)) : i <= Len(args_) =>
              ~(/\ ByPos(sig)[i].kind \notin Stars /\ ByPos(sig)[i].kind # "positional only"
                /\ ByPos(sig)[i].name \in DOMAIN kwargs_)
      BY <2>7, <3>1 DEF BindsWell
    <3>. QED  BY <2>2, <2>6, <3>2
  <2>9. bound.named[p.name] = kwargs_[p.name]
    BY <2>1, <2>2, <2>6, <2>7, <2>8 DEF BindsWell
  <2>. QED  BY <2>3, <2>4, <2>6, <2>9
<1>. QED  BY <1>1, CallInvCorrect, PTL

\* With a serializer the callable sees nothing that was not cast as the parameter it is
\* in, and a call that is not refused by it is not refused by Python after it either.
THEOREM CastCorrect == ArgumentsSpec => []CastBeforeCall
<1>1. ASSUME CallInv PROVE CastBeforeCall
  <2> SUFFICES ASSUME Serialized, ~Swallowed, ~PositionalOnly, ~Shifted
               PROVE  /\ phase = "called" => \A n \in DOMAIN bound.named : bound.named[n].as = n
                      /\ phase = "called" =>
                            \A i \in DOMAIN bound.rest : bound.rest[i].as = "args"
                      /\ error.kind \notin {"KeyError", "TypeError"}
    BY DEF CastBeforeCall
  <2>1. ASSUME phase = "called"
        PROVE  /\ SignatureOK(sig) /\ GivenOK /\ found \subseteq custom_fields(sig)
               /\ IsPassed /\ IsCast /\ bound = PyBind(sig, args_, kwargs_)
               /\ BindsWell(sig, ByPos(sig), args_, kwargs_)
    <3>1. /\ SignatureOK(sig) /\ GivenOK /\ found \subseteq custom_fields(sig)
          /\ IsPassed /\ IsCast /\ bound = PyBind(sig, args_, kwargs_)
      BY <1>1, <2>1, Declared DEF CallInv, IsPassed
    <3>. QED  BY <3>1, SigBindsWell
  <2>2. ASSUME phase = "called", NEW n \in DOMAIN bound.named
        PROVE  bound.named[n].as = n
    <3>1. PICK p \in ToSet(sig) : p.kind \notin Stars /\ p.name = n
      <4>1. bound = PyBind(sig, args_, kwargs_) /\ BindsWell(sig, ByPos(sig), args_, kwargs_)
        BY <2>1, <2>2
      <4>2. DOMAIN bound.named = {p.name : p \in {q \in ToSet(sig) : q.kind \notin Stars}}
        BY <4>1 DEF BindsWell
      <4>. QED  BY <2>2, <4>2
    <3>2. p.name \in DOMAIN kw /\ kw[p.name].as = p.name
      BY <2>1, <2>2, <3>1, CastMeans
    <3>3. bound.named[p.name] = kw[p.name]
      BY <2>1, <2>2, <3>1, <3>2, BoundIs
    <3>. QED  BY <3>1, <3>2, <3>3
  <2>3. ASSUME phase = "called", NEW i \in DOMAIN bound.rest
        PROVE  bound.rest[i].as = "args"
    <3> DEFINE k == Len(ByPos(sig))
    <3>1. bound.rest = SubSeq(args_, k + 1, Len(args_)) /\ k \in Nat
      <4>1. bound = PyBind(sig, args_, kwargs_) /\ BindsWell(sig, ByPos(sig), args_, kwargs_)
        BY <2>1, <2>3
      <4>2. ByPos(sig) \in Seq(Parameter) /\ bound.rest = SubSeq(args_, k + 1, Len(args_))
        BY <4>1 DEF BindsWell
      <4>. QED  BY <4>2
    <3>2. Len(args_) \in Nat /\ Len(PA) \in Nat /\ Len(left) \in Nat
      BY <2>1, <2>3, ArgsMean
    <3> HIDE DEF k
    <3>3. i \in 1 .. Len(args_) - k /\ bound.rest[i] = args_[k + i]
      BY <2>3, <3>1, <3>2
    <3>4. Has(sig, "args")
      <4>1. Len(args_) # 0
        BY <3>1, <3>2, <3>3
      <4>. QED  BY <2>1, <2>3, <4>1, ArgsMean
    <3>5. Len(PA) <= k
      <4>1. \A j \in 1 .. Len(PA) : j \in 1 .. k
        BY <2>1, <2>3, <3>4, InPlace DEF k
      <4>. QED  BY <3>1, <3>2, <4>1
    <3>6. Len(args_) = Len(PA) + Len(left)
          /\ \A j \in 1 .. Len(left) : args_[Len(PA) + j] = left[j] /\ left[j].as = "args"
      BY <2>1, <2>3, <3>4, ArgsMean
    <3>7. k + i - Len(PA) \in 1 .. Len(left) /\ Len(PA) + (k + i - Len(PA)) = k + i
      <4>1. Len(args_) = Len(PA) + Len(left) /\ i \in 1 .. Len(args_) - k
        BY <3>3, <3>6
      <4>. QED  BY <3>1, <3>2, <3>5, <4>1
    <3>. QED  BY <3>3, <3>6, <3>7
  <2>4. ASSUME error.kind \in {"KeyError", "TypeError"}
        PROVE  FALSE
    <3>1. phase = "refused"
      BY <1>1, <2>4, NotRefused DEF NoError
    <3>2. /\ SignatureOK(sig) /\ GivenOK /\ found \subseteq custom_fields(sig)
          /\ IsRefused
      BY <1>1, <3>1, Declared DEF CallInv
    <3>3. IsCast => \A p \in ToSet(sig) : p.kind \notin Stars => p.name \in DOMAIN kw
      BY <3>2, CastMeans
    <3>4. ~(IsCast /\ ~(Popped \subseteq DOMAIN kw))
      <4>1. \A n \in Popped : \E p \in ToSet(sig) : p.kind \notin Stars /\ p.name = n
        BY <3>2, ListedNames, InOneList DEF Popped, PA
      <4>. QED  BY <3>3, <4>1
    <3>5. IsPassed => PyBind(sig, args_, kwargs_).ok
      BY <3>2, <3>3, BoundOK DEF IsPassed
    <3>. QED  BY <2>4, <3>2, <3>4, <3>5 DEF IsRefused
  <2>. QED  BY <2>2, <2>3, <2>4
<1>. QED  BY <1>1, CallInvCorrect, PTL

-----------------------------------------------------------------------------
(* What the caller may expect *)

\* A parameter as the caller sees it
Seen(p) ==
    [p EXCEPT !.name = Shown(p),
              !.kind = IF p.source = "caller" THEN p.kind ELSE "keyword only",
              !.required = p.required /\ p.source = "caller"]

\* A parameter that gets a positional argument
Fills(p) == \E j \in 1 .. Len(PA) : j <= Len(given.args) /\ PA[j] = p.name

\* The visible signature is one of as many parameters, with names of their own.
LEMMA VisibleMeans ==
    ASSUME SignatureOK(sig)
    PROVE  /\ Visible \in Seq(Parameter) /\ Len(Visible) = Len(sig)
           /\ \A i \in 1 .. Len(sig) : Visible[i] = Seen(sig[i])
           /\ \A i, j \in 1 .. Len(sig) : Visible[i].name = Visible[j].name => i = j
           /\ \A v \in ToSet(Visible) : \E p \in ToSet(sig) : v = Seen(p)
           /\ \A p \in ToSet(sig) :
                 /\ Seen(p) \in ToSet(Visible)
                 /\ Seen(p).name = Shown(p)
                 /\ Seen(p).kind = IF p.source = "caller" THEN p.kind ELSE "keyword only"
                 /\ Seen(p).required = (p.required /\ p.source = "caller")
                 /\ Seen(p).kind \in Stars <=> p.kind \in Stars
<1>1. sig \in Seq(Parameter) /\ DOMAIN sig = 1 .. Len(sig) /\ Len(sig) \in Nat
  BY Parameters
<1>2. Visible = [i \in 1 .. Len(sig) |-> Seen(sig[i])]
  BY <1>1 DEF Visible, Seen
<1>3. \A p \in Parameter :
          /\ Seen(p) \in Parameter
          /\ Seen(p).name = Shown(p)
          /\ Seen(p).kind = IF p.source = "caller" THEN p.kind ELSE "keyword only"
          /\ Seen(p).required = (p.required /\ p.source = "caller")
  <2> SUFFICES ASSUME NEW p \in Parameter
               PROVE  /\ Seen(p) \in Parameter
                      /\ Seen(p).name = Shown(p)
                      /\ Seen(p).kind = IF p.source = "caller" THEN p.kind ELSE "keyword only"
                      /\ Seen(p).required = (p.required /\ p.source = "caller")
    OBVIOUS
  <2>1. Seen(p).name = Shown(p) /\ Seen(p).alias = p.alias /\ Seen(p).source = p.source
    BY DEF Parameter, Seen
  <2>2. Seen(p).kind = IF p.source = "caller" THEN p.kind ELSE "keyword only"
    BY DEF Parameter, Seen
  <2>3. Seen(p).required = (p.required /\ p.source = "caller")
    BY DEF Parameter, Seen
  <2>4. Shown(p) \in STRING
    BY DEF Parameter, Shown
  <2>5. Seen(p) \in Parameter
    BY <2>4 DEF Parameter, Seen
  <2>. QED  BY <2>1, <2>2, <2>3, <2>5
<1>4. \A i \in 1 .. Len(sig) : sig[i] \in Parameter
  BY <1>1, ElementOf
<1>5. Visible \in Seq(Parameter) /\ Len(Visible) = Len(sig) /\ DOMAIN Visible = 1 .. Len(sig)
      /\ \A i \in 1 .. Len(sig) : Visible[i] = Seen(sig[i])
  <2>1. \A i \in 1 .. Len(sig) : Seen(sig[i]) \in Parameter
    BY <1>3, <1>4
  <2>2. Visible \in [1 .. Len(sig) -> Parameter] /\ DOMAIN Visible = 1 .. Len(sig)
        /\ \A i \in 1 .. Len(sig) : Visible[i] = Seen(sig[i])
    BY <1>2, <2>1
  <2>3. Visible \in Seq(Parameter) /\ Len(Visible) = Len(sig)
    BY <1>1, <2>2
  <2>. QED  BY <2>2, <2>3
<1>6. \A p, q \in ToSet(sig) : Shown(p) = Shown(q) => p = q
  BY Parameters DEF Shown
<1>7. \A i, j \in 1 .. Len(sig) : Visible[i].name = Visible[j].name => i = j
  <2>1. \A i \in 1 .. Len(sig) : sig[i] \in ToSet(sig) /\ Visible[i].name = Shown(sig[i])
    BY <1>3, <1>4, <1>5, Parameters
  <2>2. \A i, j \in 1 .. Len(sig) : sig[i] = sig[j] => i = j
    BY Parameters
  <2>. QED  BY <1>6, <2>1, <2>2
<1>8. /\ \A v \in ToSet(Visible) : \E p \in ToSet(sig) : v = Seen(p)
      /\ \A p \in ToSet(sig) : Seen(p) \in ToSet(Visible)
  BY <1>1, <1>5, Parameters DEF ToSet
<1>9. \A p \in ToSet(sig) : p \in Parameter /\ (p.kind \in Stars => p.source = "caller")
  BY Parameters
<1>10. \A p \in ToSet(sig) : Seen(p).kind \in Stars <=> p.kind \in Stars
  BY <1>3, <1>9 DEF Stars
<1>. QED  BY <1>3, <1>5, <1>7, <1>8, <1>9, <1>10

\* The parameters it can pass by position are those of positional_args, in the same order.
LEMMA VisiblePositions ==
    ASSUME SignatureOK(sig)
    PROVE  /\ Len(ByPos(Visible)) = Len(PA) /\ Len(PA) \in Nat
           /\ \A j \in 1 .. Len(PA) :
                 \E p \in PositionalParams(sig) : ByPos(Visible)[j] = Seen(p) /\ PA[j] = p.name
           /\ \A p \in PositionalParams(sig) : \E j \in 1 .. Len(PA) : PA[j] = p.name
<1> DEFINE S == PositionalParams(sig)
           R == {v \in ToSet(Visible) : v.kind \in ByPosition}
           q == Picked(sig, S)
           r == Picked(Visible, R)
<1>1. PA = Names(q) /\ ByPos(Visible) = r
  BY DEF PA, positional_args, ByPos
<1>2. \A i \in 1 .. Len(sig) : sig[i] \in S <=> Visible[i] \in R
  <2> SUFFICES ASSUME NEW i \in 1 .. Len(sig) PROVE sig[i] \in S <=> Visible[i] \in R
    OBVIOUS
  <2>1. sig[i] \in ToSet(sig)
    BY Parameters
  <2>2. Visible[i] = Seen(sig[i]) /\ Seen(sig[i]) \in ToSet(Visible)
        /\ Seen(sig[i]).kind = IF sig[i].source = "caller" THEN sig[i].kind ELSE "keyword only"
    BY <2>1, VisibleMeans
  <2>. QED  BY <2>1, <2>2 DEF PositionalParams, ByPosition
<1>3. sig \in Seq(Parameter) /\ Visible \in Seq(Parameter) /\ Len(Visible) = Len(sig)
  BY Parameters, VisibleMeans
<1>4. S \subseteq ToSet(sig)
  BY DEF PositionalParams
<1> HIDE DEF S, R
<1>5. Len(r) = Len(q) /\ \A j \in 1 .. Len(q) :
          \E i \in 1 .. Len(sig) : q[j] = sig[i] /\ r[j] = Visible[i]
  <2>1. SamePlaces(sig, S, Visible, R)
    BY <1>2, <1>3 DEF SamePlaces
  <2>2. Alike(Picked(sig, S), Picked(Visible, R), sig, Visible)
    BY <1>3, <2>1, PickedAlike
  <2>. QED  BY <2>2 DEF Alike
<1>6. /\ Len(PA) = Len(q) /\ Len(q) \in Nat
      /\ \A j \in 1 .. Len(q) : q[j] \in S /\ PA[j] = q[j].name
  <2>1. q \in Seq(Parameter)
    BY NamesOf
  <2>2. Len(Names(q)) = Len(q) /\ \A j \in 1 .. Len(q) : q[j] \in S /\ Names(q)[j] = q[j].name
    BY NamesOf
  <2>. QED  BY <1>1, <2>1, <2>2
<1>7. \A p \in ToSet(sig) : p \in S => \E j \in 1 .. Len(q) : q[j] = p
  BY NamesOf
<1> HIDE DEF q, r
<1>8. ASSUME NEW j \in 1 .. Len(PA)
      PROVE  \E p \in S : ByPos(Visible)[j] = Seen(p) /\ PA[j] = p.name
  <2>1. PICK i \in 1 .. Len(sig) : q[j] = sig[i] /\ r[j] = Visible[i]
    BY <1>5, <1>6
  <2>2. Visible[i] = Seen(sig[i])
    BY VisibleMeans
  <2>. QED  BY <1>1, <1>6, <2>1, <2>2
<1>9. ASSUME NEW p \in S PROVE \E j \in 1 .. Len(PA) : PA[j] = p.name
  BY <1>4, <1>6, <1>7
<1>. QED  BY <1>1, <1>5, <1>6, <1>8, <1>9 DEF S

\* What Python would bind, by parameter, as far as the code does not do otherwise.
Expects ==
    /\ \A j \in 1 .. Len(PA) : j <= Len(given.args) =>
          PA[j] \notin DOMAIN given.kwargs /\ Expected.named[PA[j]] = given.args[j]
    /\ \A p \in ToSet(sig) : p.source = "caller" /\ p.kind \notin Stars =>
          /\ Fills(p) => Shown(p) = p.name
          /\ ~Fills(p) =>
                Expected.named[Shown(p)] =
                   IF Shown(p) \in DOMAIN given.kwargs THEN given.kwargs[Shown(p)]
                   ELSE Value("default")
          /\ p.required => Fills(p) \/ Shown(p) \in DOMAIN given.kwargs
    /\ Expected.rest = SubSeq(given.args, Len(PA) + 1, Len(given.args))
    /\ Expected.rest = <<>> \/ Has(sig, "args")
    /\ \A n : n \in DOMAIN Expected.extra <=>
          n \in DOMAIN given.kwargs /\ ~\E p \in ToSet(sig) : p.kind \notin Stars /\ Shown(p) = n

\* What a caller may expect, parameter by parameter
LEMMA ExpectedMeans ==
    ASSUME SignatureOK(sig), GivenOK, Expected.ok, ~Divergent
    PROVE  Expects
<1> DEFINE V == Visible
           l == ByPos(V)
           args == given.args
           kwargs == given.kwargs
           Named(p) == p.kind \notin Stars /\ Seen(p).kind # "positional only" /\ Shown(p) \in DOMAIN kwargs
           rest == SubSeq(args, Len(PA) + 1, Len(args))
<1>1. /\ \A v \in ToSet(V) : \E p \in ToSet(sig) : v = Seen(p)
      /\ \A p \in ToSet(sig) :
            /\ Seen(p) \in ToSet(V)
            /\ Seen(p).name = Shown(p)
            /\ Seen(p).kind = IF p.source = "caller" THEN p.kind ELSE "keyword only"
            /\ Seen(p).required = (p.required /\ p.source = "caller")
            /\ Seen(p).kind \in Stars <=> p.kind \in Stars
  BY VisibleMeans
<1>2. BindsWell(V, l, args, kwargs)
  <2>1. V \in Seq(Parameter) /\ \A i, j \in 1 .. Len(V) : V[i].name = V[j].name => i = j
    BY VisibleMeans
  <2>2. Len(args) \in Nat
    BY DEF GivenOK
  <2>. QED  BY <2>1, <2>2, BindMeans
<1>3. Expected = PyBind(V, args, kwargs)
  BY DEF Expected
<1>4. /\ Len(l) = Len(PA) /\ Len(PA) \in Nat
      /\ \A j \in 1 .. Len(PA) :
            \E p \in PositionalParams(sig) : l[j] = Seen(p) /\ PA[j] = p.name
      /\ \A p \in PositionalParams(sig) : \E j \in 1 .. Len(PA) : PA[j] = p.name
  BY VisiblePositions
<1>5. \A p, q \in ToSet(sig) :
          /\ p.name = q.name \/ p.alias = q.name \/ p.alias = q.alias => p = q
          /\ Shown(p) = Shown(q) => p = q
  BY Parameters DEF Shown
<1>6. PositionalParams(sig) \subseteq ToSet(sig)
  BY DEF PositionalParams
<1>7. \A p \in ToSet(sig) :
          Fills(p) <=> \E j \in 1 .. Len(l) : j <= Len(args) /\ l[j] = Seen(p)
  <2> SUFFICES ASSUME NEW p \in ToSet(sig)
               PROVE  Fills(p) <=> \E j \in 1 .. Len(l) : j <= Len(args) /\ l[j] = Seen(p)
    OBVIOUS
  <2> HIDE DEF l, V
  <2>1. ASSUME NEW j \in 1 .. Len(PA)
        PROVE  PA[j] = p.name <=> l[j] = Seen(p)
    <3>1. PICK q \in PositionalParams(sig) : l[j] = Seen(q) /\ PA[j] = q.name
      BY <1>4
    <3>2. q \in ToSet(sig) /\ Seen(q).name = Shown(q) /\ Seen(p).name = Shown(p)
      BY <1>1, <1>6
    <3>. QED  BY <1>5, <3>1, <3>2
  <2>. QED  BY <1>4, <2>1 DEF Fills
<1>8. \A star \in Stars : Has(V, star) <=> Has(sig, star)
  <2>1. \A star \in Stars : star # "keyword only"
    BY DEF Stars
  <2>2. \A p \in ToSet(sig) : p.kind \in Stars => p.source = "caller"
    BY Parameters
  <2> SUFFICES ASSUME NEW star \in Stars PROVE Has(V, star) <=> Has(sig, star)
    OBVIOUS
  <2>3. ASSUME NEW p \in ToSet(sig)
        PROVE  Seen(p).kind = star <=> p.kind = star
    <3>1. Seen(p).kind = IF p.source = "caller" THEN p.kind ELSE "keyword only"
      BY <1>1
    <3>2. star # "keyword only" /\ (p.kind = star => p.source = "caller")
      BY <2>1, <2>2
    <3>3. CASE p.source = "caller"
      BY <3>1, <3>3
    <3>4. CASE p.source # "caller"
      BY <3>1, <3>2, <3>4
    <3>. QED  BY <3>3, <3>4
  <2> HIDE DEF V
  <2>. QED  BY <1>1, <2>3 DEF Has
<1>9. /\ rest = <<>> \/ Has(sig, "args")
      /\ Has(sig, "kwargs") \/ \A n \in DOMAIN kwargs : \E p \in ToSet(sig) : Named(p) /\ Shown(p) = n
      /\ \A i \in 1 .. Len(l) : i <= Len(args) =>
            ~(/\ l[i].kind \notin Stars /\ l[i].kind # "positional only"
              /\ l[i].name \in DOMAIN kwargs)
      /\ \A p \in ToSet(sig) : p.kind \notin Stars /\ p.required /\ p.source = "caller" =>
            Named(p) \/ Fills(p)
  <2>1. PyBind(V, args, kwargs).ok
    BY <1>3
  <2>2. /\ SubSeq(args, Len(l) + 1, Len(args)) = <<>> \/ Has(V, "args")
        /\ Has(V, "kwargs") \/ \A n \in DOMAIN kwargs : \E v \in ToSet(V) :
              /\ v.kind \notin Stars /\ v.kind # "positional only" /\ v.name \in DOMAIN kwargs
              /\ v.name = n
        /\ \A i \in 1 .. Len(l) : i <= Len(args) =>
              ~(/\ l[i].kind \notin Stars /\ l[i].kind # "positional only"
                /\ l[i].name \in DOMAIN kwargs)
        /\ \A v \in ToSet(V) : v.kind \notin Stars /\ v.required =>
              \/ /\ v.kind \notin Stars /\ v.kind # "positional only" /\ v.name \in DOMAIN kwargs
              \/ \E i \in 1 .. Len(l) : i <= Len(args) /\ l[i] = v
    BY <1>2, <2>1 DEF BindsWell
  <2>3. "args" \in Stars /\ "kwargs" \in Stars
    BY DEF Stars
  <2> HIDE DEF V, l, args, kwargs
  <2>4. rest = <<>> \/ Has(sig, "args")
    BY <1>4, <1>8, <2>2, <2>3
  <2>5. Has(sig, "kwargs")
           \/ \A n \in DOMAIN kwargs : \E p \in ToSet(sig) : Named(p) /\ Shown(p) = n
    <3> SUFFICES ASSUME ~Has(sig, "kwargs"), NEW n \in DOMAIN kwargs
                 PROVE  \E p \in ToSet(sig) : Named(p) /\ Shown(p) = n
      OBVIOUS
    <3>1. PICK v \in ToSet(V) : /\ v.kind \notin Stars /\ v.kind # "positional only"
                                /\ v.name \in DOMAIN kwargs /\ v.name = n
      BY <1>8, <2>2, <2>3
    <3>2. PICK p \in ToSet(sig) : v = Seen(p)
      BY <1>1
    <3>3. p.kind \notin Stars /\ Seen(p).name = Shown(p)
      BY <1>1, <3>1, <3>2
    <3>. QED  BY <3>1, <3>2, <3>3
  <2>6. ASSUME NEW p \in ToSet(sig), p.kind \notin Stars, p.required, p.source = "caller"
        PROVE  Named(p) \/ Fills(p)
    <3>1. Seen(p) \in ToSet(V) /\ Seen(p).required /\ Seen(p).kind \notin Stars
          /\ Seen(p).name = Shown(p)
      BY <1>1, <2>6
    <3>. QED  BY <1>7, <2>2, <2>6, <3>1
  <2>. QED  BY <2>2, <2>4, <2>5, <2>6
<1>10. /\ \A i \in 1 .. Len(l) : i <= Len(args) => Expected.named[l[i].name] = args[i]
       /\ \A p \in ToSet(sig) : p.kind \notin Stars /\ ~Fills(p) =>
             Expected.named[Shown(p)] = IF Named(p) THEN kwargs[Shown(p)] ELSE Value("default")
       /\ Expected.rest = rest
       /\ \A n : n \in DOMAIN Expected.extra <=>
             n \in DOMAIN kwargs /\ ~\E p \in ToSet(sig) : Named(p) /\ Shown(p) = n
  <2>1. /\ \A i \in 1 .. Len(l) : i <= Len(args) => Expected.named[l[i].name] = args[i]
        /\ \A v \in ToSet(V) :
              v.kind \notin Stars /\ ~(\E i \in 1 .. Len(l) : i <= Len(args) /\ l[i] = v) =>
                 Expected.named[v.name] =
                    IF v.kind \notin Stars /\ v.kind # "positional only" /\ v.name \in DOMAIN kwargs
                    THEN kwargs[v.name] ELSE Value("default")
        /\ Expected.rest = SubSeq(args, Len(l) + 1, Len(args))
        /\ \A n : n \in DOMAIN Expected.extra <=>
              n \in DOMAIN kwargs /\ ~\E v \in ToSet(V) :
                 /\ v.kind \notin Stars /\ v.kind # "positional only" /\ v.name \in DOMAIN kwargs
                 /\ v.name = n
    BY <1>2, <1>3 DEF BindsWell
  <2> HIDE DEF V, l, args, kwargs
  <2>2. \A p \in ToSet(sig) : p.kind \notin Stars /\ ~Fills(p) =>
            Expected.named[Shown(p)] = IF Named(p) THEN kwargs[Shown(p)] ELSE Value("default")
    <3> SUFFICES ASSUME NEW p \in ToSet(sig), p.kind \notin Stars, ~Fills(p)
                 PROVE  Expected.named[Shown(p)] =
                           IF Named(p) THEN kwargs[Shown(p)] ELSE Value("default")
      OBVIOUS
    <3>1. Seen(p) \in ToSet(V) /\ Seen(p).kind \notin Stars /\ Seen(p).name = Shown(p)
          /\ ~(\E i \in 1 .. Len(l) : i <= Len(args) /\ l[i] = Seen(p))
      BY <1>1, <1>7
    <3>2. Expected.named[Seen(p).name] =
             IF Seen(p).kind \notin Stars /\ Seen(p).kind # "positional only"
                /\ Seen(p).name \in DOMAIN kwargs
             THEN kwargs[Seen(p).name] ELSE Value("default")
      BY <2>1, <3>1
    <3>. QED  BY <3>1, <3>2
  <2>3. \A n : n \in DOMAIN Expected.extra <=>
             n \in DOMAIN kwargs /\ ~\E p \in ToSet(sig) : Named(p) /\ Shown(p) = n
    <3> DEFINE Is(v, n) == /\ v.kind \notin Stars /\ v.kind # "positional only"
                           /\ v.name \in DOMAIN kwargs /\ v.name = n
    <3>1. \A n : \A p \in ToSet(sig) : Is(Seen(p), n) <=> Named(p) /\ Shown(p) = n
      BY <1>1
    <3>2. \A n : n \in DOMAIN Expected.extra <=>
              n \in DOMAIN kwargs /\ ~\E v \in ToSet(V) : Is(v, n)
      BY <2>1
    <3> HIDE DEF Is, Named
    <3>3. ASSUME NEW n
          PROVE  (\E v \in ToSet(V) : Is(v, n))
                    <=> \E p \in ToSet(sig) : Named(p) /\ Shown(p) = n
      <4>1. (\E v \in ToSet(V) : Is(v, n)) <=> \E p \in ToSet(sig) : Is(Seen(p), n)
        BY <1>1
      <4>. QED  BY <3>1, <4>1
    <3>. QED  BY <3>2, <3>3
  <2>. QED  BY <1>4, <2>1, <2>2, <2>3
<1>11. \A p \in ToSet(sig) :
           p.source = "caller" /\ p.kind = "positional only" => Shown(p) \notin DOMAIN kwargs
  <2> SUFFICES ASSUME NEW p \in ToSet(sig), p.source = "caller", p.kind = "positional only",
                      Shown(p) \in DOMAIN kwargs
               PROVE  FALSE
    OBVIOUS
  <2>1. Has(sig, "kwargs")
    <3> SUFFICES ASSUME ~Has(sig, "kwargs") PROVE FALSE
      OBVIOUS
    <3>1. PICK q \in ToSet(sig) : Named(q) /\ Shown(q) = Shown(p)
      BY <1>9
    <3>2. q = p
      BY <1>5, <3>1
    <3>3. Seen(p).kind = "positional only"
      BY <1>1
    <3>. QED  BY <3>1, <3>2, <3>3
  <2>2. CASE Serialized
    <3>1. Boxed("kwargs")
      <4>1. PICK q \in ToSet(sig) : q.kind = "kwargs" /\ q.alias = "kwargs"
        BY <2>1, Parameters DEF Has, Stars
      <4>. QED  BY <2>1, <2>2, <4>1 DEF Boxed, GetAliases, Options
    <3>2. Shown(p) \notin ToSet(KA)
      <4>1. \A q \in ToSet(sig) : q.name = Shown(p) => q = p
        BY <1>5, <2>2 DEF Shown
      <4>2. p \notin KeywordParams(sig)
        BY DEF KeywordParams
      <4>. QED  BY <4>1, <4>2, ListedNames
    <3>. QED  BY <3>1, <3>2 DEF Divergent, Swallowed, KA
  <2>3. CASE ~Serialized
    BY <2>3 DEF Shown, Divergent, PositionalOnly
  <2>. QED  BY <2>2, <2>3
<1>12. \A p \in ToSet(sig) : p.kind \notin Stars => (Named(p) <=> Shown(p) \in DOMAIN kwargs)
  BY <1>1, <1>11
<1>13. \A p \in ToSet(sig) : p.source = "caller" /\ Fills(p) => Shown(p) = p.name
  <2> SUFFICES ASSUME NEW p \in ToSet(sig), Fills(p) PROVE Shown(p) = p.name
    OBVIOUS
  <2>1. PICK j \in 1 .. Len(PA) : j <= Len(args) /\ PA[j] = p.name
    BY DEF Fills
  <2>2. j \in DOMAIN positional_args(sig)
    BY StartType DEF PA
  <2>. QED  BY <2>1, <2>2 DEF Divergent, AliasByPosition, PA, Shown
<1>14. ASSUME NEW j \in 1 .. Len(PA), j <= Len(args)
       PROVE  PA[j] \notin DOMAIN kwargs /\ Expected.named[PA[j]] = args[j]
  <2>1. PICK p \in PositionalParams(sig) : l[j] = Seen(p) /\ PA[j] = p.name
    BY <1>4
  <2>2. p \in ToSet(sig) /\ p.source = "caller" /\ p.kind \notin Stars
    BY <1>6 DEF PositionalParams, ByPosition, Stars
  <2>3. Shown(p) = PA[j]
    BY <1>13, <1>14, <2>1, <2>2 DEF Fills
  <2>4. l[j].name = PA[j] /\ l[j].kind = p.kind
    BY <1>1, <2>1, <2>2, <2>3
  <2>5. Expected.named[PA[j]] = args[j]
    BY <1>4, <1>10, <1>14, <2>4
  <2>6. PA[j] \notin DOMAIN kwargs
    BY <1>4, <1>9, <1>11, <1>14, <2>2, <2>3, <2>4
  <2>. QED  BY <2>5, <2>6
<1>15. \A n : n \in DOMAIN Expected.extra <=>
           n \in DOMAIN kwargs /\ ~\E p \in ToSet(sig) : p.kind \notin Stars /\ Shown(p) = n
  <2> HIDE DEF l, V, rest
  <2>1. ASSUME NEW n \in DOMAIN kwargs, NEW p \in ToSet(sig), Shown(p) = n
        PROVE  Named(p) <=> p.kind \notin Stars
    BY <1>12, <2>1
  <2> HIDE DEF Named, args, kwargs
  <2>2. \A n : n \in DOMAIN Expected.extra <=>
            n \in DOMAIN kwargs /\ ~\E p \in ToSet(sig) : Named(p) /\ Shown(p) = n
    BY <1>10
  <2>. QED  BY <2>1, <2>2
<1> HIDE DEF l, V, rest, Named
<1>. QED  BY <1>9, <1>10, <1>12, <1>13, <1>14, <1>15 DEF Expects, rest

\* Then the arguments are handed out as Python would, and LeftOver() finds nothing to do.
LEMMA OutcomeStraight ==
    ASSUME SignatureOK(sig), GivenOK, Expects, ~Divergent
    PROVE  /\ DOMAIN Outcome.kw =
                 Kept \cup {PA[j] : j \in {k \in 1 .. Len(PA) : k <= Len(given.args)}}
           /\ \A n \in Kept : Outcome.kw[n] = given.kwargs[n]
           /\ \A j \in 1 .. Len(PA) : j <= Len(given.args) => Outcome.kw[PA[j]] = given.args[j]
           /\ Outcome.left = Expected.rest
<1>1. /\ Start \in Takings(Keys, Vals) /\ Start.left = given.args
      /\ DOMAIN Start.kw = Kept /\ Kept \subseteq DOMAIN given.kwargs
      /\ PA \in Seq(Keys) /\ KA \in Seq(Keys)
  BY StartType
<1>2. \A i, j \in 1 .. Len(PA) : PA[i] = PA[j] => i = j
  <2> DEFINE S == PositionalParams(sig)
  <2>1. PA = Names(Picked(sig, S))
    BY DEF PA, positional_args
  <2> HIDE DEF S
  <2>2. Len(Names(Picked(sig, S))) = Len(Picked(sig, S))
    BY NamesOf
  <2>3. \A i, j \in 1 .. Len(Picked(sig, S)) :
            Names(Picked(sig, S))[i] = Names(Picked(sig, S))[j] => i = j
    BY NamesOf
  <2>. QED  BY <2>1, <2>2, <2>3
<1>3. \A i \in 1 .. Len(PA) : i <= Len(Start.left) => PA[i] \notin DOMAIN Start.kw
  BY <1>1 DEF Expects
<1>4. Straight(First, Start, PA, Len(PA))
  <2>1. Straight(FoldLeft(Take, Start, PA), Start, PA, Len(PA))
    BY <1>1, <1>2, <1>3, TakeStraight
  <2>. QED  BY <2>1 DEF First
<1>5. /\ DOMAIN First.kw = Kept \cup {PA[j] : j \in {k \in 1 .. Len(PA) : k <= Len(given.args)}}
      /\ \A j \in 1 .. Len(PA) : j <= Len(given.args) => First.kw[PA[j]] = given.args[j]
      /\ First.left = Expected.rest
  BY <1>1, <1>4 DEF Straight, Expects
<1>6. First \in Takings(Keys, Vals)
  <2>1. FoldLeft(Take, Start, PA) \in Takings(Keys, Vals)
    BY <1>1, TakeKeeps
  <2>. QED  BY <2>1 DEF First
<1>7. Boxed("args") \/ LeftOver(First) = First
  <2> SUFFICES ASSUME ~Boxed("args") PROVE LeftOver(First) = First
    OBVIOUS
  <2> DEFINE names == KA \o PA
             Over == Picked(names, ToSet(names) \ dependencies(sig))
  <2>1. Over \in Seq(Keys)
        /\ \A i \in 1 .. Len(Over) : Over[i] \in (ToSet(KA) \cup ToSet(PA)) \ dependencies(sig)
    BY OverType
  <2>2. LeftOver(First) = FoldLeft(Take, First, Over)
    BY DEF LeftOver, KA, PA
  <2> HIDE DEF Over
  <2>3. First.left = <<>> \/ \A i \in 1 .. Len(Over) : Over[i] \in DOMAIN First.kw
    <3> SUFFICES ASSUME First.left # <<>>, NEW i \in 1 .. Len(Over)
                 PROVE  Over[i] \in DOMAIN First.kw
      OBVIOUS
    <3>1. Has(sig, "args")
      BY <1>5 DEF Expects
    <3>2. ~Serialized
      <4>1. PICK p \in ToSet(sig) : p.kind = "args" /\ p.alias = "args"
        BY <3>1, Parameters DEF Has, Stars
      <4>. QED  BY <3>1, <4>1 DEF Boxed, GetAliases, Options
    <3>3. Len(given.args) > Len(PA) /\ Len(PA) \in Nat /\ Len(given.args) \in Nat
      <4>1. Len(PA) \in Nat /\ Len(given.args) \in Nat
        BY <1>1 DEF GivenOK
      <4>2. Len(given.args) <= Len(PA) =>
                SubSeq(given.args, Len(PA) + 1, Len(given.args)) = <<>>
        BY <4>1
      <4>. QED  BY <1>5, <4>1, <4>2 DEF Expects
    <3>4. ToSet(KA) \subseteq dependencies(sig) \cup DOMAIN given.kwargs
      BY <3>1, <3>2, <3>3 DEF Divergent, Misplaced, PA, KA
    <3>5. Kept = DOMAIN given.kwargs
      BY <3>2 DEF Kept, Boxed
    <3>6. \A n \in ToSet(PA) : n \in DOMAIN First.kw
      <4>1. \A j \in 1 .. Len(PA) : j <= Len(given.args)
        BY <3>3
      <4>2. ToSet(PA) = {PA[j] : j \in 1 .. Len(PA)}
        BY <1>1 DEF ToSet
      <4>. QED  BY <1>5, <4>1, <4>2
    <3>. QED  BY <1>5, <2>1, <3>4, <3>5, <3>6
  <2>4. FoldLeft(Take, First, Over) = First
    BY <1>6, <2>1, <2>3, TakeKeeps
  <2>. QED  BY <2>2, <2>4
<1>8. Outcome.kw = First.kw /\ Outcome.left = First.left
  BY <1>7 DEF Outcome, Handed
<1>9. \A n \in Kept : Outcome.kw[n] = given.kwargs[n]
  BY OutcomeKeeps
<1>. QED  BY <1>5, <1>8, <1>9

\* A parameter finds there what Python would bind to it.
LEMMA CallerGets ==
    ASSUME SignatureOK(sig), GivenOK, Expects, ~Divergent,
           NEW p \in ToSet(sig), p.source = "caller", p.kind \notin Stars
    PROVE  /\ Shown(p) \in DOMAIN Outcome.kw <=> Fills(p) \/ Shown(p) \in DOMAIN given.kwargs
           /\ Expected.named[Shown(p)] =
                 IF Shown(p) \in DOMAIN Outcome.kw THEN Outcome.kw[Shown(p)] ELSE Value("default")
<1>1. /\ DOMAIN Outcome.kw =
            Kept \cup {PA[j] : j \in {k \in 1 .. Len(PA) : k <= Len(given.args)}}
      /\ \A n \in Kept : Outcome.kw[n] = given.kwargs[n]
      /\ \A j \in 1 .. Len(PA) : j <= Len(given.args) => Outcome.kw[PA[j]] = given.args[j]
  BY OutcomeStraight
<1>2. Shown(p) \in Kept <=> Shown(p) \in DOMAIN given.kwargs
  BY DEF Kept, Divergent, Swallowed, KA
<1>3. CASE Fills(p)
  <2>1. PICK j \in 1 .. Len(PA) : j <= Len(given.args) /\ PA[j] = p.name
    BY <1>3 DEF Fills
  <2>2. Shown(p) = p.name
    BY <1>3 DEF Expects
  <2>3. Expected.named[PA[j]] = given.args[j]
    BY <2>1 DEF Expects
  <2>. QED  BY <1>1, <1>3, <2>1, <2>2, <2>3
<1>4. CASE ~Fills(p)
  <2>1. \A j \in 1 .. Len(PA) : j <= Len(given.args) => PA[j] # Shown(p)
    <3> SUFFICES ASSUME NEW j \in 1 .. Len(PA), j <= Len(given.args), PA[j] = Shown(p)
                 PROVE  FALSE
      OBVIOUS
    <3>1. PICK q \in PositionalParams(sig) : PA[j] = q.name
      BY VisiblePositions
    <3>2. q \in ToSet(sig)
      BY DEF PositionalParams
    <3>3. q = p
      BY <3>1, <3>2, Parameters DEF Shown
    <3>. QED  BY <1>4, <3>1, <3>3 DEF Fills
  <2>2. Expected.named[Shown(p)] =
            IF Shown(p) \in DOMAIN given.kwargs THEN given.kwargs[Shown(p)] ELSE Value("default")
    BY <1>4 DEF Expects
  <2>3. Shown(p) \in DOMAIN Outcome.kw <=> Shown(p) \in Kept
    BY <1>1, <2>1
  <2>. QED  BY <1>1, <1>2, <1>4, <2>2, <2>3
<1>. QED  BY <1>3, <1>4

\* The values of *args are those Python would leave over.
LEMMA SameRest ==
    ASSUME SignatureOK(sig), GivenOK, IsPassed, Expects, ~Divergent
    PROVE  LET rest == SubSeq(args_, Len(ByPos(sig)) + 1, Len(args_))
           IN  [i \in DOMAIN rest |-> rest[i].of]
                   = [i \in DOMAIN Expected.rest |-> Expected.rest[i].of]
<1> DEFINE k == Len(ByPos(sig))
           rest == SubSeq(args_, k + 1, Len(args_))
           e == Expected.rest
<1>1. /\ Len(args_) \in Nat /\ Len(PA) \in Nat /\ Len(left) \in Nat
      /\ ~Has(sig, "args") => Len(args_) = 0
      /\ Len(left) = Len(Outcome.left)
      /\ \A i \in 1 .. Len(left) : left[i].of = Outcome.left[i].of
  BY ArgsMean
<1>2. Outcome.left = e
  BY OutcomeStraight
<1>3. e \in Seq(Vals)
  BY <1>2, OutcomeKeeps
<1>4. k \in Nat
  <2>1. ByPos(sig) \in Seq(Parameter)
    BY SigBindsWell DEF BindsWell
  <2>. QED  BY <2>1
<1>5. DOMAIN e = 1 .. Len(e) /\ Len(e) = Len(left)
  BY <1>1, <1>2, <1>3
<1> HIDE DEF k, e
<1>6. DOMAIN rest = 1 .. Len(e) /\ \A i \in 1 .. Len(e) : rest[i].of = e[i].of
  <2>1. CASE ~Has(sig, "args")
    <3>1. e = <<>>
      BY <2>1 DEF Expects, e
    <3>2. DOMAIN rest = 1 .. 0
      BY <1>1, <1>4, <2>1
    <3>. QED  BY <3>1, <3>2
  <2>2. CASE Has(sig, "args")
    <3>1. /\ \A i \in 1 .. Len(PA) : i \in 1 .. k /\ i <= Len(args_)
          /\ \A i \in 1 .. k : i <= Len(args_) => i <= Len(PA)
      BY <2>2, InPlace DEF Divergent, k
    <3>2. Len(args_) = Len(PA) + Len(left)
          /\ \A i \in 1 .. Len(left) : args_[Len(PA) + i] = left[i]
      BY <2>2, ArgsMean
    <3>3. Len(PA) <= k
      BY <1>1, <1>4, <3>1
    <3>4. CASE Len(left) = 0
      <4>1. DOMAIN rest = 1 .. 0
        BY <1>1, <1>4, <3>2, <3>3, <3>4
      <4>. QED  BY <1>5, <3>4, <4>1
    <3>5. CASE Len(left) # 0
      <4>1. k = Len(PA)
        <5>1. SUFFICES ASSUME k > Len(PA) PROVE FALSE
          BY <1>1, <1>4, <3>3
        <5>2. Len(PA) + 1 \in 1 .. k /\ Len(PA) + 1 <= Len(args_)
          BY <1>1, <1>4, <3>2, <3>5, <5>1
        <5>. QED  BY <1>1, <3>1, <5>2
      <4>2. DOMAIN rest = 1 .. Len(left) /\ \A i \in 1 .. Len(left) : rest[i] = args_[k + i]
        BY <1>1, <1>4, <3>2, <4>1
      <4>. QED  BY <1>1, <1>2, <1>5, <3>2, <4>1, <4>2
    <3>. QED  BY <3>4, <3>5
  <2>. QED  BY <2>1, <2>2
<1> HIDE DEF rest
<1>7. [i \in DOMAIN rest |-> rest[i].of] = [i \in DOMAIN e |-> e[i].of]
  BY <1>5, <1>6
<1>. QED  BY <1>7 DEF rest, e, k

\* The keywords of **kwargs are those that name no parameter the caller sees.
LEMMA SameExtra ==
    ASSUME SignatureOK(sig), GivenOK, found \subseteq custom_fields(sig), IsPassed, Expects,
           ~Divergent, Has(sig, "kwargs")
    PROVE  DOMAIN PyBind(sig, args_, kwargs_).extra = DOMAIN Expected.extra
<1> DEFINE Named(p) == p.kind \notin Stars /\ p.kind # "positional only" /\ p.name \in DOMAIN kwargs_
           x == PyBind(sig, args_, kwargs_).extra
           IsName(n) == \E p \in ToSet(sig) : p.kind \notin Stars /\ p.name = n
<1>1. \A n : n \in DOMAIN x <=> n \in DOMAIN kwargs_ /\ ~\E p \in ToSet(sig) : Named(p) /\ p.name = n
  <2>1. BindsWell(sig, ByPos(sig), args_, kwargs_)
    BY SigBindsWell
  <2>. QED  BY <2>1 DEF BindsWell
<1>2. \A p \in ToSet(sig) : p.kind \notin Stars /\ p.name \in DOMAIN kwargs_ => Named(p)
  <2> SUFFICES ASSUME NEW p \in ToSet(sig), p.kind \notin Stars, p.name \in DOMAIN kwargs_
               PROVE  Named(p)
    OBVIOUS
  <2>1. AtPosition(p) \/ ByName(p)
    BY Placed DEF Divergent
  <2>. QED  BY <2>1 DEF AtPosition, ByName
<1> HIDE DEF x
<1>3. \A n : n \in DOMAIN x <=> n \in DOMAIN kwargs_ /\ ~IsName(n)
  BY <1>1, <1>2
<1>4. \A n : n \in DOMAIN Expected.extra <=>
          n \in DOMAIN given.kwargs /\ ~\E p \in ToSet(sig) : p.kind \notin Stars /\ Shown(p) = n
  BY DEF Expects
<1>5. kwargs_ = KeywordArgs /\ IsCast
  BY DEF IsPassed
<1>6. \A n \in ToSet(KA) \cup ToSet(PA) : IsName(n)
  <2> SUFFICES ASSUME NEW n \in ToSet(KA) \cup ToSet(PA) PROVE IsName(n)
    OBVIOUS
  <2>1. PICK p \in ToSet(sig) : p.name = n /\ p \in PositionalParams(sig) \cup KeywordParams(sig)
    BY ListedNames
  <2>2. p.kind \notin Stars
    BY <2>1, InOneList
  <2>. QED  BY <2>1, <2>2
<1>7. CASE Serialized
  <2>1. Boxed("kwargs")
    <3>1. PICK q \in ToSet(sig) : q.kind = "kwargs" /\ q.alias = "kwargs"
      BY Parameters DEF Has, Stars
    <3>. QED  BY <1>7, <3>1 DEF Boxed, GetAliases, Options
  <2>2. DOMAIN dict = DOMAIN given.kwargs \ ToSet(KA)
    <3>1. DOMAIN dict = DOMAIN Outcome.dict
      BY <1>5 DEF IsCast, CastDict
    <3>. QED  BY <2>1, <3>1, OutcomeKeeps DEF Kept
  <2>3. /\ DOMAIN dict \subseteq DOMAIN kwargs_
        /\ DOMAIN kwargs_ \subseteq ToSet(KA) \cup ToSet(PA) \cup DOMAIN dict
    BY <1>5, <2>1, KeywordsMean
  <2>4. \A n \in DOMAIN dict : ~IsName(n)
    BY <1>5, <2>1, NoNameSwallowed DEF IsCast, Divergent
  <2>5. \A n : n \in DOMAIN x <=> n \in DOMAIN given.kwargs \ ToSet(KA)
    BY <1>3, <1>6, <2>2, <2>3, <2>4
  <2>6. \A p \in ToSet(sig) : Shown(p) \in DOMAIN given.kwargs => Shown(p) \in ToSet(KA)
    BY <2>1 DEF Divergent, Swallowed, KA
  <2>7. ASSUME NEW n \in DOMAIN given.kwargs, n \in ToSet(KA)
        PROVE  \E p \in ToSet(sig) : p.kind \notin Stars /\ Shown(p) = n
    <3>1. n \in {q.alias : q \in {r \in ToSet(sig) : r.kind \notin Stars}} \cup Unknown
      BY <2>7 DEF GivenOK, Keywords
    <3>2. PICK p \in ToSet(sig) : p.kind \notin Stars /\ p.name = n
      BY <1>6, <2>7
    <3>3. n \notin Unknown
      BY <3>2, Parameters
    <3>. QED  BY <1>7, <3>1, <3>3 DEF Shown
  <2>8. \A n : n \in DOMAIN Expected.extra <=> n \in DOMAIN given.kwargs \ ToSet(KA)
    BY <1>4, <2>6, <2>7
  <2>. QED  BY <2>5, <2>8 DEF x
<1>8. CASE ~Serialized
  <2>1. ~Boxed("kwargs") /\ Kept = DOMAIN given.kwargs
    BY <1>8 DEF Boxed, Kept
  <2>2. DOMAIN kwargs_ = DOMAIN kw \ Popped
    BY <1>5, <2>1, KeywordsMean
  <2>3. DOMAIN kw = DOMAIN Outcome.kw \cup dependencies(sig) \cup found
    BY <1>5, <1>8, CastMeans, SolvedMeans
  <2>4. /\ Kept \subseteq DOMAIN Outcome.kw
        /\ \A n \in DOMAIN Outcome.kw : n \in Kept \/ n \in ToSet(KA) \cup ToSet(PA)
    BY OutcomeKeeps
  <2>5. \A n \in dependencies(sig) \cup found : IsName(n)
    <3>1. \A n \in dependencies(sig) \cup found :
              \E p \in ToSet(sig) : p.source # "caller" /\ p.name = n
      BY DEF dependencies, custom_fields, Of, Customs
    <3>2. \A p \in ToSet(sig) : p.source # "caller" => p.kind \notin Stars
      BY Parameters
    <3>. QED  BY <3>1, <3>2
  <2>6. \A n \in Popped : IsName(n)
    BY <1>6 DEF Popped, PA
  <2> HIDE DEF IsName
  <2>7. \A n : n \in DOMAIN x <=> n \in DOMAIN given.kwargs /\ ~IsName(n)
    BY <1>3, <1>6, <2>1, <2>2, <2>3, <2>4, <2>5, <2>6
  <2>8. \A n : n \in DOMAIN Expected.extra <=> n \in DOMAIN given.kwargs /\ ~IsName(n)
    BY <1>4, <1>8 DEF Shown, IsName
  <2>. QED  BY <2>7, <2>8 DEF x
<1>. QED  BY <1>7, <1>8

\* ... and the callable sees, in each parameter, in *args and in **kwargs, what Python
\* would have bound there (model.py:141-180).
THEOREM ArgumentsCorrect == ArgumentsSpec => []SameArguments
<1>1. ASSUME CallInv PROVE SameArguments
  <2> SUFFICES ASSUME phase = "called", Expected.ok, ~Divergent
               PROVE  /\ \A p \in ToSet(sig) :
                            Given(p) => bound.named[p.name].of = Expected.named[Shown(p)].of
                      /\ [i \in DOMAIN bound.rest |-> bound.rest[i].of]
                             = [i \in DOMAIN Expected.rest |-> Expected.rest[i].of]
                      /\ Has(sig, "kwargs") => DOMAIN bound.extra = DOMAIN Expected.extra
    BY DEF SameArguments
  <2>1. /\ SignatureOK(sig) /\ GivenOK /\ found \subseteq custom_fields(sig)
        /\ IsPassed /\ IsCast /\ bound = PyBind(sig, args_, kwargs_)
    BY <1>1, Declared DEF CallInv, IsPassed
  <2>2. Expects
    BY <2>1, ExpectedMeans
  <2>3. ASSUME NEW p \in ToSet(sig), Given(p)
        PROVE  bound.named[p.name].of = Expected.named[Shown(p)].of
    <3>1. p.source = "caller" /\ p.kind \notin Stars
      BY <2>3 DEF Given
    <3>2. bound.named[p.name] = IF p.name \in DOMAIN kw THEN kw[p.name] ELSE Value("default")
      BY <2>1, <3>1, BoundIs DEF Divergent
    <3>3. /\ p.name \in DOMAIN kw <=> Serialized \/ Shown(p) \in DOMAIN Solved
          /\ p.name \in DOMAIN kw =>
                kw[p.name].of = IF Shown(p) \in DOMAIN Solved THEN Solved[Shown(p)].of
                                ELSE "default"
      BY <2>1, <3>1, CastMeans
    <3>4. /\ Shown(p) \in DOMAIN Solved <=> Shown(p) \in DOMAIN Outcome.kw
          /\ Shown(p) \in DOMAIN Solved => Solved[Shown(p)] = Outcome.kw[Shown(p)]
      BY <2>1, <3>1, SolvedMeans
    <3>5. Expected.named[Shown(p)] =
              IF Shown(p) \in DOMAIN Outcome.kw THEN Outcome.kw[Shown(p)] ELSE Value("default")
      BY <2>1, <2>2, <3>1, CallerGets
    <3>6. Value("default").of = "default"
      BY DEF Value
    <3>. QED  BY <3>2, <3>3, <3>4, <3>5, <3>6
  <2>4. bound.rest = SubSeq(args_, Len(ByPos(sig)) + 1, Len(args_))
    BY <2>1, SigBindsWell DEF BindsWell
  <2>5. [i \in DOMAIN bound.rest |-> bound.rest[i].of]
            = [i \in DOMAIN Expected.rest |-> Expected.rest[i].of]
    BY <2>1, <2>2, <2>4, SameRest
  <2>6. Has(sig, "kwargs") => DOMAIN bound.extra = DOMAIN Expected.extra
    BY <2>1, <2>2, SameExtra
  <2>. QED  BY <2>3, <2>5, <2>6
<1>. QED  BY <1>1, CallInvCorrect, PTL

\* inject(func: Callable[P, T]) -> Callable[P, T]: a call that Python accepts, and whose
\* arguments fit, gets to the callable (model.py:131-180).
THEOREM AcceptedCorrect == ArgumentsSpec => []Accepted
<1>1. ASSUME CallInv PROVE Accepted
  <2> DEFINE needed == IF Serialized THEN {"custom"} ELSE Customs
  <2> SUFFICES ASSUME phase = "refused", ~bound.ok, Expected.ok, ~Divergent,
                      \A p \in ToSet(sig) : p.name \notin DOMAIN wrong,
                      Of(sig, needed) \subseteq found \cup DOMAIN given.kwargs
               PROVE  FALSE
    BY DEF Accepted
  <2>1. /\ SignatureOK(sig) /\ GivenOK /\ found \subseteq custom_fields(sig) /\ IsRefused
    BY <1>1, Declared DEF CallInv
  <2>2. Expects
    BY <2>1, ExpectedMeans
  <2>3. \A p \in ToSet(sig) : p.source = "caller" /\ p.kind \notin Stars /\ p.required =>
            Shown(p) \in DOMAIN Solved
    <3> SUFFICES ASSUME NEW p \in ToSet(sig), p.source = "caller", p.kind \notin Stars, p.required
                 PROVE  Shown(p) \in DOMAIN Solved
      OBVIOUS
    <3>1. Fills(p) \/ Shown(p) \in DOMAIN given.kwargs
      BY <2>2 DEF Expects
    <3>. QED  BY <2>1, <2>2, <3>1, CallerGets, SolvedMeans
  <2>4. \A p \in ToSet(sig) : p.source \in needed => p.name \in DOMAIN Solved
    <3>1. \A p \in ToSet(sig) : p.source \in needed => p.name \in found \cup DOMAIN given.kwargs
      BY DEF Of
    <3>2. needed \subseteq Customs
      BY DEF Customs
    <3>. QED  BY <2>1, <3>1, <3>2, SolvedMeans
  <2>5. \A p \in ToSet(sig) : p.source = "depends" => p.name \in DOMAIN Solved
    BY <2>1, SolvedMeans
  <2>6. \A p \in ToSet(sig) : p.source \in {"caller", "depends"} \cup Customs
    BY <2>1, Parameters DEF Parameter
  <2>7. ~(Serialized /\ IsSolved /\ Culprits(sig, kw, wrong) # {})
    <3> SUFFICES ASSUME Serialized, kw = Solved, NEW p \in Culprits(sig, kw, wrong) PROVE FALSE
      BY DEF IsSolved
    <3>1. p \in ToSet(sig) /\ Mandatory(p) /\ p.alias \notin DOMAIN Solved
      BY DEF Culprits, Missing, Unfit, Options
    <3>2. /\ p.kind \notin Stars
          /\ p.source = "depends" \/ (p.required /\ p.source # "optional custom")
      BY <3>1 DEF Mandatory
    <3>3. p.source # "caller" => p.alias = p.name
      BY <2>1, <3>1, Parameters
    <3>4. CASE p.source = "caller"
      BY <2>3, <3>1, <3>2, <3>4 DEF Shown
    <3>5. CASE p.source # "caller"
      <4>1. p.source \in {"depends", "custom"}
        BY <2>6, <3>1, <3>2, <3>5 DEF Customs
      <4>. QED  BY <2>4, <2>5, <3>1, <3>3, <3>5, <4>1
    <3>. QED  BY <3>4, <3>5
  <2>8. IsCast => \A p \in ToSet(sig) : p.kind \notin Stars /\ p.required => p.name \in DOMAIN kw
    <3> SUFFICES ASSUME IsCast, ~Serialized, NEW p \in ToSet(sig), p.kind \notin Stars, p.required
                 PROVE  p.name \in DOMAIN kw
      BY <2>1, CastMeans
    <3>1. Shown(p) = p.name
      BY DEF Shown
    <3>2. p.name \in DOMAIN Solved
      BY <2>3, <2>4, <2>5, <2>6, <3>1
    <3>. QED  BY <2>1, <3>1, <3>2, CastMeans
  <2>9. ~(IsCast /\ ~(Popped \subseteq DOMAIN kw))
    <3> SUFFICES ASSUME IsCast PROVE Popped \subseteq DOMAIN kw
      OBVIOUS
    <3>1. CASE Serialized
      <4>1. \A n \in Popped : \E p \in ToSet(sig) : p.kind \notin Stars /\ p.name = n
        BY <2>1, ListedNames, InOneList DEF Popped, PA
      <4>. QED  BY <2>1, <3>1, <4>1, CastMeans
    <3>2. CASE ~Serialized
      BY <3>2 DEF Popped, Divergent, Misplaced
    <3>. QED  BY <3>1, <3>2
  <2>10. IsPassed => PyBind(sig, args_, kwargs_).ok
    BY <2>1, <2>8, BoundOK DEF IsPassed, Divergent
  <2>. QED  BY <2>1, <2>7, <2>9, <2>10 DEF IsRefused
<1>. QED  BY <1>1, CallInvCorrect, PTL
-----------------------------------------------------------------------------
(* Functions on models: the value for a model comes of those for models of lower rank *)

\* What holds for a model if it does for all of lower rank holds for each.
LEMMA ByRank ==
    ASSUME NEW S, NEW N \in Nat, NEW rank \in [S -> 1 .. N], NEW T,
           \A m \in S : (\A n \in S : rank[n] < rank[m] => n \in T) => m \in T
    PROVE  \A m \in S : m \in T
<1> DEFINE U == {k \in 0 .. N : \A m \in S : rank[m] <= k => m \in T}
<1>1. 0 \in U
  <2>1. 0 \in 0 .. N /\ \A m \in S : ~(rank[m] <= 0)
    OBVIOUS
  <2>. QED  BY <2>1
<1>2. ASSUME NEW k \in 0 .. N - 1, k \in U PROVE k + 1 \in U
  <2>1. k + 1 \in 0 .. N
    OBVIOUS
  <2>2. ASSUME NEW m \in S, rank[m] <= k + 1 PROVE m \in T
    <3>1. \A n \in S : rank[n] < rank[m] => rank[n] <= k
      BY <2>2
    <3>. QED  BY <1>2, <3>1
  <2>. QED  BY <2>1, <2>2
<1> HIDE DEF U
<1>3. \A k \in 0 .. N : k \in U
  BY <1>1, <1>2, Induction
<1>4. N \in U
  BY <1>3
<1>. QED  BY <1>4 DEF U

\* step[m] makes the value for m of values for others: of those of lower rank only.
LooksBelow(S, rank, Val, step) ==
    \A m \in S, f, g \in [S -> Val] :
        (\A n \in S : rank[n] < rank[m] => f[n] = g[n]) => step[m][f] = step[m][g]

GoesByRank(S, N, rank, Val, step) ==
    /\ N \in Nat /\ rank \in [S -> 1 .. N]
    /\ Val # {} /\ step \in [S -> [[S -> Val] -> Val]]
    /\ LooksBelow(S, rank, Val, step)

\* f has such values.
HasValues(f, S, Val, step) == f \in [S -> Val] /\ \A m \in S : f[m] = step[m][f]

\* There is a function with such values.
LEMMA RankedExists ==
    ASSUME NEW S, NEW N, NEW rank, NEW Val, NEW step, GoesByRank(S, N, rank, Val, step)
    PROVE  \E f : HasValues(f, S, Val, step)
<1>. SUFFICES ASSUME N \in Nat, rank \in [S -> 1 .. N], NEW v \in Val,
                     step \in [S -> [[S -> Val] -> Val]], LooksBelow(S, rank, Val, step)
              PROVE  \E f \in [S -> Val] : \A m \in S : f[m] = step[m][f]
  BY DEF GoesByRank, HasValues
<1> DEFINE Up(f, k) == \A m \in S : rank[m] <= k => f[m] = step[m][f]
           T == {k \in 0 .. N : \E f \in [S -> Val] : Up(f, k)}
<1>1. 0 \in T
  <2> DEFINE f == [m \in S |-> v]
  <2>1. f \in [S -> Val]
    OBVIOUS
  <2>2. 0 \in 0 .. N /\ \A m \in S : ~(rank[m] <= 0)
    OBVIOUS
  <2> HIDE DEF f
  <2>. QED  BY <2>1, <2>2
<1>2. ASSUME NEW k \in 0 .. N - 1, k \in T PROVE k + 1 \in T
  <2>1. PICK f \in [S -> Val] : Up(f, k)
    BY <1>2
  <2> DEFINE g == [m \in S |-> IF rank[m] = k + 1 THEN step[m][f] ELSE f[m]]
  <2>2. g \in [S -> Val]
    OBVIOUS
  <2>3. \A m \in S : g[m] = IF rank[m] = k + 1 THEN step[m][f] ELSE f[m]
    OBVIOUS
  <2> HIDE DEF g
  <2>4. ASSUME NEW m \in S, rank[m] <= k + 1 PROVE g[m] = step[m][g]
    <3>1. \A n \in S : rank[n] < rank[m] => f[n] = g[n]
      <4>1. \A n \in S : rank[n] < rank[m] => rank[n] # k + 1
        BY <2>4
      <4>. QED  BY <2>3, <4>1
    <3>2. step[m][f] = step[m][g]
      BY <2>2, <3>1 DEF LooksBelow
    <3>3. CASE rank[m] = k + 1
      BY <2>3, <3>2, <3>3
    <3>4. CASE rank[m] # k + 1
      <4>1. rank[m] <= k
        <5>1. \A a, b \in Int : a <= b + 1 /\ a # b + 1 => a <= b
          OBVIOUS
        <5>2. rank[m] \in Int /\ k \in Int
          OBVIOUS
        <5>. QED  BY ONLY <2>4, <3>4, <5>1, <5>2
      <4>2. f[m] = step[m][f]
        BY <2>1, <4>1
      <4>. QED  BY <2>3, <3>2, <3>4, <4>2
    <3>. QED  BY <3>3, <3>4
  <2>5. k + 1 \in 0 .. N
    OBVIOUS
  <2>. QED  BY <2>2, <2>4, <2>5
<1> HIDE DEF T
<1>3. \A k \in 0 .. N : k \in T
  BY <1>1, <1>2, Induction
<1>4. N \in T
  BY <1>3
<1>5. \A m \in S : rank[m] <= N
  OBVIOUS
<1>. QED  BY <1>4, <1>5 DEF T

-----------------------------------------------------------------------------
(* Programs *)

\* The state there is once a function is injected
Injected == program \in Programs /\ overrides \in Overrides

Ranked(rank) ==
    \A m \in Models : \A key \in KeysOf(program[m]) :
        GetDependant(key) \in Models /\ rank[GetDependant(key)] < rank[m]

\* What a model has is what it is to have.
LEMMA ModelHas ==
    ASSUME Injected, NEW m \in Models
    PROVE  /\ program[m].params \in Seq(STRING) /\ IsInjective(program[m].params)
           /\ program[m].dependencies \in Seq(Argument)
           /\ program[m].extras \in Seq(Models)
           /\ \A i \in DOMAIN program[m].dependencies :
                 /\ program[m].dependencies[i].arg \in STRING
                 /\ program[m].dependencies[i].key \in Models
           /\ \A i, j \in DOMAIN program[m].dependencies :
                 i # j => program[m].dependencies[i].arg # program[m].dependencies[j].arg
<1>1. ModelOK(program[m])
  BY FlattenAssumption DEF Injected
<1>2. program[m].dependencies \in Seq(Argument)
  BY <1>1 DEF ModelOK, CallModel
<1>3. \A i \in DOMAIN program[m].dependencies : program[m].dependencies[i] \in Argument
  BY <1>2
<1>. QED  BY <1>1, <1>2, <1>3 DEF ModelOK, CallModel, Argument

\* Every model has a rank, above those of what it has injected.
LEMMA RankExists ==
    ASSUME Injected
    PROVE  \E N \in Nat : \E rank \in [Models -> 1 .. N] : Ranked(rank)
<1>1. Cardinality(Models) \in Nat
  BY FlattenAssumption, FS_CardinalityType
<1>2. PICK rank \in [Models -> 1 .. Cardinality(Models)] :
          \A m \in Models : \A key \in KeysOf(program[m]) :
              rank[Served(overrides, key)] < rank[m]
  BY FlattenAssumption DEF Injected, NoCycleIn
<1>3. ASSUME NEW m \in Models, NEW key \in KeysOf(program[m]) PROVE key \in Models
  <2>1. \A i \in DOMAIN program[m].extras : program[m].extras[i] \in Models
    BY ModelHas
  <2>. QED  BY <2>1, ModelHas DEF KeysOf, ToSet
<1>4. \A key \in Models : GetDependant(key) \in Models
  BY FlattenAssumption DEF Injected, GetDependant, Served
<1>. QED  BY <1>1, <1>2, <1>3, <1>4 DEF Ranked, GetDependant

-----------------------------------------------------------------------------
(* Lists of names *)

\* What a list is with an element more
LEMMA AppendMeans ==
    ASSUME NEW S, NEW s \in Seq(S), NEW e \in S
    PROVE  /\ Append(s, e) \in Seq(S) /\ ToSet(Append(s, e)) = ToSet(s) \cup {e}
           /\ IsInjective(s) /\ e \notin ToSet(s) => IsInjective(Append(s, e))
<1> DEFINE t == Append(s, e)
           N == Len(s)
<1>1. /\ t \in Seq(S) /\ DOMAIN t = 1 .. N + 1 /\ DOMAIN s = 1 .. N /\ N \in Nat
      /\ \A i \in 1 .. N : t[i] = s[i]
      /\ t[N + 1] = e
  OBVIOUS
<1>2. \A i \in 1 .. N + 1 : i = N + 1 \/ i \in 1 .. N
  BY <1>1
<1>3. N + 1 \in 1 .. N + 1 /\ \A i \in 1 .. N : i \in 1 .. N + 1
  BY <1>1
<1> HIDE DEF t, N
<1>4. ToSet(t) = ToSet(s) \cup {e}
  BY <1>1, <1>2, <1>3 DEF ToSet
<1>5. ASSUME IsInjective(s), e \notin ToSet(s) PROVE IsInjective(t)
  <2>1. \A i \in 1 .. N : t[i] # e
    BY <1>1, <1>5 DEF ToSet
  <2>2. \A i, j \in 1 .. N : t[i] = t[j] => i = j
    BY <1>1, <1>5 DEF IsInjective
  <2>3. \A i, j \in 1 .. N + 1 : t[i] = t[j] => i = j
    BY <1>1, <1>2, <2>1, <2>2
  <2>. QED  BY <1>1, <2>3 DEF IsInjective
<1>6. t \in Seq(S)
  BY <1>1
<1>. QED  BY <1>4, <1>5, <1>6 DEF t

\* What params has become after the first k of more
Merging(f, params, more) ==
    f[0] = params /\ \A k \in 1 .. Len(more) :
        f[k] = IF more[k] \in ToSet(f[k - 1]) THEN f[k - 1] ELSE Append(f[k - 1], more[k])

\* flat_params takes in the parameters of a dependency one by one.
LEMMA MergingSteps ==
    ASSUME NEW S, NEW params \in Seq(S), NEW more \in Seq(S)
    PROVE  \E f \in [0 .. Len(more) -> Seq(S)] :
              Merging(f, params, more) /\ AppendNew(params, more) = f[Len(more)]
<1> DEFINE N == Len(more)
           Acc == Seq(S)
           With(a, p) == IF p \in ToSet(a) THEN a ELSE Append(a, p)
           step == [k \in 1 .. N |-> [a \in Acc |-> With(a, more[k])]]
           Body(h) == [t \in SUBSET (1 .. N) |->
                          IF t = {} THEN params
                          ELSE IF more[Max(t)] \in ToSet(h[t \ {Max(t)}]) THEN h[t \ {Max(t)}]
                               ELSE Append(h[t \ {Max(t)}], more[Max(t)])]
           g == CHOOSE h : h = Body(h)
<1>1. AppendNew(params, more) = g[1 .. N]
  BY DOMAIN more = 1 .. N DEF AppendNew, FoldLeft, MapThenFoldSet
<1>2. \A k \in 1 .. N : more[k] \in S
  BY ElementOf
<1>3. N \in Nat /\ params \in Acc /\ \A k \in 1 .. N, a \in Acc : With(a, more[k]) \in Acc
  <2>1. N \in Nat /\ params \in Acc
    OBVIOUS
  <2>2. \A a \in Seq(S), p \in S : Append(a, p) \in Seq(S)
    OBVIOUS
  <2>. QED  BY <1>2, <2>1, <2>2
<1> HIDE DEF N, Acc
<1>4. step \in [1 .. N -> [Acc -> Acc]]
  BY <1>3
<1>5. \A k \in 1 .. N, a \in Acc : step[k][a] = With(a, more[k])
  OBVIOUS
<1> HIDE DEF step
<1>6. \A t \in SUBSET (1 .. N) : t # {} => Max(t) \in 1 .. N /\ t \ {Max(t)} \in SUBSET (1 .. N)
  BY <1>3, MaxIn
<1>7. PICK h \in [SUBSET (1 .. N) -> Acc] : Folds(h, N, params, step)
  BY <1>3, <1>4, FoldExists
<1>8. h = Body(h)
  <2>1. ASSUME NEW t \in SUBSET (1 .. N) PROVE h[t] = Body(h)[t]
    <3>1. CASE t = {}
      BY <1>7, <3>1 DEF Folds
    <3>2. CASE t # {}
      <4>1. Max(t) \in 1 .. N /\ t \ {Max(t)} \in SUBSET (1 .. N)
        BY <1>6, <3>2
      <4>2. h[t] = step[Max(t)][h[t \ {Max(t)}]] /\ h[t \ {Max(t)}] \in Acc
        BY <1>7, <3>2, <4>1 DEF Folds
      <4>3. h[t] = With(h[t \ {Max(t)}], more[Max(t)])
        BY <1>5, <4>1, <4>2
      <4>. QED  BY <3>2, <4>3
    <3>. QED  BY <3>1, <3>2
  <2>. QED  BY <1>7, <2>1
<1>9. g = Body(g)
  BY <1>8
<1> HIDE DEF g
<1>10. Goes(g, N, Acc, params, step)
  <2>1. g[{}] = params
    BY <1>9
  <2>2. ASSUME NEW t \in SUBSET (1 .. N), t # {}, g[t \ {Max(t)}] \in Acc
        PROVE  g[t] = step[Max(t)][g[t \ {Max(t)}]]
    <3>1. g[t] = With(g[t \ {Max(t)}], more[Max(t)])
      BY <1>9, <2>2
    <3>. QED  BY <1>5, <1>6, <2>2, <3>1
  <2>. QED  BY <2>1, <2>2 DEF Goes
<1>11. PICK f \in [0 .. N -> Acc] : Stages(f, N, params, step) /\ f[N] = g[1 .. N]
  <2>1. N \in Nat /\ params \in Acc
    BY <1>3
  <2> HIDE DEF Body
  <2>. QED  BY <1>4, <1>10, <2>1, FoldSteps
<1>12. Merging(f, params, more)
  <2>1. \A k \in 1 .. N : k - 1 \in 0 .. N
    BY <1>3
  <2>2. \A k \in 1 .. N : f[k] = With(f[k - 1], more[k])
    BY <1>5, <1>11, <2>1 DEF Stages
  <2>. QED  BY <1>11, <2>2 DEF Stages, Merging, N
<1>. QED  BY <1>1, <1>11, <1>12 DEF N, Acc

\* What comes of it has the names of both, and each once if params has.
LEMMA AppendNewMeans ==
    ASSUME NEW S, NEW params \in Seq(S), NEW more \in Seq(S)
    PROVE  /\ AppendNew(params, more) \in Seq(S)
           /\ ToSet(AppendNew(params, more)) = ToSet(params) \cup ToSet(more)
           /\ IsInjective(params) => IsInjective(AppendNew(params, more))
<1> DEFINE N == Len(more)
           UpTo(k) == {more[i] : i \in 1 .. k}
<1>1. PICK f \in [0 .. N -> Seq(S)] :
          Merging(f, params, more) /\ AppendNew(params, more) = f[N]
  BY MergingSteps
<1>2. N \in Nat /\ DOMAIN more = 1 .. N /\ \A k \in 1 .. N : more[k] \in S
  BY ElementOf
<1> DEFINE T == {k \in 0 .. N : /\ ToSet(f[k]) = ToSet(params) \cup UpTo(k)
                                /\ IsInjective(params) => IsInjective(f[k])}
<1>3. 0 \in T
  <2>1. UpTo(0) = {} /\ 0 \in 0 .. N
    BY <1>2
  <2>. QED  BY <1>1, <2>1 DEF Merging
<1>4. ASSUME NEW k \in 0 .. N - 1, k \in T PROVE k + 1 \in T
  <2>1. /\ k + 1 \in 1 .. N /\ k + 1 \in 0 .. N /\ k \in 0 .. N /\ (k + 1) - 1 = k
        /\ \A i \in 1 .. k + 1 : i = k + 1 \/ i \in 1 .. k
        /\ \A i \in 1 .. k : i \in 1 .. k + 1
        /\ k + 1 \in 1 .. k + 1
    BY <1>2
  <2>2. UpTo(k + 1) = UpTo(k) \cup {more[k + 1]}
    BY <2>1
  <2> DEFINE e == more[k + 1]
  <2>3. f[k + 1] = IF e \in ToSet(f[k]) THEN f[k] ELSE Append(f[k], e)
    BY <1>1, <2>1 DEF Merging
  <2>4. f[k] \in Seq(S) /\ e \in S
    BY <1>2, <2>1
  <2>5. ToSet(f[k]) = ToSet(params) \cup UpTo(k) /\ (IsInjective(params) => IsInjective(f[k]))
    BY <1>4
  <2> HIDE DEF e, UpTo, T
  <2>6. /\ ToSet(Append(f[k], e)) = ToSet(f[k]) \cup {e}
        /\ IsInjective(f[k]) /\ e \notin ToSet(f[k]) => IsInjective(Append(f[k], e))
    BY <2>4, AppendMeans
  <2>7. UpTo(k + 1) = UpTo(k) \cup {e}
    BY <2>2 DEF e
  <2>8. ToSet(f[k + 1]) = ToSet(params) \cup UpTo(k + 1)
    BY <2>3, <2>5, <2>6, <2>7
  <2>9. IsInjective(params) => IsInjective(f[k + 1])
    BY <2>3, <2>5, <2>6
  <2>. QED  BY <2>1, <2>8, <2>9 DEF T
<1> HIDE DEF T
<1>5. \A k \in 0 .. N : k \in T
  BY <1>2, <1>3, <1>4, Induction
<1>6. N \in T /\ f[N] \in Seq(S)
  BY <1>2, <1>5
<1>7. ToSet(more) = UpTo(N)
  BY <1>2 DEF ToSet
<1>. QED  BY <1>1, <1>6, <1>7 DEF T

\* Two sequences, one after the other, have the elements of both.
LEMMA ConcatMeans ==
    ASSUME NEW S, NEW s \in Seq(S), NEW t \in Seq(S)
    PROVE  s \o t \in Seq(S) /\ ToSet(s \o t) = ToSet(s) \cup ToSet(t)
<1> DEFINE c == s \o t
<1>1. /\ c \in Seq(S) /\ DOMAIN c = 1 .. Len(s) + Len(t)
      /\ DOMAIN s = 1 .. Len(s) /\ DOMAIN t = 1 .. Len(t) /\ Len(s) \in Nat /\ Len(t) \in Nat
  OBVIOUS
<1>2. \A i \in 1 .. Len(s) : c[i] = s[i] /\ i \in DOMAIN c
  OBVIOUS
<1>3. \A i \in 1 .. Len(t) : c[Len(s) + i] = t[i] /\ Len(s) + i \in DOMAIN c
  OBVIOUS
<1>4. \A i \in DOMAIN c : i \in 1 .. Len(s) \/ \E j \in 1 .. Len(t) : i = Len(s) + j
  <2>1. \A i \in DOMAIN c : i \in 1 .. Len(s) \/ i - Len(s) \in 1 .. Len(t)
    BY <1>1
  <2>2. \A i \in DOMAIN c : i = Len(s) + (i - Len(s))
    BY <1>1
  <2>. QED  BY <2>1, <2>2
<1> HIDE DEF c
<1>5. ToSet(c) = ToSet(s) \cup ToSet(t)
  <2>1. \A x \in ToSet(c) : x \in ToSet(s) \/ x \in ToSet(t)
    BY <1>1, <1>2, <1>3, <1>4 DEF ToSet
  <2>2. \A x : x \in ToSet(s) \/ x \in ToSet(t) => x \in ToSet(c)
    BY <1>1, <1>2, <1>3 DEF ToSet
  <2>. QED  BY <2>1, <2>2
<1>. QED  BY <1>1, <1>5 DEF c

-----------------------------------------------------------------------------
(* flat_params *)

NameLists == Seq(STRING)

LEMMA AppendNewNames ==
    ASSUME NEW params \in NameLists, NEW more \in NameLists
    PROVE  /\ AppendNew(params, more) \in NameLists
           /\ ToSet(AppendNew(params, more)) = ToSet(params) \cup ToSet(more)
           /\ IsInjective(params) => IsInjective(AppendNew(params, more))
BY AppendNewMeans DEF NameLists

Dependants(m) == ToFlatten(program[m])

\* A model has its arguments' models and the extra ones to go through.
LEMMA KeysMean ==
    ASSUME Injected, NEW m \in Models
    PROVE  Dependants(m) \in Seq(Models) /\ ToSet(Dependants(m)) = KeysOf(program[m])
<1> DEFINE ds == program[m].dependencies
           ks == [i \in DOMAIN ds |-> ds[i].key]
<1>1. ds \in Seq(Argument) /\ \A i \in DOMAIN ds : ds[i].key \in Models
  BY ModelHas
<1>2. DOMAIN ds = 1 .. Len(ds) /\ Len(ds) \in Nat
  BY <1>1
<1> HIDE DEF ds
<1>3. ks \in Seq(Models) /\ DOMAIN ks = DOMAIN ds
  BY <1>1, <1>2
<1>4. ToSet(ks) = {d.key : d \in ToSet(ds)}
  BY DEF ToSet
<1>5. program[m].extras \in Seq(Models)
  BY ModelHas
<1>6. Dependants(m) = ks \o program[m].extras
  BY DEF Dependants, ToFlatten, ds
<1> HIDE DEF ks
<1>. QED  BY <1>3, <1>4, <1>5, <1>6, ConcatMeans DEF KeysOf, ds

\* What flat_params of m is with those of its dependencies in f
FlatWith(f, m) ==
    FoldLeft(LAMBDA params, key : AppendNew(params, f[GetDependant(key)]),
             program[m].params, ToFlatten(program[m]))

Flattening(c, f, m) ==
    c[0] = program[m].params /\ \A k \in 1 .. Len(Dependants(m)) :
        c[k] = AppendNew(c[k - 1], f[GetDependant(Dependants(m)[k])])

HasLists(f, m) == \A key \in KeysOf(program[m]) : f[GetDependant(key)] \in NameLists

LEMMA FlatteningSteps ==
    ASSUME Injected, NEW m \in Models, NEW f, HasLists(f, m)
    PROVE  \E c \in [0 .. Len(Dependants(m)) -> NameLists] :
              Flattening(c, f, m) /\ FlatWith(f, m) = c[Len(Dependants(m))]
<1> DEFINE N == Len(Dependants(m))
           Acc == NameLists
           base == program[m].params
           more == [k \in 1 .. N |-> f[GetDependant(Dependants(m)[k])]]
           step == [k \in 1 .. N |-> [a \in Acc |-> AppendNew(a, more[k])]]
           Body(h) == [t \in SUBSET (1 .. N) |->
                          IF t = {} THEN base
                          ELSE AppendNew(h[t \ {Max(t)}], f[GetDependant(Dependants(m)[Max(t)])])]
           g == CHOOSE h : h = Body(h)
<1>1. Dependants(m) \in Seq(Models) /\ DOMAIN Dependants(m) = 1 .. N /\ N \in Nat
  BY KeysMean
<1>2. FlatWith(f, m) = g[1 .. N]
  BY <1>1 DEF FlatWith, FoldLeft, MapThenFoldSet, Dependants
<1>3. \A k \in 1 .. N : more[k] \in Acc
  BY <1>1, KeysMean DEF HasLists, ToSet
<1>4. base \in Acc
  BY ModelHas DEF NameLists
<1>5. \A a \in Acc, k \in 1 .. N : AppendNew(a, more[k]) \in Acc
  BY <1>3, AppendNewNames
<1>6. \A k \in 1 .. N : more[k] = f[GetDependant(Dependants(m)[k])]
  OBVIOUS
<1> HIDE DEF N, Acc, base, more
<1>7. step \in [1 .. N -> [Acc -> Acc]]
  BY <1>5
<1>8. \A k \in 1 .. N, a \in Acc : step[k][a] = AppendNew(a, more[k])
  OBVIOUS
<1> HIDE DEF step
<1>9. \A t \in SUBSET (1 .. N) : t # {} => Max(t) \in 1 .. N /\ t \ {Max(t)} \in SUBSET (1 .. N)
  BY <1>1, MaxIn
<1>10. PICK h \in [SUBSET (1 .. N) -> Acc] : Folds(h, N, base, step)
  BY <1>1, <1>4, <1>7, FoldExists
<1>11. h = Body(h)
  <2>1. ASSUME NEW t \in SUBSET (1 .. N) PROVE h[t] = Body(h)[t]
    <3>1. CASE t = {}
      BY <1>10, <3>1 DEF Folds
    <3>2. CASE t # {}
      <4>1. Max(t) \in 1 .. N /\ t \ {Max(t)} \in SUBSET (1 .. N)
        BY <1>9, <3>2
      <4>2. h[t] = step[Max(t)][h[t \ {Max(t)}]] /\ h[t \ {Max(t)}] \in Acc
        BY <1>10, <3>2, <4>1 DEF Folds
      <4>3. h[t] = AppendNew(h[t \ {Max(t)}], more[Max(t)])
        BY <1>8, <4>1, <4>2
      <4>. QED  BY <1>6, <3>2, <4>1, <4>3
    <3>. QED  BY <3>1, <3>2
  <2>. QED  BY <1>10, <2>1
<1>12. g = Body(g)
  BY <1>11
<1> HIDE DEF g
<1>13. Goes(g, N, Acc, base, step)
  <2>1. g[{}] = base
    BY <1>12
  <2>2. ASSUME NEW t \in SUBSET (1 .. N), t # {}, g[t \ {Max(t)}] \in Acc
        PROVE  g[t] = step[Max(t)][g[t \ {Max(t)}]]
    <3>1. g[t] = AppendNew(g[t \ {Max(t)}], f[GetDependant(Dependants(m)[Max(t)])])
      BY <1>12, <2>2
    <3>. QED  BY <1>6, <1>8, <1>9, <2>2, <3>1
  <2>. QED  BY <2>1, <2>2 DEF Goes
<1>14. PICK c \in [0 .. N -> Acc] : Stages(c, N, base, step) /\ c[N] = g[1 .. N]
  <2>1. N \in Nat
    BY <1>1
  <2> HIDE DEF Body
  <2>. QED  BY <1>4, <1>7, <1>13, <2>1, FoldSteps
<1>15. Flattening(c, f, m)
  <2>1. \A k \in 1 .. N : k - 1 \in 0 .. N
    BY <1>1
  <2>2. \A k \in 1 .. N : c[k] = AppendNew(c[k - 1], more[k])
    BY <1>8, <1>14, <2>1 DEF Stages
  <2>. QED  BY <1>6, <1>14, <2>2 DEF Stages, Flattening, N, base
<1>. QED  BY <1>2, <1>14, <1>15 DEF N, Acc

\* It has the parameters of the model and of its dependencies, each once.
LEMMA FlatWithMeans ==
    ASSUME Injected, NEW m \in Models, NEW f, HasLists(f, m)
    PROVE  /\ FlatWith(f, m) \in NameLists /\ IsInjective(FlatWith(f, m))
           /\ ToSet(FlatWith(f, m)) = ToSet(program[m].params)
                  \cup UNION {ToSet(f[GetDependant(key)]) : key \in KeysOf(program[m])}
<1> DEFINE N == Len(Dependants(m))
           F(k) == f[GetDependant(Dependants(m)[k])]
           UpTo(k) == UNION {ToSet(F(i)) : i \in 1 .. k}
<1>1. PICK c \in [0 .. N -> NameLists] : Flattening(c, f, m) /\ FlatWith(f, m) = c[N]
  BY FlatteningSteps
<1>2. /\ Dependants(m) \in Seq(Models) /\ DOMAIN Dependants(m) = 1 .. N /\ N \in Nat
      /\ KeysOf(program[m]) = {Dependants(m)[k] : k \in 1 .. N}
  <2>1. Dependants(m) \in Seq(Models) /\ DOMAIN Dependants(m) = 1 .. N /\ N \in Nat
    BY KeysMean
  <2>2. KeysOf(program[m]) = ToSet(Dependants(m))
    BY KeysMean
  <2>. QED  BY <2>1, <2>2 DEF ToSet
<1>3. \A k \in 1 .. N : F(k) \in NameLists
  BY <1>2 DEF HasLists
<1>4. \A k \in 1 .. N : c[k] = AppendNew(c[k - 1], F(k))
  BY <1>1 DEF Flattening
<1>5. UNION {ToSet(f[GetDependant(key)]) : key \in KeysOf(program[m])} = UpTo(N)
  BY <1>2
<1> HIDE DEF N, F
<1> DEFINE T == {k \in 0 .. N : /\ ToSet(c[k]) = ToSet(program[m].params) \cup UpTo(k)
                                /\ IsInjective(c[k])}
<1>6. 0 \in T
  <2>1. 0 \in 0 .. N /\ 1 .. 0 = {}
    BY <1>2
  <2>2. c[0] = program[m].params /\ IsInjective(program[m].params)
    BY <1>1, ModelHas DEF Flattening
  <2>. QED  BY <2>1, <2>2
<1>7. ASSUME NEW k \in 0 .. N - 1, k \in T PROVE k + 1 \in T
  <2>1. /\ k + 1 \in 1 .. N /\ k + 1 \in 0 .. N /\ k \in 0 .. N /\ (k + 1) - 1 = k
        /\ \A i \in 1 .. k + 1 : i = k + 1 \/ i \in 1 .. k
        /\ \A i \in 1 .. k : i \in 1 .. k + 1
        /\ k + 1 \in 1 .. k + 1
    BY <1>2
  <2>2. UpTo(k + 1) = UpTo(k) \cup ToSet(F(k + 1))
    BY <2>1
  <2>3. c[k + 1] = AppendNew(c[k], F(k + 1)) /\ c[k] \in NameLists /\ F(k + 1) \in NameLists
    BY <1>3, <1>4, <2>1
  <2>4. ToSet(c[k]) = ToSet(program[m].params) \cup UpTo(k) /\ IsInjective(c[k])
    BY <1>7
  <2> HIDE DEF UpTo, T
  <2>5. /\ ToSet(c[k + 1]) = ToSet(c[k]) \cup ToSet(F(k + 1))
        /\ IsInjective(c[k]) => IsInjective(c[k + 1])
    BY <2>3, AppendNewNames
  <2>. QED  BY <2>1, <2>2, <2>4, <2>5 DEF T
<1> HIDE DEF T
<1>8. \A k \in 0 .. N : k \in T
  BY <1>2, <1>6, <1>7, Induction
<1>9. N \in T /\ c[N] \in NameLists
  BY <1>2, <1>8
<1> HIDE DEF UpTo
<1>. QED  BY <1>1, <1>5, <1>9 DEF T

\* Nothing but what f has for the dependencies matters.
LEMMA FlatWithAlike ==
    ASSUME Injected, NEW m \in Models, NEW f, NEW g, HasLists(f, m), HasLists(g, m),
           \A key \in KeysOf(program[m]) : f[GetDependant(key)] = g[GetDependant(key)]
    PROVE  FlatWith(f, m) = FlatWith(g, m)
<1> DEFINE N == Len(Dependants(m))
<1>1. PICK c \in [0 .. N -> NameLists] : Flattening(c, f, m) /\ FlatWith(f, m) = c[N]
  BY FlatteningSteps
<1>2. PICK d \in [0 .. N -> NameLists] : Flattening(d, g, m) /\ FlatWith(g, m) = d[N]
  BY FlatteningSteps
<1>3. \A k \in 1 .. N : f[GetDependant(Dependants(m)[k])] = g[GetDependant(Dependants(m)[k])]
  <2>1. Dependants(m) \in Seq(Models) /\ DOMAIN Dependants(m) = 1 .. N
    BY KeysMean
  <2>2. KeysOf(program[m]) = ToSet(Dependants(m))
    BY KeysMean
  <2>. QED  BY <2>1, <2>2 DEF ToSet
<1>4. N \in Nat
  BY KeysMean
<1> DEFINE T == {k \in 0 .. N : c[k] = d[k]}
<1>5. 0 \in T
  BY <1>1, <1>2, <1>4 DEF Flattening
<1>6. ASSUME NEW k \in 0 .. N - 1, k \in T PROVE k + 1 \in T
  <2>1. k + 1 \in 1 .. N /\ k + 1 \in 0 .. N /\ (k + 1) - 1 = k
    BY <1>4
  <2>2. /\ c[k + 1] = AppendNew(c[k], f[GetDependant(Dependants(m)[k + 1])])
        /\ d[k + 1] = AppendNew(d[k], g[GetDependant(Dependants(m)[k + 1])])
    BY <1>1, <1>2, <2>1 DEF Flattening
  <2>. QED  BY <1>3, <1>6, <2>1, <2>2
<1> HIDE DEF T
<1>7. \A k \in 0 .. N : k \in T
  BY <1>4, <1>5, <1>6, Induction
<1>8. N \in T
  BY <1>4, <1>7
<1>. QED  BY <1>1, <1>2, <1>8 DEF T

LEMMA FlatParamsMean ==
    ASSUME Injected, NEW m \in Models
    PROVE  /\ FlatParams[m] \in NameLists /\ IsInjective(FlatParams[m])
           /\ ToSet(FlatParams[m]) = ToSet(program[m].params)
                  \cup UNION {ToSet(FlatParams[GetDependant(key)]) : key \in KeysOf(program[m])}
<1> DEFINE Val == NameLists
           step == [n \in Models |-> [f \in [Models -> Val] |-> FlatWith(f, n)]]
           Body(f) == [n \in Models |-> FlatWith(f, n)]
           g == CHOOSE f : f = Body(f)
<1>1. PICK N \in Nat : \E rank \in [Models -> 1 .. N] : Ranked(rank)
  BY RankExists
<1>2. PICK rank \in [Models -> 1 .. N] : Ranked(rank)
  BY <1>1
<1>3. \A f \in [Models -> Val], n \in Models : HasLists(f, n)
  BY <1>2 DEF Ranked, HasLists
<1>4. \A f \in [Models -> Val], n \in Models : FlatWith(f, n) \in Val
  BY <1>3, FlatWithMeans
<1>5. <<>> \in Val
  BY DEF NameLists
<1>6. \A n \in Models, f \in [Models -> Val] : step[n][f] = FlatWith(f, n)
  OBVIOUS
<1>7. step \in [Models -> [[Models -> Val] -> Val]]
  BY <1>4
<1>8. FlatParams = g
  BY DEF FlatParams, FlatWith
<1> HIDE DEF Val, step
<1>9. LooksBelow(Models, rank, Val, step)
  <2>1. ASSUME NEW n \in Models, NEW f \in [Models -> Val], NEW h \in [Models -> Val],
               \A k \in Models : rank[k] < rank[n] => f[k] = h[k]
        PROVE  step[n][f] = step[n][h]
    <3>1. \A key \in KeysOf(program[n]) : f[GetDependant(key)] = h[GetDependant(key)]
      BY <1>2, <2>1 DEF Ranked
    <3>2. HasLists(f, n) /\ HasLists(h, n)
      BY <1>3
    <3>3. FlatWith(f, n) = FlatWith(h, n)
      BY <3>1, <3>2, FlatWithAlike
    <3>. QED  BY <1>6, <3>3
  <2>. QED  BY <2>1 DEF LooksBelow
<1>10. PICK h \in [Models -> Val] : \A n \in Models : h[n] = step[n][h]
  <2>1. GoesByRank(Models, N, rank, Val, step)
    BY <1>5, <1>7, <1>9 DEF GoesByRank
  <2>2. \E h : HasValues(h, Models, Val, step)
    BY <2>1, RankedExists
  <2>. QED  BY <2>2 DEF HasValues
<1>11. h = Body(h)
  BY <1>6, <1>10
<1>12. g = Body(g)
  BY <1>11
<1> HIDE DEF g
<1>13. \A n \in Models : g[n] = FlatWith(g, n)
  BY <1>12
<1> DEFINE T == {n \in Models : g[n] \in Val}
<1>14. ASSUME NEW n \in Models, \A k \in Models : rank[k] < rank[n] => k \in T PROVE n \in T
  <2>1. HasLists(g, n)
    BY <1>2, <1>14 DEF Ranked, HasLists, Val
  <2>2. FlatWith(g, n) \in Val
    BY <2>1, FlatWithMeans DEF Val
  <2>. QED  BY <1>13, <2>2
<1> HIDE DEF T
<1>15. \A n \in Models : n \in T
  BY <1>14, ByRank
<1>16. HasLists(g, m)
  BY <1>2, <1>15 DEF T, Ranked, HasLists, Val
<1>17. /\ FlatWith(g, m) \in NameLists /\ IsInjective(FlatWith(g, m))
       /\ ToSet(FlatWith(g, m)) = ToSet(program[m].params)
              \cup UNION {ToSet(g[GetDependant(key)]) : key \in KeysOf(program[m])}
  BY <1>16, FlatWithMeans
<1>. QED  BY <1>8, <1>13, <1>17

-----------------------------------------------------------------------------
(* solve() *)

NameSets == SUBSET STRING

\* What m lacks, given w, when its dependencies lack what f has
OfExtras(f, m, w) == {f[GetDependant(key)][w] : key \in ToSet(program[m].extras)}
OfArguments(f, m, w) ==
    LET ds == program[m].dependencies
    IN  {f[GetDependant(ds[i].key)][Known(w, ds, i)] : i \in {j \in DOMAIN ds : ds[j].arg \notin w}}
Lacking(f, m, w) ==
    (ToSet(program[m].params) \ w) \cup UNION (OfExtras(f, m, w) \cup OfArguments(f, m, w))

\* What m has injected is of lower rank, and is given names.
LEMMA InjectedAre ==
    ASSUME Injected, NEW m \in Models, NEW w \in NameSets
    PROVE  /\ \A key \in ToSet(program[m].extras) : key \in KeysOf(program[m])
           /\ \A i \in DOMAIN program[m].dependencies :
                 /\ program[m].dependencies[i].key \in KeysOf(program[m])
                 /\ Known(w, program[m].dependencies, i) \in NameSets
           /\ ToSet(program[m].params) \in NameSets
           /\ KeysOf(program[m]) = ToSet(program[m].extras)
                  \cup {program[m].dependencies[i].key : i \in DOMAIN program[m].dependencies}
<1> DEFINE ds == program[m].dependencies
<1>1. ds \in Seq(Argument) /\ \A i \in DOMAIN ds : ds[i].arg \in STRING
  BY ModelHas
<1>2. \A i \in DOMAIN ds : \A j \in 1 .. i - 1 : j \in DOMAIN ds
  BY <1>1
<1>3. program[m].params \in Seq(STRING)
  BY ModelHas
<1>4. \A i \in DOMAIN program[m].params : program[m].params[i] \in STRING
  BY <1>3
<1>5. KeysOf(program[m]) = ToSet(program[m].extras) \cup {ds[i].key : i \in DOMAIN ds}
  BY DEF KeysOf, ToSet
<1> HIDE DEF ds
<1>6. \A i \in DOMAIN ds : Known(w, ds, i) \in NameSets
  BY <1>1, <1>2 DEF Known, NameSets
<1>7. ToSet(program[m].params) \in NameSets
  BY <1>4 DEF NameSets, ToSet
<1>. QED  BY <1>5, <1>6, <1>7 DEF ds

LEMMA LacksMeans ==
    ASSUME Injected, NEW m \in Models, NEW w \in NameSets
    PROVE  Lacks[m][w] = Lacking(Lacks, m, w)
<1> DEFINE Val == [NameSets -> NameSets]
           step == [n \in Models |-> [f \in [Models -> Val] |->
                       [v \in NameSets |-> Lacking(f, n, v)]]]
           Body(f) == [n \in Models |-> [v \in NameSets |-> Lacking(f, n, v)]]
           g == CHOOSE f : f = Body(f)
<1>1. PICK N \in Nat : \E rank \in [Models -> 1 .. N] : Ranked(rank)
  BY RankExists
<1>2. PICK rank \in [Models -> 1 .. N] : Ranked(rank)
  BY <1>1
<1>3. ASSUME NEW f \in [Models -> Val], NEW n \in Models, NEW u \in NameSets
      PROVE  Lacking(f, n, u) \in NameSets
  <2>1. \A key \in KeysOf(program[n]) : f[GetDependant(key)] \in Val
    BY <1>2 DEF Ranked
  <2>2. \A e \in OfExtras(f, n, u) : e \in NameSets
    <3>1. \A key \in ToSet(program[n].extras) : f[GetDependant(key)] \in Val
      BY <2>1, InjectedAre
    <3>. QED  BY <3>1 DEF OfExtras
  <2>3. \A e \in OfArguments(f, n, u) : e \in NameSets
    BY <2>1, InjectedAre DEF OfArguments
  <2>4. ToSet(program[n].params) \in NameSets
    BY InjectedAre
  <2>. QED  BY <2>2, <2>3, <2>4 DEF Lacking, NameSets
<1>4. [v \in NameSets |-> {}] \in Val
  BY DEF NameSets
<1>5. \A n \in Models, f \in [Models -> Val] :
         step[n][f] = [v \in NameSets |-> Lacking(f, n, v)]
  OBVIOUS
<1>6. step \in [Models -> [[Models -> Val] -> Val]]
  BY <1>3
<1>7. Lacks = g
  BY DEF Lacks, Lacking, OfExtras, OfArguments, NameSets
<1> HIDE DEF Val, step
<1>8. LooksBelow(Models, rank, Val, step)
  <2>1. ASSUME NEW n \in Models, NEW f \in [Models -> Val], NEW h \in [Models -> Val],
               \A k \in Models : rank[k] < rank[n] => f[k] = h[k]
        PROVE  step[n][f] = step[n][h]
    <3>1. \A key \in KeysOf(program[n]) : f[GetDependant(key)] = h[GetDependant(key)]
      BY <1>2, <2>1 DEF Ranked
    <3>2. ASSUME NEW u \in NameSets PROVE Lacking(f, n, u) = Lacking(h, n, u)
      <4>1. OfExtras(f, n, u) = OfExtras(h, n, u)
        <5>1. \A key \in ToSet(program[n].extras) : f[GetDependant(key)] = h[GetDependant(key)]
          BY <3>1, InjectedAre
        <5>. QED  BY <5>1 DEF OfExtras
      <4>2. OfArguments(f, n, u) = OfArguments(h, n, u)
        <5> DEFINE ds == program[n].dependencies
        <5>1. \A i \in DOMAIN ds : f[GetDependant(ds[i].key)] = h[GetDependant(ds[i].key)]
          BY <3>1, InjectedAre
        <5>. QED  BY <5>1 DEF OfArguments
      <4>. QED  BY <4>1, <4>2 DEF Lacking
    <3>3. /\ step[n][f] = [v \in NameSets |-> Lacking(f, n, v)]
          /\ step[n][h] = [v \in NameSets |-> Lacking(h, n, v)]
      BY <1>5
    <3>. QED  BY <3>2, <3>3
  <2>. QED  BY <2>1 DEF LooksBelow
<1>9. PICK h \in [Models -> Val] : \A n \in Models : h[n] = step[n][h]
  <2>1. GoesByRank(Models, N, rank, Val, step)
    BY <1>4, <1>6, <1>8 DEF GoesByRank
  <2>2. \E h : HasValues(h, Models, Val, step)
    BY <2>1, RankedExists
  <2>. QED  BY <2>2 DEF HasValues
<1>10. h = Body(h)
  BY <1>5, <1>9
<1>11. g = Body(g)
  BY <1>10
<1> HIDE DEF g
<1>. QED  BY <1>7, <1>11

\* Who has all that is listed for m lacks nothing.
LEMMA ListedSuffice ==
    ASSUME Injected, NEW m \in Models, NEW w \in NameSets, ToSet(FlatParams[m]) \subseteq w
    PROVE  Lacks[m][w] = {}
<1>1. PICK N \in Nat : \E rank \in [Models -> 1 .. N] : Ranked(rank)
  BY RankExists
<1>2. PICK rank \in [Models -> 1 .. N] : Ranked(rank)
  BY <1>1
<1> DEFINE T == {n \in Models : \A u \in NameSets :
                     ToSet(FlatParams[n]) \subseteq u => Lacks[n][u] = {}}
<1>3. ASSUME NEW n \in Models, \A k \in Models : rank[k] < rank[n] => k \in T PROVE n \in T
  <2> SUFFICES ASSUME NEW u \in NameSets, ToSet(FlatParams[n]) \subseteq u
               PROVE  Lacks[n][u] = {}
    OBVIOUS
  <2> DEFINE ds == program[n].dependencies
  <2>1. Lacks[n][u] = Lacking(Lacks, n, u)
    BY LacksMeans
  <2>2. /\ ToSet(program[n].params) \subseteq u
        /\ \A key \in KeysOf(program[n]) : ToSet(FlatParams[GetDependant(key)]) \subseteq u
    BY FlatParamsMean
  <2>3. \A key \in KeysOf(program[n]) : GetDependant(key) \in T
    BY <1>2, <1>3 DEF Ranked
  <2>4. ASSUME NEW key \in KeysOf(program[n]), NEW v \in NameSets, u \subseteq v
        PROVE  Lacks[GetDependant(key)][v] = {}
    BY <2>2, <2>3, <2>4
  <2> HIDE DEF T
  <2>5. \A e \in OfExtras(Lacks, n, u) : e = {}
    <3>1. \A key \in ToSet(program[n].extras) : key \in KeysOf(program[n])
      BY InjectedAre
    <3>. QED  BY <2>4, <3>1 DEF OfExtras
  <2>6. \A e \in OfArguments(Lacks, n, u) : e = {}
    <3>1. \A i \in DOMAIN ds : ds[i].key \in KeysOf(program[n]) /\ Known(u, ds, i) \in NameSets
      BY InjectedAre
    <3>2. \A i \in DOMAIN ds : u \subseteq Known(u, ds, i)
      BY DEF Known
    <3>. QED  BY <2>4, <3>1, <3>2 DEF OfArguments
  <2>. QED  BY <2>1, <2>2, <2>5, <2>6 DEF Lacking
<1> HIDE DEF T
<1>4. \A n \in Models : n \in T
  BY <1>3, ByRank
<1>. QED  BY <1>4 DEF T

\* What is in w is no argument of m, nor of a model of lower rank.
Clear(m, w, rank) ==
    \A n \in Models : rank[n] <= rank[m] => w \cap ArgumentsOf(program[n]) = {}

\* Who does not have one of those listed lacks it, where no value is found in its place.
LEMMA ListedAreLacked ==
    ASSUME Injected, ArgumentsDiffer, NEW N \in Nat, NEW rank \in [Models -> 1 .. N],
           Ranked(rank), NEW m \in Models, NEW w \in NameSets, Clear(m, w, rank),
           NEW p \in ToSet(FlatParams[m]), p \notin w, p \notin Arguments
    PROVE  p \in Lacks[m][w]
<1> DEFINE T == {n \in Models : \A u \in NameSets :
                     Clear(n, u, rank) /\ p \in ToSet(FlatParams[n]) /\ p \notin u
                        => p \in Lacks[n][u]}
<1>1. ASSUME NEW n \in Models, \A k \in Models : rank[k] < rank[n] => k \in T PROVE n \in T
  <2> SUFFICES ASSUME NEW u \in NameSets, Clear(n, u, rank),
                      p \in ToSet(FlatParams[n]), p \notin u
               PROVE  p \in Lacks[n][u]
    OBVIOUS
  <2> DEFINE ds == program[n].dependencies
  <2>1. Lacks[n][u] = Lacking(Lacks, n, u)
    BY LacksMeans
  <2>2. CASE p \in ToSet(program[n].params)
    BY <2>1, <2>2 DEF Lacking
  <2>3. ASSUME NEW key \in KeysOf(program[n]), p \in ToSet(FlatParams[GetDependant(key)])
        PROVE  p \in Lacks[n][u]
    <3> DEFINE k == GetDependant(key)
    <3>1. k \in Models /\ rank[k] < rank[n] /\ k \in T
      BY <1>1 DEF Ranked
    <3>2. \A j \in Models : rank[j] <= rank[k] => rank[j] <= rank[n] /\ j # n
      BY <3>1
    <3>3. Clear(k, u, rank)
      BY <3>2 DEF Clear
    <3> HIDE DEF k
    <3>4. CASE key \in ToSet(program[n].extras)
      <4>1. p \in Lacks[k][u]
        BY <2>3, <3>1, <3>3 DEF k
      <4>2. Lacks[k][u] \in OfExtras(Lacks, n, u)
        BY <3>4 DEF OfExtras, k
      <4>. QED  BY <2>1, <4>1, <4>2 DEF Lacking
    <3>5. ASSUME NEW i \in DOMAIN ds, key = ds[i].key PROVE p \in Lacks[n][u]
      <4> DEFINE v == Known(u, ds, i)
      <4>1. v \in NameSets
        BY InjectedAre
      <4>2. ds \in Seq(Argument)
        BY ModelHas
      <4>3. \A j \in 1 .. i - 1 : j \in DOMAIN ds
        BY <4>2
      <4>4. \A j \in DOMAIN ds : ds[j].arg \in ArgumentsOf(program[n])
        BY DEF ArgumentsOf, ToSet
      <4>5. v \subseteq u \cup ArgumentsOf(program[n])
        BY <4>3, <4>4 DEF Known
      <4> HIDE DEF v
      <4>6. p \notin v
        BY <4>5 DEF Arguments
      <4>7. Clear(k, v, rank)
        <5>1. ASSUME NEW j \in Models, rank[j] <= rank[k]
              PROVE  v \cap ArgumentsOf(program[j]) = {}
          <6>1. j # n /\ u \cap ArgumentsOf(program[j]) = {}
            BY <3>2, <5>1 DEF Clear, k
          <6>2. ArgumentsOf(program[n]) \cap ArgumentsOf(program[j]) = {}
            BY <6>1 DEF ArgumentsDiffer
          <6>. QED  BY <4>5, <6>1, <6>2
        <5>. QED  BY <5>1 DEF Clear
      <4>8. p \in Lacks[k][v]
        BY <2>3, <3>1, <4>1, <4>6, <4>7 DEF k
      <4>9. ds[i].arg \notin u
        <5>1. rank[n] <= rank[n]
          OBVIOUS
        <5>. QED  BY <4>4, <5>1 DEF Clear
      <4>10. Lacks[k][v] \in OfArguments(Lacks, n, u)
        BY <3>5, <4>9 DEF OfArguments, k, v
      <4>. QED  BY <2>1, <4>8, <4>10 DEF Lacking
    <3>6. \/ key \in ToSet(program[n].extras)
          \/ \E i \in DOMAIN ds : key = ds[i].key
      BY InjectedAre
    <3>. QED  BY <3>4, <3>5, <3>6
  <2>4. ToSet(FlatParams[n]) = ToSet(program[n].params)
            \cup UNION {ToSet(FlatParams[GetDependant(key)]) : key \in KeysOf(program[n])}
    BY FlatParamsMean
  <2>. QED  BY <2>2, <2>3, <2>4
<1> HIDE DEF T
<1>2. \A n \in Models : n \in T
  BY <1>1, ByRank
<1>. QED  BY <1>2 DEF T

\* What is true of any program and any overrides
FlattenInv == overrides \in Overrides /\ (program = NoProgram \/ program \in Programs)

\* For any program without a cycle, and whatever overrides there are: who gives all that
\* flat_params lists has given what any model looks for (model.py:55-65, 223-247); no
\* parameter is listed twice, and each is needed where names do not meet.
THEOREM FlatParamsCorrect == FlattenSpec => []ListedAreNeeded
<1>1. FlattenInit => FlattenInv
  BY FlattenAssumption DEF FlattenInit, FlattenInv
<1>2. FlattenInv /\ [FlattenNext]_flattenVars => FlattenInv'
  BY DEF FlattenInv, FlattenNext, flattenVars, Build, Override
<1>3. FlattenInv => ListedAreNeeded
  <2> SUFFICES ASSUME FlattenInv, program # NoProgram
               PROVE  /\ Lacks[Main][ToSet(Listed)] = {}
                      /\ IsInjective(Listed)
                      /\ ArgumentsDiffer /\ ToSet(Listed) \cap Arguments = {} =>
                            \A p \in ToSet(Listed) : p \in Lacks[Main][ToSet(Listed) \ {p}]
    BY DEF ListedAreNeeded
  <2>1. Injected /\ Main \in Models
    BY FlattenAssumption DEF FlattenInv, Injected
  <2>2. FlatParams[Main] \in NameLists /\ IsInjective(FlatParams[Main])
    BY <2>1, FlatParamsMean
  <2>3. ToSet(Listed) \in NameSets
    <3>1. \A i \in DOMAIN FlatParams[Main] : FlatParams[Main][i] \in STRING
      BY <2>2 DEF NameLists
    <3>. QED  BY <3>1 DEF Listed, ToSet, NameSets
  <2>4. Lacks[Main][ToSet(Listed)] = {}
    BY <2>1, <2>3, ListedSuffice DEF Listed
  <2>5. ASSUME ArgumentsDiffer, ToSet(Listed) \cap Arguments = {}, NEW p \in ToSet(Listed)
        PROVE  p \in Lacks[Main][ToSet(Listed) \ {p}]
    <3> DEFINE w == ToSet(Listed) \ {p}
    <3>1. PICK N \in Nat : \E rank \in [Models -> 1 .. N] : Ranked(rank)
      BY <2>1, RankExists
    <3>2. PICK rank \in [Models -> 1 .. N] : Ranked(rank)
      BY <3>1
    <3>3. w \in NameSets
      BY <2>3 DEF NameSets
    <3>4. Clear(Main, w, rank)
      BY <2>5 DEF Clear, Arguments
    <3>5. p \notin w /\ p \notin Arguments /\ p \in ToSet(FlatParams[Main])
      BY <2>5 DEF Listed
    <3> HIDE DEF w
    <3>6. p \in Lacks[Main][w]
      BY <2>1, <2>5, <3>2, <3>3, <3>4, <3>5, ListedAreLacked
    <3>. QED  BY <3>6 DEF w
  <2>. QED  BY <2>2, <2>4, <2>5 DEF Listed
<1>. QED  BY <1>1, <1>2, <1>3, PTL DEF FlattenSpec

-----------------------------------------------------------------------------
(* _move_pydantic_refs() *)

Originals == [value : Items, refs : Contents, lists : Contents]
Results == [value : Items, lists : Contents, ok : BOOLEAN]

\* How items are made and taken apart
LEMMA ItemsAre ==
    /\ \A n \in OrNothing : Ref(n) \in Items /\ Ref(n).copies = <<>> /\ Ref(n).ref = n
    /\ \A n \in Defs, v \in Items : Object(n, v) \in Items /\ Object(n, v).ref = v.ref
    /\ \A v \in Items : v.ref \in OrNothing /\ v.copies \in Seq(Defs)
<1>1. \A n \in OrNothing : Ref(n) \in Items /\ Ref(n).copies = <<>> /\ Ref(n).ref = n
  BY DEF Ref, Items
<1>2. \A n \in Defs, v \in Items : Object(n, v) \in Items /\ Object(n, v).ref = v.ref
  BY DEF Object, Items
<1>. QED  BY <1>1, <1>2 DEF Items

LEMMA ChildIs ==
    ASSUME NEW v \in Items, v.copies # <<>>
    PROVE  /\ Head(v.copies) \in Defs /\ Child(v) \in Items
           /\ Child(v).copies = Tail(v.copies) /\ Child(v).ref = v.ref
BY DEF Items, Child

Inner(f, k, o) == f[k - 1][Original(Child(o.value), o.refs, o.lists)]
InList(f, k, o) ==
    f[k - 1][Original(Inner(f, k, o).lists[Head(o.value.copies)], o.refs, Inner(f, k, o).lists)]

\* What Move makes of o at a depth when it makes f of it at others
MoveOf(f, k, o) ==
    IF k = 0 THEN Moved(o.value, o.lists, FALSE)
    ELSE IF o.value = Ref(Nothing) THEN Moved(o.value, o.lists, TRUE)
    ELSE IF o.value.copies = <<>> THEN Moved(o.refs[o.value.ref], o.lists, TRUE)
    ELSE IF ~Inner(f, k, o).ok THEN Inner(f, k, o)
    ELSE Moved(Object(Head(o.value.copies), Inner(f, k, o).value),
               [InList(f, k, o).lists EXCEPT ![Head(o.value.copies)] = InList(f, k, o).value],
               InList(f, k, o).ok)

\* What it is asked in turn is original, too.
LEMMA InnerIs ==
    ASSUME NEW k \in 1 .. MaxDepth, NEW f, f[k - 1] \in [Originals -> Results],
           NEW o \in Originals, o.value.copies # <<>>
    PROVE  /\ Original(Child(o.value), o.refs, o.lists) \in Originals
           /\ Inner(f, k, o) \in Results
           /\ Original(Inner(f, k, o).lists[Head(o.value.copies)], o.refs, Inner(f, k, o).lists)
                  \in Originals
           /\ InList(f, k, o) \in Results
<1>1. o.value \in Items /\ o.refs \in Contents /\ o.lists \in Contents
  BY DEF Originals
<1>2. Child(o.value) \in Items /\ Head(o.value.copies) \in Defs
  BY <1>1, ChildIs
<1>3. Original(Child(o.value), o.refs, o.lists) \in Originals
  BY <1>1, <1>2 DEF Original, Originals
<1>4. Inner(f, k, o) \in Results
  BY <1>3 DEF Inner
<1>5. Inner(f, k, o).lists \in Contents
  BY <1>4 DEF Results
<1>6. Inner(f, k, o).lists[Head(o.value.copies)] \in Items
  BY <1>2, <1>5 DEF Contents
<1>7. Original(Inner(f, k, o).lists[Head(o.value.copies)], o.refs, Inner(f, k, o).lists)
          \in Originals
  BY <1>1, <1>5, <1>6 DEF Original, Originals
<1>. QED  BY <1>3, <1>4, <1>7 DEF InList

LEMMA MoveOfType ==
    ASSUME NEW k \in 0 .. MaxDepth, NEW f, k # 0 => f[k - 1] \in [Originals -> Results],
           NEW o \in Originals
    PROVE  MoveOf(f, k, o) \in Results
<1>1. o.value \in Items /\ o.refs \in Contents /\ o.lists \in Contents
  BY DEF Originals
<1>2. CASE k = 0
  BY <1>1, <1>2 DEF MoveOf, Moved, Results
<1>3. CASE k # 0 /\ o.value = Ref(Nothing)
  BY <1>1, <1>3 DEF MoveOf, Moved, Results
<1>4. CASE k # 0 /\ o.value # Ref(Nothing) /\ o.value.copies = <<>>
  <2>1. o.value.ref \in OrNothing /\ o.value = Ref(o.value.ref)
    BY <1>1, <1>4 DEF Items, Ref
  <2>2. o.value.ref \in Defs
    BY <1>4, <2>1 DEF OrNothing
  <2>3. o.refs[o.value.ref] \in Items
    BY <1>1, <2>2 DEF Contents
  <2>. QED  BY <1>1, <1>4, <2>3 DEF MoveOf, Moved, Results
<1>5. CASE k # 0 /\ o.value # Ref(Nothing) /\ o.value.copies # <<>>
  <2> DEFINE n == Head(o.value.copies)
             own == Inner(f, k, o)
             item == InList(f, k, o)
  <2>1. n \in Defs
    BY <1>1, <1>5, ChildIs
  <2>2. own \in Results /\ item \in Results
    <3>1. k \in 1 .. MaxDepth
      BY <1>5
    <3>2. f[k - 1] \in [Originals -> Results]
      BY <1>5
    <3>. QED  BY <1>5, <3>1, <3>2, InnerIs
  <2> HIDE DEF n, own, item
  <2>3. Object(n, own.value) \in Items
    BY <2>1, <2>2, ItemsAre DEF Results
  <2>4. [item.lists EXCEPT ![n] = item.value] \in Contents
    BY <2>1, <2>2 DEF Results, Contents
  <2>5. Moved(Object(n, own.value), [item.lists EXCEPT ![n] = item.value], item.ok) \in Results
    BY <2>2, <2>3, <2>4 DEF Moved, Results
  <2>6. MoveOf(f, k, o) = IF ~own.ok THEN own
            ELSE Moved(Object(n, own.value), [item.lists EXCEPT ![n] = item.value], item.ok)
    BY <1>5 DEF MoveOf, n, own, item
  <2>. QED  BY <2>2, <2>5, <2>6
<1>. QED  BY <1>2, <1>3, <1>4, <1>5

\* Move is what it is written as, and has a result for all it is asked.
LEMMA MoveMeans ==
    ASSUME NEW k \in 0 .. MaxDepth
    PROVE  /\ Move[k] \in [Originals -> Results]
           /\ \A o \in Originals : Move[k][o] = MoveOf(Move, k, o)
<1> DEFINE S == 0 .. MaxDepth
           N == MaxDepth + 1
           rank == [j \in S |-> j + 1]
           Val == [Originals -> Results]
           step == [j \in S |-> [f \in [S -> Val] |-> [o \in Originals |-> MoveOf(f, j, o)]]]
           Body(f) == [j \in S |-> [o \in Originals |-> MoveOf(f, j, o)]]
           g == CHOOSE f : f = Body(f)
<1>1. MaxDepth \in Nat
  BY SchemaAssumption
<1>2. N \in Nat /\ rank \in [S -> 1 .. N] /\ \A j \in S : rank[j] = j + 1
  BY <1>1
<1>3. \A j \in S : j # 0 => j - 1 \in S /\ j \in 1 .. MaxDepth
  BY <1>1
<1>4. \A f \in [S -> Val], j \in S, o \in Originals : MoveOf(f, j, o) \in Results
  BY <1>3, MoveOfType
<1>5. [o \in Originals |-> Moved(o.value, o.lists, FALSE)] \in Val
  BY DEF Originals, Results, Moved
<1>6. \A j \in S, f \in [S -> Val] : step[j][f] = [o \in Originals |-> MoveOf(f, j, o)]
  OBVIOUS
<1>7. step \in [S -> [[S -> Val] -> Val]]
  BY <1>4
<1>8. Move = g
  BY DEF Move, MoveOf, Inner, InList, Originals
<1> HIDE DEF step, rank, Val
<1>9. LooksBelow(S, rank, Val, step)
  <2>1. ASSUME NEW j \in S, NEW f \in [S -> Val], NEW h \in [S -> Val],
               \A i \in S : rank[i] < rank[j] => f[i] = h[i]
        PROVE  step[j][f] = step[j][h]
    <3>1. j # 0 => f[j - 1] = h[j - 1]
      BY <1>1, <1>2, <1>3, <2>1
    <3>2. \A o \in Originals : MoveOf(f, j, o) = MoveOf(h, j, o)
      <4>1. CASE j = 0
        BY <4>1 DEF MoveOf
      <4>2. CASE j # 0
        <5> SUFFICES ASSUME NEW o \in Originals PROVE MoveOf(f, j, o) = MoveOf(h, j, o)
          OBVIOUS
        <5>1. Inner(f, j, o) = Inner(h, j, o)
          BY <3>1, <4>2 DEF Inner
        <5>2. InList(f, j, o) = InList(h, j, o)
          BY <3>1, <4>2, <5>1 DEF InList
        <5>. QED  BY <5>1, <5>2 DEF MoveOf
      <4>. QED  BY <4>1, <4>2
    <3>3. /\ step[j][f] = [o \in Originals |-> MoveOf(f, j, o)]
          /\ step[j][h] = [o \in Originals |-> MoveOf(h, j, o)]
      BY <1>6
    <3>. QED  BY <3>2, <3>3
  <2>. QED  BY <2>1 DEF LooksBelow
<1>10. PICK h \in [S -> Val] : \A j \in S : h[j] = step[j][h]
  <2>1. GoesByRank(S, N, rank, Val, step)
    BY <1>2, <1>5, <1>7, <1>9 DEF GoesByRank
  <2>2. \E h : HasValues(h, S, Val, step)
    BY <2>1, RankedExists
  <2>. QED  BY <2>2 DEF HasValues
<1>11. h = Body(h)
  <2>1. \A j \in S : h[j] = [o \in Originals |-> MoveOf(h, j, o)]
    BY <1>6, <1>10
  <2> HIDE DEF S
  <2>. QED  BY <1>10, <2>1
<1>12. g = Body(g)
  BY <1>11
<1> HIDE DEF g
<1>13. \A j \in S : g[j] = [o \in Originals |-> MoveOf(g, j, o)]
  BY <1>12
<1> DEFINE T == {j \in S : g[j] \in Val}
<1>14. ASSUME NEW j \in S, \A i \in S : rank[i] < rank[j] => i \in T PROVE j \in T
  <2>1. j # 0 => g[j - 1] \in [Originals -> Results]
    <3> SUFFICES ASSUME j # 0 PROVE g[j - 1] \in Val
      BY DEF Val
    <3>1. j - 1 \in S /\ rank[j - 1] < rank[j]
      BY <1>1, <1>2, <1>3
    <3>. QED  BY <1>14, <3>1
  <2>2. ASSUME NEW o \in Originals PROVE MoveOf(g, j, o) \in Results
    BY <2>1, MoveOfType
  <2>3. g[j] = [o \in Originals |-> MoveOf(g, j, o)]
    BY <1>13
  <2>4. g[j] \in Val
    BY <2>2, <2>3 DEF Val
  <2>. QED  BY <2>4
<1> HIDE DEF T
<1>15. \A j \in S : j \in T
  <2> HIDE DEF S, N
  <2>1. N \in Nat /\ rank \in [S -> 1 .. N]
    BY <1>2
  <2>. QED  BY <1>14, <2>1, ByRank
<1>16. g[k] \in Val
  BY <1>15 DEF T
<1>. QED  BY <1>8, <1>13, <1>16 DEF Val

\* What holds of refers once there is a request
RefersOK == refers \in [Defs -> [inDict : OrNothing, inList : OrNothing]]

\* v is what x stands for, with some of its references replaced.
StandsFor(v, x) ==
    LET c == v.copies
    IN  /\ c = <<>> => v.ref = x
        /\ c # <<>> => c[1] = x /\ v.ref = refers[c[Len(c)]].inDict
        /\ \A i \in 1 .. Len(c) - 1 : c[i + 1] = refers[c[i]].inDict

\* So does what is in its dictionary.
LEMMA ChildStands ==
    ASSUME NEW v \in Items, NEW x, StandsFor(v, x), v.copies # <<>>
    PROVE  x \in Defs /\ Head(v.copies) = x /\ StandsFor(Child(v), refers[x].inDict)
<1> DEFINE c == v.copies
           t == Tail(c)
<1>1. c \in Seq(Defs) /\ c # <<>>
  BY DEF Items
<1>2. Child(v).copies = t /\ Child(v).ref = v.ref
  BY ChildIs
<1>3. /\ c[1] = x /\ v.ref = refers[c[Len(c)]].inDict
      /\ \A i \in 1 .. Len(c) - 1 : c[i + 1] = refers[c[i]].inDict
  BY DEF StandsFor
<1> HIDE DEF c
<1>4. /\ Len(c) \in Nat /\ Len(c) >= 1 /\ Head(c) = c[1] /\ c[1] \in Defs
      /\ Len(t) = Len(c) - 1 /\ \A i \in 1 .. Len(t) : t[i] = c[i + 1]
  BY <1>1
<1>5. t = <<>> => Len(c) = 1
  BY <1>1, <1>4
<1>6. t # <<>> => Len(t) >= 1
  BY <1>1, <1>4
<1> HIDE DEF t
<1>7. CASE t = <<>>
  <2>1. Len(t) = 0 /\ Len(c) = 1
    BY <1>4, <1>5, <1>7
  <2>2. 1 .. Len(t) - 1 = {}
    BY <2>1
  <2>3. v.ref = refers[x].inDict
    BY <1>3, <2>1
  <2>4. StandsFor(Child(v), refers[x].inDict)
    BY <1>2, <1>7, <2>2, <2>3 DEF StandsFor
  <2>. QED  BY <1>1, <1>3, <1>4, <2>4 DEF c
<1>8. CASE t # <<>>
  <2>1. /\ Len(t) \in 1 .. Len(t) /\ 1 \in 1 .. Len(t) /\ Len(t) + 1 = Len(c)
        /\ 1 \in 1 .. Len(c) - 1
    BY <1>4, <1>6, <1>8
  <2>2. t[1] = refers[x].inDict /\ t[Len(t)] = c[Len(c)]
    BY <1>3, <1>4, <2>1
  <2>3. \A i \in 1 .. Len(t) - 1 : t[i + 1] = refers[t[i]].inDict
    <3>1. \A i \in 1 .. Len(t) - 1 : /\ i \in 1 .. Len(t) /\ i + 1 \in 1 .. Len(t)
                                    /\ i + 1 \in 1 .. Len(c) - 1
      BY <1>4
    <3>. QED  BY <1>3, <1>4, <3>1
  <2>. QED  BY <1>2, <1>3, <1>4, <1>8, <2>2, <2>3 DEF StandsFor, c
<1>. QED  BY <1>7, <1>8

\* A copy of n, with what stands for its reference, stands for n.
LEMMA ObjectStands ==
    ASSUME NEW n \in Defs, NEW v \in Items, StandsFor(v, refers[n].inDict)
    PROVE  StandsFor(Object(n, v), n)
<1> DEFINE c == v.copies
           o == Object(n, v).copies
<1>1. c \in Seq(Defs) /\ o = <<n>> \o c /\ Object(n, v).ref = v.ref
  BY DEF Items, Object
<1>2. /\ c = <<>> => v.ref = refers[n].inDict
      /\ c # <<>> => c[1] = refers[n].inDict /\ v.ref = refers[c[Len(c)]].inDict
      /\ \A i \in 1 .. Len(c) - 1 : c[i + 1] = refers[c[i]].inDict
  BY DEF StandsFor
<1> HIDE DEF c, o
<1>3. /\ Len(c) \in Nat /\ Len(o) = Len(c) + 1 /\ o[1] = n /\ o # <<>>
      /\ \A i \in 1 .. Len(c) : o[i + 1] = c[i]
      /\ c # <<>> => Len(c) >= 1
  BY <1>1
<1>4. v.ref = refers[o[Len(o)]].inDict
  <2>1. CASE c = <<>>
    <3>1. Len(o) = 1
      BY <1>3, <2>1
    <3>. QED  BY <1>2, <1>3, <2>1, <3>1
  <2>2. CASE c # <<>>
    <3>1. Len(c) \in 1 .. Len(c)
      BY <1>3, <2>2
    <3>. QED  BY <1>2, <1>3, <2>2, <3>1
  <2>. QED  BY <2>1, <2>2
<1>5. ASSUME NEW i \in 1 .. Len(o) - 1 PROVE o[i + 1] = refers[o[i]].inDict
  <2>1. i \in 1 .. Len(c) /\ c # <<>>
    BY <1>3, <1>1
  <2>2. CASE i = 1
    BY <1>2, <1>3, <2>1, <2>2
  <2>3. CASE i # 1
    <3>1. i - 1 \in 1 .. Len(c) - 1 /\ (i - 1) + 1 = i /\ i - 1 \in 1 .. Len(c)
      BY <1>3, <2>1, <2>3
    <3>2. c[i] = refers[c[i - 1]].inDict
      BY <1>2, <3>1
    <3>3. o[i + 1] = c[i] /\ o[i] = c[i - 1]
      BY <1>3, <2>1, <3>1
    <3>. QED  BY <3>2, <3>3
  <2>. QED  BY <2>2, <2>3
<1>. QED  BY <1>1, <1>3, <1>4, <1>5 DEF StandsFor, o

Stand(refs, lists) ==
    \A n \in Defs : StandsFor(refs[n], n) /\ StandsFor(lists[n], refers[n].inList)

\* How deep it is below x at most
Height(rank, x) == IF x = Nothing THEN 0 ELSE rank[x]

Heights(rank) ==
    /\ rank \in [Defs -> 1 .. Cardinality(Defs)]
    /\ \A n \in Defs : \A m \in {refers[n].inDict, refers[n].inList} \ {Nothing} : rank[m] < rank[n]

\* It ends, unless it is deeper than Python recurses, and what it makes stands for the same.
LEMMA MoveEnds ==
    ASSUME RefersOK, NEW rank, Heights(rank), NEW k \in 0 .. MaxDepth,
           NEW o \in Originals, NEW x \in OrNothing,
           Stand(o.refs, o.lists), StandsFor(o.value, x), Height(rank, x) < k
    PROVE  /\ Move[k][o].ok /\ StandsFor(Move[k][o].value, x)
           /\ Stand(o.refs, Move[k][o].lists)
<1> DEFINE Ends(j, p, y) ==
               /\ Move[j][p].ok /\ StandsFor(Move[j][p].value, y)
               /\ Stand(p.refs, Move[j][p].lists)
           T == {j \in 0 .. MaxDepth : \A p \in Originals, y \in OrNothing :
                    Stand(p.refs, p.lists) /\ StandsFor(p.value, y) /\ Height(rank, y) < j
                        => Ends(j, p, y)}
<1>1. MaxDepth \in Nat /\ Nothing \notin Defs
  BY SchemaAssumption
<1>2. \A y \in OrNothing : Height(rank, y) \in Nat
  BY DEF Heights, Height, OrNothing
<1>3. 0 \in T
  <2>1. \A y \in OrNothing : ~(Height(rank, y) < 0)
    BY <1>2
  <2>. QED  BY <1>1, <2>1
<1>4. ASSUME NEW j \in 0 .. MaxDepth - 1, j \in T PROVE j + 1 \in T
  <2> SUFFICES ASSUME NEW p \in Originals, NEW y \in OrNothing, Stand(p.refs, p.lists),
                      StandsFor(p.value, y), Height(rank, y) < j + 1
               PROVE  Ends(j + 1, p, y)
    BY <1>1
  <2>1. /\ j + 1 \in 0 .. MaxDepth /\ j + 1 # 0 /\ (j + 1) - 1 = j
        /\ j + 1 \in 1 .. MaxDepth /\ j \in 0 .. MaxDepth
    BY <1>1
  <2>2. Move[j + 1][p] = MoveOf(Move, j + 1, p)
    BY <2>1, MoveMeans
  <2>3. Move[j] \in [Originals -> Results]
    BY <2>1, MoveMeans
  <2>4. p.value \in Items /\ p.refs \in Contents /\ p.lists \in Contents
    BY DEF Originals
  <2>5. CASE p.value = Ref(Nothing)
    <3>1. Move[j + 1][p] = Moved(p.value, p.lists, TRUE)
      BY <2>1, <2>2, <2>5 DEF MoveOf
    <3>. QED  BY <3>1 DEF Moved
  <2>6. CASE p.value # Ref(Nothing) /\ p.value.copies = <<>>
    <3>1. Move[j + 1][p] = Moved(p.refs[p.value.ref], p.lists, TRUE)
      BY <2>1, <2>2, <2>6 DEF MoveOf
    <3>2. p.value.ref = y
      BY <2>6 DEF StandsFor
    <3>3. y \in Defs
      <4>1. p.value = Ref(p.value.ref)
        BY <2>4, <2>6 DEF Items, Ref
      <4>. QED  BY <2>6, <3>2, <4>1 DEF OrNothing
    <3>4. StandsFor(p.refs[y], y)
      BY <3>3 DEF Stand
    <3>. QED  BY <3>1, <3>2, <3>4 DEF Moved
  <2>7. CASE p.value # Ref(Nothing) /\ p.value.copies # <<>>
    <3> DEFINE p1 == Original(Child(p.value), p.refs, p.lists)
               own == Inner(Move, j + 1, p)
               p2 == Original(own.lists[y], p.refs, own.lists)
               item == InList(Move, j + 1, p)
    <3>1. y \in Defs /\ Head(p.value.copies) = y /\ StandsFor(Child(p.value), refers[y].inDict)
      BY <2>4, <2>7, ChildStands
    <3>2. /\ p1 \in Originals /\ own \in Results /\ p2 \in Originals /\ item \in Results
          /\ own = Move[j][p1] /\ item = Move[j][p2]
      BY <2>1, <2>3, <2>7, <3>1, InnerIs DEF Inner, InList
    <3>3. /\ refers[y].inDict \in OrNothing /\ refers[y].inList \in OrNothing
          /\ Height(rank, refers[y].inDict) < j /\ Height(rank, refers[y].inList) < j
      <4>1. refers[y].inDict \in OrNothing /\ refers[y].inList \in OrNothing
        BY <3>1 DEF RefersOK
      <4>2. Height(rank, y) = rank[y] /\ rank[y] \in Nat /\ rank[y] >= 1
        BY <1>1, <3>1 DEF Height, Heights
      <4>3. \A m \in {refers[y].inDict, refers[y].inList} : Height(rank, m) < rank[y]
        BY <3>1, <4>2 DEF Height, Heights
      <4>4. \A m \in {refers[y].inDict, refers[y].inList} : Height(rank, m) \in Nat
        BY <1>2, <4>1
      <4>. QED  BY <4>1, <4>2, <4>3, <4>4
    <3>4. p1.value = Child(p.value) /\ p1.refs = p.refs /\ p1.lists = p.lists
      BY DEF Original
    <3>5. own.ok /\ StandsFor(own.value, refers[y].inDict) /\ Stand(p.refs, own.lists)
      BY <1>4, <3>1, <3>2, <3>3, <3>4
    <3>6. p2.value = own.lists[y] /\ p2.refs = p.refs /\ p2.lists = own.lists
      BY DEF Original
    <3> HIDE DEF own, item, p1, p2
    <3>7. StandsFor(own.lists[y], refers[y].inList)
      BY <3>1, <3>5 DEF Stand
    <3>8. item.ok /\ StandsFor(item.value, refers[y].inList) /\ Stand(p.refs, item.lists)
      BY <1>4, <3>2, <3>3, <3>5, <3>6, <3>7
    <3> DEFINE lists == [item.lists EXCEPT ![y] = item.value]
    <3>9. Move[j + 1][p] = Moved(Object(y, own.value), lists, item.ok)
      BY <2>1, <2>2, <2>7, <3>1, <3>5 DEF MoveOf, own, item
    <3>10. StandsFor(Object(y, own.value), y)
      <4>1. own.value \in Items
        BY <3>2 DEF Results
      <4>. QED  BY <3>1, <3>5, <4>1, ObjectStands
    <3>11. Stand(p.refs, lists)
      <4>1. item.lists \in Contents
        BY <3>2 DEF Results
      <4>2. \A n \in Defs : lists[n] = IF n = y THEN item.value ELSE item.lists[n]
        BY <4>1 DEF Contents
      <4> HIDE DEF lists
      <4>. QED  BY <3>8, <4>2 DEF Stand
    <3> HIDE DEF lists
    <3>. QED  BY <3>8, <3>9, <3>10, <3>11 DEF Moved
  <2>. QED  BY <2>5, <2>6, <2>7
<1> HIDE DEF T
<1>5. \A j \in 0 .. MaxDepth : j \in T
  BY <1>1, <1>3, <1>4, Induction
<1>6. k \in T
  BY <1>5
<1>. QED  BY <1>6 DEF T

\* References that are replaced leave none: where no definition in refs has one, what is
\* made has none, and in the lists there is none where there was none, or where the list
\* is that of a definition it copies.
Clean(contents) == {n \in Defs : contents[n].ref = Nothing}

LEMMA MoveCleans ==
    ASSUME NEW k \in 0 .. MaxDepth, NEW o \in Originals, Clean(o.refs) = Defs, Move[k][o].ok
    PROVE  /\ Move[k][o].value.ref = Nothing
           /\ Clean(o.lists) \subseteq Clean(Move[k][o].lists)
           /\ o.value.copies # <<>> => Head(o.value.copies) \in Clean(Move[k][o].lists)
<1> DEFINE Cleans(j, p) ==
               /\ Move[j][p].value.ref = Nothing
               /\ Clean(p.lists) \subseteq Clean(Move[j][p].lists)
               /\ p.value.copies # <<>> => Head(p.value.copies) \in Clean(Move[j][p].lists)
           T == {j \in 0 .. MaxDepth : \A p \in Originals :
                    Clean(p.refs) = Defs /\ Move[j][p].ok => Cleans(j, p)}
<1>1. MaxDepth \in Nat
  BY SchemaAssumption
<1> HIDE DEF Cleans
<1>2. 0 \in T
  <2>1. \A p \in Originals : Move[0][p] = MoveOf(Move, 0, p)
    BY <1>1, MoveMeans
  <2>2. \A p \in Originals : MoveOf(Move, 0, p) = Moved(p.value, p.lists, FALSE)
    BY DEF MoveOf
  <2>3. \A p \in Originals : ~Move[0][p].ok
    BY <2>1, <2>2 DEF Moved
  <2>4. 0 \in 0 .. MaxDepth
    BY <1>1
  <2>. QED  BY <2>3, <2>4
<1>3. ASSUME NEW j \in 0 .. MaxDepth - 1, j \in T PROVE j + 1 \in T
  <2> SUFFICES ASSUME NEW p \in Originals, Clean(p.refs) = Defs, Move[j + 1][p].ok
               PROVE  Cleans(j + 1, p)
    <3>1. j + 1 \in 0 .. MaxDepth
      BY <1>1
    <3>. QED  BY <3>1
  <2>1. /\ j + 1 \in 0 .. MaxDepth /\ j + 1 # 0 /\ (j + 1) - 1 = j
        /\ j + 1 \in 1 .. MaxDepth /\ j \in 0 .. MaxDepth
    BY <1>1
  <2>2. Move[j + 1][p] = MoveOf(Move, j + 1, p)
    BY <2>1, MoveMeans
  <2>3. Move[j] \in [Originals -> Results]
    BY <2>1, MoveMeans
  <2>4. p.value \in Items /\ p.refs \in Contents /\ p.lists \in Contents
    BY DEF Originals
  <2>5. CASE p.value = Ref(Nothing)
    <3>1. Move[j + 1][p] = Moved(p.value, p.lists, TRUE)
      BY <2>1, <2>2, <2>5 DEF MoveOf
    <3>2. p.value.copies = <<>> /\ p.value.ref = Nothing
      BY <2>5 DEF Ref
    <3>. QED  BY <3>1, <3>2 DEF Moved, Cleans
  <2>6. CASE p.value # Ref(Nothing) /\ p.value.copies = <<>>
    <3>1. Move[j + 1][p] = Moved(p.refs[p.value.ref], p.lists, TRUE)
      BY <2>1, <2>2, <2>6 DEF MoveOf
    <3>2. p.value = Ref(p.value.ref) /\ p.value.ref \in OrNothing
      BY <2>4, <2>6 DEF Items, Ref
    <3>3. p.value.ref \in Defs
      BY <2>6, <3>2 DEF OrNothing
    <3>4. p.refs[p.value.ref].ref = Nothing
      BY <3>3 DEF Clean
    <3>. QED  BY <2>6, <3>1, <3>4 DEF Moved, Cleans
  <2>7. CASE p.value # Ref(Nothing) /\ p.value.copies # <<>>
    <3> DEFINE n == Head(p.value.copies)
               p1 == Original(Child(p.value), p.refs, p.lists)
               own == Inner(Move, j + 1, p)
               p2 == Original(own.lists[n], p.refs, own.lists)
               item == InList(Move, j + 1, p)
    <3>1. n \in Defs
      BY <2>4, <2>7, ChildIs
    <3>2. /\ p1 \in Originals /\ own \in Results /\ p2 \in Originals /\ item \in Results
          /\ own = Move[j][p1] /\ item = Move[j][p2]
      BY <2>1, <2>3, <2>7, InnerIs DEF Inner, InList
    <3>3. p1.refs = p.refs /\ p1.lists = p.lists /\ p2.refs = p.refs /\ p2.lists = own.lists
      BY DEF Original
    <3> DEFINE lists == [item.lists EXCEPT ![n] = item.value]
    <3>4. Move[j + 1][p] = IF ~own.ok THEN own ELSE Moved(Object(n, own.value), lists, item.ok)
      BY <2>1, <2>2, <2>7 DEF MoveOf
    <3> HIDE DEF n, own, item, p1, p2, lists, T
    <3>5. own.ok /\ item.ok /\ Move[j + 1][p] = Moved(Object(n, own.value), lists, item.ok)
      BY <3>4 DEF Moved
    <3>6. \A q \in Originals : Clean(q.refs) = Defs /\ Move[j][q].ok => Cleans(j, q)
      BY <1>3 DEF T
    <3>7. own.value.ref = Nothing /\ Clean(p.lists) \subseteq Clean(own.lists)
      BY <3>2, <3>3, <3>5, <3>6 DEF Cleans
    <3>8. item.value.ref = Nothing /\ Clean(own.lists) \subseteq Clean(item.lists)
      BY <3>2, <3>3, <3>5, <3>6 DEF Cleans
    <3>9. Clean(lists) = Clean(item.lists) \cup {n}
      <4>1. item.lists \in Contents
        BY <3>2 DEF Results
      <4>2. \A m \in Defs : lists[m] = IF m = n THEN item.value ELSE item.lists[m]
        BY <4>1 DEF Contents, lists
      <4>. QED  BY <3>1, <3>8, <4>2 DEF Clean
    <3>10. Object(n, own.value).ref = Nothing
      <4>1. own.value \in Items
        BY <3>2 DEF Results
      <4>. QED  BY <3>1, <3>7, <4>1, ItemsAre
    <3>11. /\ Move[j + 1][p].value = Object(n, own.value)
           /\ Move[j + 1][p].lists = lists
      BY <3>5 DEF Moved
    <3>. QED  BY <3>7, <3>8, <3>9, <3>10, <3>11 DEF n, Cleans
  <2>. QED  BY <2>5, <2>6, <2>7
<1> HIDE DEF T
<1>4. \A j \in 0 .. MaxDepth : j \in T
  BY <1>1, <1>2, <1>3, Induction
<1>5. k \in T
  BY <1>4
<1>. QED  BY <1>5 DEF T, Cleans

\* What is left of $defs after the next definition
OneMore(refs, st, n) ==
    LET moved == Move[MaxDepth][Original(Raw[n], refs, st.lists)]
    IN  IF ~st.ok THEN st
        ELSE [refs |-> [st.refs EXCEPT ![n] = moved.value], lists |-> moved.lists, ok |-> moved.ok]

Passed == [refs : Contents, lists : Contents, ok : BOOLEAN]

Passing(f, refs, lists) ==
    /\ f[0] = [refs |-> Raw, lists |-> lists, ok |-> TRUE]
    /\ \A k \in 1 .. Len(Definitions) : f[k] = OneMore(refs, f[k - 1], Definitions[k])

\* A copy of n that refers to x
LEMMA CopyIs ==
    ASSUME NEW n \in Defs, NEW x \in OrNothing
    PROVE  LET v == Object(n, Ref(x))
           IN  /\ v \in Items /\ v.ref = x
               /\ v.copies # <<>> /\ Head(v.copies) = n /\ Child(v) = Ref(x)
               /\ Len(v.copies) = 1 /\ v.copies[1] = n
<1> DEFINE c == <<n>>
<1>1. <<n>> \o <<>> = <<n>>
  OBVIOUS
<1>2. Object(n, Ref(x)) = [copies |-> c, ref |-> x]
  BY <1>1 DEF Object, Ref
<1>3. c \in Seq(Defs) /\ c # <<>> /\ Head(c) = n /\ Tail(c) = <<>> /\ Len(c) = 1 /\ c[1] = n
  OBVIOUS
<1> HIDE DEF c
<1> DEFINE v == [copies |-> c, ref |-> x]
<1>4. v \in Items /\ v.copies = c /\ v.ref = x
  BY <1>3 DEF Items
<1> HIDE DEF v
<1>5. Child(v) = Ref(x)
  <2>1. Child(v) \in Items /\ Child(v).copies = <<>> /\ Child(v).ref = x
    BY <1>3, <1>4, ChildIs
  <2>. QED  BY <2>1 DEF Items, Ref
<1>. QED  BY <1>2, <1>3, <1>4, <1>5 DEF v

LEMMA RawIs ==
    ASSUME RefersOK
    PROVE  /\ Raw \in Contents /\ RawLists \in Contents /\ Stand(Raw, RawLists)
           /\ \A n \in Defs : /\ Raw[n].copies # <<>> /\ Head(Raw[n].copies) = n
                                /\ Child(Raw[n]) = Ref(refers[n].inDict)
                                /\ Raw[n].ref = refers[n].inDict
<1>1. \A n \in Defs : refers[n].inDict \in OrNothing /\ refers[n].inList \in OrNothing
  BY DEF RefersOK
<1>2. \A n \in Defs : /\ Raw[n] \in Items /\ Raw[n].ref = refers[n].inDict
                       /\ Raw[n].copies # <<>> /\ Head(Raw[n].copies) = n
                       /\ Child(Raw[n]) = Ref(refers[n].inDict)
                       /\ Len(Raw[n].copies) = 1 /\ Raw[n].copies[1] = n
  <2>1. \A n \in Defs : Raw[n] = Object(n, Ref(refers[n].inDict))
    BY DEF Raw
  <2>. QED  BY <1>1, <2>1, CopyIs
<1>3. \A n \in Defs : /\ RawLists[n] \in Items /\ RawLists[n].copies = <<>>
                       /\ RawLists[n].ref = refers[n].inList
  <2>1. \A n \in Defs : RawLists[n] = Ref(refers[n].inList)
    BY DEF RawLists
  <2>. QED  BY <1>1, <2>1, ItemsAre
<1>4. Raw \in Contents
  BY <1>2 DEF Raw, Contents
<1>5. RawLists \in Contents
  BY <1>3 DEF RawLists, Contents
<1>6. Stand(Raw, RawLists)
  <2>1. ASSUME NEW n \in Defs PROVE StandsFor(Raw[n], n)
    <3> DEFINE c == Raw[n].copies
    <3>1. c # <<>> /\ Len(c) = 1 /\ c[1] = n /\ Raw[n].ref = refers[n].inDict
      BY <1>2
    <3> HIDE DEF c
    <3>2. 1 .. Len(c) - 1 = {} /\ c[Len(c)] = n
      BY <3>1
    <3>. QED  BY <3>1, <3>2 DEF StandsFor, c
  <2>2. ASSUME NEW n \in Defs PROVE StandsFor(RawLists[n], refers[n].inList)
    <3> DEFINE c == RawLists[n].copies
    <3>1. c = <<>> /\ RawLists[n].ref = refers[n].inList
      BY <1>3
    <3> HIDE DEF c
    <3>2. 1 .. Len(c) - 1 = {}
      BY <3>1
    <3>. QED  BY <3>1, <3>2 DEF StandsFor, c
  <2>. QED  BY <2>1, <2>2 DEF Stand
<1>. QED  BY <1>2, <1>4, <1>5, <1>6

\* How MoveAll goes through the definitions
LEMMA MoveAllSteps ==
    ASSUME RefersOK, NEW refs \in Contents, NEW lists \in Contents
    PROVE  /\ MoveAll(refs, lists) \in Passed
           /\ \E f \in [0 .. Len(Definitions) -> Passed] :
                 Passing(f, refs, lists) /\ MoveAll(refs, lists) = f[Len(Definitions)]
<1> DEFINE N == Len(Definitions)
           Acc == Passed
           base == [refs |-> Raw, lists |-> lists, ok |-> TRUE]
           step == [k \in 1 .. N |-> [a \in Acc |-> OneMore(refs, a, Definitions[k])]]
           Body(h) == [t \in SUBSET (1 .. N) |->
                          IF t = {} THEN base
                          ELSE OneMore(refs, h[t \ {Max(t)}], Definitions[Max(t)])]
           g == CHOOSE h : h = Body(h)
<1>1. DOMAIN Definitions = 1 .. N /\ N \in Nat
  BY SchemaAssumption
<1>2. MoveAll(refs, lists) = g[1 .. N]
  BY <1>1 DEF MoveAll, FoldLeft, MapThenFoldSet, OneMore
<1>3. \A k \in 1 .. N : Definitions[k] \in Defs
  BY <1>1 DEF Defs, ToSet
<1>4. base \in Acc
  BY RawIs DEF Passed
<1>5. ASSUME NEW a \in Acc, NEW n \in Defs PROVE OneMore(refs, a, n) \in Acc
  <2> DEFINE o == Original(Raw[n], refs, a.lists)
             moved == Move[MaxDepth][o]
  <2>1. o \in Originals
    BY RawIs DEF Passed, Original, Originals, Contents
  <2>2. moved \in Results
    <3>1. MaxDepth \in 0 .. MaxDepth
      BY SchemaAssumption
    <3> HIDE DEF o
    <3>. QED  BY <2>1, <3>1, MoveMeans
  <2> HIDE DEF moved
  <2>3. [a.refs EXCEPT ![n] = moved.value] \in Contents
    BY <2>2 DEF Passed, Results, Contents
  <2>4. [refs |-> [a.refs EXCEPT ![n] = moved.value], lists |-> moved.lists, ok |-> moved.ok]
            \in Passed
    BY <2>2, <2>3 DEF Passed, Results
  <2>. QED  BY <2>4 DEF OneMore, moved, o
<1> HIDE DEF N, Acc, base
<1>6. step \in [1 .. N -> [Acc -> Acc]]
  BY <1>3, <1>5
<1>7. \A k \in 1 .. N, a \in Acc : step[k][a] = OneMore(refs, a, Definitions[k])
  OBVIOUS
<1> HIDE DEF step
<1>8. \A t \in SUBSET (1 .. N) : t # {} => Max(t) \in 1 .. N /\ t \ {Max(t)} \in SUBSET (1 .. N)
  BY <1>1, MaxIn
<1>9. PICK h \in [SUBSET (1 .. N) -> Acc] : Folds(h, N, base, step)
  BY <1>1, <1>4, <1>6, FoldExists
<1>10. h = Body(h)
  <2>1. ASSUME NEW t \in SUBSET (1 .. N) PROVE h[t] = Body(h)[t]
    <3>1. CASE t = {}
      BY <1>9, <3>1 DEF Folds
    <3>2. CASE t # {}
      <4>1. Max(t) \in 1 .. N /\ t \ {Max(t)} \in SUBSET (1 .. N)
        BY <1>8, <3>2
      <4>2. h[t] = step[Max(t)][h[t \ {Max(t)}]] /\ h[t \ {Max(t)}] \in Acc
        BY <1>9, <3>2, <4>1 DEF Folds
      <4>. QED  BY <1>7, <3>2, <4>1, <4>2
    <3>. QED  BY <3>1, <3>2
  <2>. QED  BY <1>9, <2>1
<1>11. g = Body(g)
  BY <1>10
<1> HIDE DEF g
<1>12. Goes(g, N, Acc, base, step)
  <2>1. g[{}] = base
    BY <1>11
  <2>2. ASSUME NEW t \in SUBSET (1 .. N), t # {}, g[t \ {Max(t)}] \in Acc
        PROVE  g[t] = step[Max(t)][g[t \ {Max(t)}]]
    <3>1. g[t] = OneMore(refs, g[t \ {Max(t)}], Definitions[Max(t)])
      BY <1>11, <2>2
    <3>. QED  BY <1>7, <1>8, <2>2, <3>1
  <2>. QED  BY <2>1, <2>2 DEF Goes
<1>13. PICK f \in [0 .. N -> Acc] : Stages(f, N, base, step) /\ f[N] = g[1 .. N]
  <2>1. N \in Nat
    BY <1>1
  <2> HIDE DEF Body
  <2>. QED  BY <1>4, <1>6, <1>12, <2>1, FoldSteps
<1>14. Passing(f, refs, lists)
  <2>1. \A k \in 1 .. N : k - 1 \in 0 .. N
    BY <1>1
  <2>2. \A k \in 1 .. N : f[k] = OneMore(refs, f[k - 1], Definitions[k])
    BY <1>7, <1>13, <2>1 DEF Stages
  <2>. QED  BY <1>13, <2>2 DEF Stages, Passing, N, base
<1>15. f[N] \in Acc
  BY <1>1, <1>13
<1>. QED  BY <1>2, <1>13, <1>14, <1>15 DEF N, Acc

\* All definitions are gone through.
LEMMA DefsAre ==
    /\ MaxDepth \in Nat /\ Len(Definitions) \in Nat /\ Nothing \notin Defs
    /\ \A k \in 1 .. Len(Definitions) : Definitions[k] \in Defs
    /\ \A n \in Defs : \E k \in 1 .. Len(Definitions) : n = Definitions[k]
    /\ Cardinality(Defs) \in Nat /\ MaxDepth > Cardinality(Defs)
    /\ \A n \in Defs : MaxDepth > 1
<1>1. DOMAIN Definitions = 1 .. Len(Definitions) /\ Len(Definitions) \in Nat
  BY SchemaAssumption
<1>2. Defs = {Definitions[k] : k \in 1 .. Len(Definitions)}
  BY <1>1 DEF Defs, ToSet
<1>3. IsFiniteSet(Defs)
  <2>1. IsFiniteSet(1 .. Len(Definitions))
    BY <1>1, FS_Interval
  <2>2. Definitions \in [1 .. Len(Definitions) -> Defs]
    BY <1>1, <1>2, SchemaAssumption
  <2>3. \A n \in Defs : \E k \in 1 .. Len(Definitions) : Definitions[k] = n
    BY <1>2
  <2>4. Definitions \in Surjection(1 .. Len(Definitions), Defs)
    BY <2>2, <2>3 DEF Surjection
  <2>. QED  BY <2>1, <2>4, FS_Surjection
<1>4. Cardinality(Defs) \in Nat
  BY <1>3, FS_CardinalityType
<1>5. \A n \in Defs : Cardinality(Defs) # 0
  BY <1>3, FS_EmptySet
<1>6. \A k \in 1 .. Len(Definitions) : Definitions[k] \in Defs
  BY <1>2
<1>7. \A n \in Defs : \E k \in 1 .. Len(Definitions) : n = Definitions[k]
  BY <1>2
<1>8. MaxDepth \in Nat /\ MaxDepth > Cardinality(Defs) /\ Nothing \notin Defs
  BY SchemaAssumption
<1>. QED  BY <1>1, <1>4, <1>5, <1>6, <1>7, <1>8

\* They are gone through without running out of depth, unless one leads to itself.
LEMMA PassEnds ==
    ASSUME RefersOK, NEW rank, Heights(rank), NEW refs \in Contents, NEW lists \in Contents,
           Stand(refs, lists)
    PROVE  /\ MoveAll(refs, lists).ok
           /\ Stand(MoveAll(refs, lists).refs, MoveAll(refs, lists).lists)
<1> DEFINE N == Len(Definitions)
<1>1. PICK f \in [0 .. N -> Passed] : Passing(f, refs, lists) /\ MoveAll(refs, lists) = f[N]
  BY MoveAllSteps
<1>2. N \in Nat /\ \A k \in 1 .. N : Definitions[k] \in Defs
  BY DefsAre
<1> DEFINE T == {k \in 0 .. N : f[k].ok /\ Stand(f[k].refs, f[k].lists)}
<1>3. 0 \in T
  <2>1. f[0] = [refs |-> Raw, lists |-> lists, ok |-> TRUE]
    BY <1>1 DEF Passing
  <2>2. Stand(Raw, lists)
    BY RawIs DEF Stand
  <2>3. 0 \in 0 .. N
    BY <1>2
  <2>. QED  BY <2>1, <2>2, <2>3
<1>4. ASSUME NEW k \in 0 .. N - 1, k \in T PROVE k + 1 \in T
  <2> DEFINE n == Definitions[k + 1]
             o == Original(Raw[n], refs, f[k].lists)
             moved == Move[MaxDepth][o]
  <2>1. k + 1 \in 1 .. N /\ k + 1 \in 0 .. N /\ k \in 0 .. N /\ (k + 1) - 1 = k
    BY <1>2
  <2>2. f[k].ok /\ Stand(f[k].refs, f[k].lists) /\ f[k] \in Passed
    BY <1>1, <1>4, <2>1
  <2>3. n \in Defs
    BY <1>2, <2>1
  <2>4. f[k + 1] = OneMore(refs, f[k], n)
    BY <1>1, <2>1 DEF Passing
  <2>5. f[k + 1] = [refs |-> [f[k].refs EXCEPT ![n] = moved.value],
                    lists |-> moved.lists, ok |-> moved.ok]
    BY <2>2, <2>4 DEF OneMore
  <2>6. f[k].refs \in Contents /\ f[k].lists \in Contents
    BY <2>2 DEF Passed
  <2>7. o \in Originals /\ o.value = Raw[n] /\ o.refs = refs /\ o.lists = f[k].lists
    BY <2>3, <2>6, RawIs DEF Original, Originals, Contents
  <2>8. Stand(o.refs, o.lists) /\ StandsFor(o.value, n)
    BY <2>2, <2>3, <2>7, RawIs DEF Stand
  <2> HIDE DEF o, n
  <2>9. Height(rank, n) < MaxDepth
    <3>1. rank[n] \in 1 .. Cardinality(Defs) /\ n # Nothing
      BY <2>3, DefsAre DEF Heights
    <3>. QED  BY <3>1, DefsAre DEF Height
  <2>10. n \in OrNothing /\ MaxDepth \in 0 .. MaxDepth
    BY <2>3, DefsAre DEF OrNothing
  <2>11. moved.ok /\ StandsFor(moved.value, n) /\ Stand(refs, moved.lists)
    BY <2>7, <2>8, <2>9, <2>10, MoveEnds
  <2> HIDE DEF moved, T
  <2>12. \A m \in Defs : f[k + 1].refs[m] = IF m = n THEN moved.value ELSE f[k].refs[m]
    BY <2>5, <2>6 DEF Contents
  <2>13. f[k + 1].ok /\ f[k + 1].lists = moved.lists
    BY <2>5, <2>11
  <2>14. Stand(f[k + 1].refs, f[k + 1].lists)
    BY <2>2, <2>11, <2>12, <2>13 DEF Stand
  <2>. QED  BY <2>1, <2>13, <2>14 DEF T
<1> HIDE DEF T
<1>5. \A k \in 0 .. N : k \in T
  BY <1>2, <1>3, <1>4, Induction
<1>6. N \in T
  BY <1>2, <1>5
<1>. QED  BY <1>1, <1>6 DEF T

\* Where no dictionary refers to one that refers to a third, one pass replaces the references
\* in all of them.
LEMMA FirstMove ==
    ASSUME RefersOK, Shallow, NEW n \in Defs, NEW lists \in Contents,
           Move[MaxDepth][Original(Raw[n], Raw, lists)].ok
    PROVE  Move[MaxDepth][Original(Raw[n], Raw, lists)].value.ref = Nothing
<1> DEFINE o == Original(Raw[n], Raw, lists)
           x == refers[n].inDict
           p == Original(Ref(x), Raw, lists)
           own == Inner(Move, MaxDepth, o)
           item == InList(Move, MaxDepth, o)
<1>1. /\ MaxDepth \in 1 .. MaxDepth /\ MaxDepth \in 0 .. MaxDepth /\ MaxDepth # 0
      /\ MaxDepth - 1 \in 0 .. MaxDepth /\ MaxDepth - 1 # 0
  BY DefsAre
<1>2. Raw \in Contents /\ Raw[n] \in Items
  BY RawIs DEF Contents
<1>3. x \in OrNothing
  BY DEF RefersOK
<1>4. /\ o.value = Raw[n] /\ o.refs = Raw /\ o.lists = lists
      /\ p.value = Ref(x) /\ p.refs = Raw /\ p.lists = lists
  BY DEF Original
<1>5. o \in Originals /\ p \in Originals
  BY <1>2, <1>3, ItemsAre DEF Original, Originals
<1>6. o.value.copies # <<>> /\ Head(o.value.copies) = n /\ Child(o.value) = Ref(x)
  BY <1>4, RawIs
<1>7. own = Move[MaxDepth - 1][p]
  BY <1>4, <1>6 DEF Inner
<1> HIDE DEF o, p, own, item, x
<1>8. Move[MaxDepth][o] = IF ~own.ok THEN own
          ELSE Moved(Object(n, own.value), [item.lists EXCEPT ![n] = item.value], item.ok)
  <2>1. o.value # Ref(Nothing)
    BY <1>6 DEF Ref
  <2>2. Move[MaxDepth][o] = MoveOf(Move, MaxDepth, o)
    BY <1>1, <1>5, MoveMeans
  <2>. QED  BY <1>1, <1>6, <2>1, <2>2 DEF MoveOf, own, item
<1>9. own.value \in Items /\ own.value.ref = Nothing
  <2>1. own = MoveOf(Move, MaxDepth - 1, p) /\ own \in Results
    BY <1>1, <1>5, <1>7, MoveMeans
  <2>2. CASE x = Nothing
    <3>1. own = Moved(Ref(Nothing), lists, TRUE)
      BY <1>1, <1>4, <2>1, <2>2 DEF MoveOf
    <3>. QED  BY <2>1, <3>1 DEF Moved, Ref, Results
  <2>3. CASE x # Nothing
    <3>1. Ref(x) # Ref(Nothing) /\ Ref(x).copies = <<>> /\ Ref(x).ref = x
      BY <2>3 DEF Ref
    <3>2. own = Moved(Raw[x], lists, TRUE)
      BY <1>1, <1>4, <2>1, <3>1 DEF MoveOf
    <3>3. x \in Defs
      BY <1>3, <2>3 DEF OrNothing
    <3>4. Raw[x].ref = refers[x].inDict
      BY <3>3, RawIs
    <3>5. refers[x].inDict = Nothing
      BY <2>3 DEF Shallow, x
    <3>. QED  BY <2>1, <3>2, <3>4, <3>5 DEF Moved, Results
  <2>. QED  BY <2>2, <2>3
<1>10. Move[MaxDepth][o].value = Object(n, own.value)
  <2>1. own.ok
    BY <1>8 DEF o
  <2>. QED  BY <1>8, <2>1 DEF Moved
<1>. QED  BY <1>9, <1>10, ItemsAre DEF o

LEMMA PassCleansRefs ==
    ASSUME RefersOK, Shallow, NEW lists \in Contents, MoveAll(Raw, lists).ok
    PROVE  Clean(MoveAll(Raw, lists).refs) = Defs
<1> DEFINE N == Len(Definitions)
<1>1. PICK f \in [0 .. N -> Passed] : Passing(f, Raw, lists) /\ MoveAll(Raw, lists) = f[N]
  BY RawIs, MoveAllSteps
<1>2. /\ N \in Nat /\ \A k \in 1 .. N : Definitions[k] \in Defs
      /\ \A n \in Defs : \E k \in 1 .. N : n = Definitions[k]
  BY DefsAre
<1> DEFINE T == {k \in 0 .. N : f[k].ok => \A i \in 1 .. k : Definitions[i] \in Clean(f[k].refs)}
<1>3. 0 \in T
  <2>1. 0 \in 0 .. N /\ 1 .. 0 = {}
    BY <1>2
  <2>. QED  BY <2>1
<1>4. ASSUME NEW k \in 0 .. N - 1, k \in T PROVE k + 1 \in T
  <2> DEFINE n == Definitions[k + 1]
             moved == Move[MaxDepth][Original(Raw[n], Raw, f[k].lists)]
  <2>1. /\ k + 1 \in 1 .. N /\ k + 1 \in 0 .. N /\ k \in 0 .. N /\ (k + 1) - 1 = k
        /\ \A i \in 1 .. k + 1 : i = k + 1 \/ i \in 1 .. k
    BY <1>2
  <2>2. n \in Defs /\ f[k] \in Passed /\ f[k + 1] = OneMore(Raw, f[k], n)
    BY <1>1, <1>2, <2>1 DEF Passing
  <2>3. f[k].ok => f[k + 1] = [refs |-> [f[k].refs EXCEPT ![n] = moved.value],
                               lists |-> moved.lists, ok |-> moved.ok]
    BY <2>2 DEF OneMore
  <2>4. ~f[k].ok => f[k + 1] = f[k]
    BY <2>2 DEF OneMore
  <2>5. f[k].refs \in Contents /\ f[k].lists \in Contents
    BY <2>2 DEF Passed
  <2> SUFFICES ASSUME f[k + 1].ok, NEW i \in 1 .. k + 1
               PROVE  Definitions[i] \in Clean(f[k + 1].refs)
    BY <2>1
  <2>6. f[k].ok /\ \A j \in 1 .. k : Definitions[j] \in Clean(f[k].refs)
    BY <1>4, <2>4
  <2> HIDE DEF n, T
  <2>7. moved.ok /\ moved.value.ref = Nothing
    BY <2>2, <2>3, <2>5, <2>6, FirstMove
  <2>8. \A m \in Defs : f[k + 1].refs[m] = IF m = n THEN moved.value ELSE f[k].refs[m]
    BY <2>3, <2>5, <2>6 DEF Contents
  <2> HIDE DEF moved
  <2>9. \A m \in Defs : m = n \/ m \in Clean(f[k].refs) => m \in Clean(f[k + 1].refs)
    BY <2>7, <2>8 DEF Clean
  <2>10. Definitions[i] = n \/ Definitions[i] \in Clean(f[k].refs)
    BY <2>1, <2>6 DEF n
  <2>11. Definitions[i] \in Defs
    BY <2>2, <2>10 DEF Clean
  <2>. QED  BY <2>9, <2>10, <2>11
<1> HIDE DEF T
<1>5. \A k \in 0 .. N : k \in T
  BY <1>2, <1>3, <1>4, Induction
<1>6. \A i \in 1 .. N : Definitions[i] \in Clean(f[N].refs)
  BY <1>1, <1>2, <1>5 DEF T
<1>. QED  BY <1>1, <1>2, <1>6 DEF Clean

\* With definitions that have no references, one pass replaces those in all lists.
LEMMA PassCleansLists ==
    ASSUME RefersOK, NEW refs \in Contents, Clean(refs) = Defs, NEW lists \in Contents,
           MoveAll(refs, lists).ok
    PROVE  Clean(MoveAll(refs, lists).lists) = Defs
<1> DEFINE N == Len(Definitions)
<1>1. PICK f \in [0 .. N -> Passed] : Passing(f, refs, lists) /\ MoveAll(refs, lists) = f[N]
  BY MoveAllSteps
<1>2. /\ N \in Nat /\ \A k \in 1 .. N : Definitions[k] \in Defs
      /\ \A n \in Defs : \E k \in 1 .. N : n = Definitions[k]
  BY DefsAre
<1> DEFINE T == {k \in 0 .. N : f[k].ok => \A i \in 1 .. k : Definitions[i] \in Clean(f[k].lists)}
<1>3. 0 \in T
  <2>1. 0 \in 0 .. N /\ 1 .. 0 = {}
    BY <1>2
  <2>. QED  BY <2>1
<1>4. ASSUME NEW k \in 0 .. N - 1, k \in T PROVE k + 1 \in T
  <2> DEFINE n == Definitions[k + 1]
             o == Original(Raw[n], refs, f[k].lists)
             moved == Move[MaxDepth][o]
  <2>1. /\ k + 1 \in 1 .. N /\ k + 1 \in 0 .. N /\ k \in 0 .. N /\ (k + 1) - 1 = k
        /\ \A i \in 1 .. k + 1 : i = k + 1 \/ i \in 1 .. k
    BY <1>2
  <2>2. n \in Defs /\ f[k] \in Passed /\ f[k + 1] = OneMore(refs, f[k], n)
    BY <1>1, <1>2, <2>1 DEF Passing
  <2>3. f[k].ok => f[k + 1].lists = moved.lists /\ f[k + 1].ok = moved.ok
    BY <2>2 DEF OneMore
  <2>4. ~f[k].ok => f[k + 1] = f[k]
    BY <2>2 DEF OneMore
  <2>5. f[k].lists \in Contents
    BY <2>2 DEF Passed
  <2>6. o \in Originals /\ o.value = Raw[n] /\ o.refs = refs /\ o.lists = f[k].lists
    BY <2>2, <2>5, RawIs DEF Original, Originals, Contents
  <2>7. o.value.copies # <<>> /\ Head(o.value.copies) = n
    BY <2>2, <2>6, RawIs
  <2>8. MaxDepth \in 0 .. MaxDepth
    BY DefsAre
  <2> SUFFICES ASSUME f[k + 1].ok, NEW i \in 1 .. k + 1
               PROVE  Definitions[i] \in Clean(f[k + 1].lists)
    BY <2>1
  <2>9. f[k].ok /\ \A j \in 1 .. k : Definitions[j] \in Clean(f[k].lists)
    BY <1>4, <2>4
  <2> HIDE DEF n, o, T
  <2>10. Clean(o.lists) \subseteq Clean(moved.lists) /\ n \in Clean(moved.lists)
    BY <2>3, <2>6, <2>7, <2>8, <2>9, MoveCleans
  <2> HIDE DEF moved
  <2>11. Definitions[i] = n \/ Definitions[i] \in Clean(f[k].lists)
    BY <2>1, <2>9 DEF n
  <2>. QED  BY <2>3, <2>6, <2>9, <2>10, <2>11
<1> HIDE DEF T
<1>5. \A k \in 0 .. N : k \in T
  BY <1>2, <1>3, <1>4, Induction
<1>6. \A i \in 1 .. N : Definitions[i] \in Clean(f[N].lists)
  BY <1>1, <1>2, <1>5 DEF T
<1>. QED  BY <1>1, <1>2, <1>6 DEF Clean

\* What the whole schema is then
LEMMA ResolveMeans ==
    ASSUME RefersOK, request.type \in Defs
    PROVE  /\ Acyclic => Resolve.ok
           /\ Resolve.ok /\ Shallow => /\ Resolve.value.ref = Nothing
                                       /\ \A n \in Defs : Resolve.lists[n].ref = Nothing
<1> DEFINE first == MoveAll(Raw, RawLists)
           body == MoveAll(first.refs, first.lists)
           o == Original(Ref(request.type), first.refs, body.lists)
<1>1. first \in Passed
  BY RawIs, MoveAllSteps
<1>2. first.refs \in Contents /\ first.lists \in Contents
  BY <1>1 DEF Passed
<1> HIDE DEF first
<1>3. body \in Passed
  BY <1>2, MoveAllSteps
<1> HIDE DEF body
<1>4. Resolve = Moved(Move[MaxDepth][o].value, body.lists, first.ok /\ body.ok)
  BY DEF Resolve, first, body
<1>5. Move[MaxDepth][o].value = first.refs[request.type]
  <2>1. /\ Ref(request.type) # Ref(Nothing) /\ Ref(request.type).copies = <<>>
        /\ Ref(request.type).ref = request.type
    BY DefsAre DEF Ref
  <2>2. Ref(request.type) \in Items
    BY ItemsAre DEF OrNothing
  <2>3. /\ o \in Originals /\ o.value = Ref(request.type) /\ o.refs = first.refs
        /\ o.lists = body.lists
    BY <1>2, <1>3, <2>2 DEF Passed, Original, Originals
  <2>4. MaxDepth \in 0 .. MaxDepth /\ MaxDepth # 0
    BY DefsAre
  <2> HIDE DEF o
  <2>5. Move[MaxDepth][o] = MoveOf(Move, MaxDepth, o)
    BY <2>3, <2>4, MoveMeans
  <2>6. Move[MaxDepth][o] = Moved(first.refs[request.type], body.lists, TRUE)
    BY <2>1, <2>3, <2>4, <2>5 DEF MoveOf
  <2>. QED  BY <2>6 DEF Moved
<1> HIDE DEF o
<1>6. /\ Resolve.value = first.refs[request.type] /\ Resolve.lists = body.lists
      /\ Resolve.ok = (first.ok /\ body.ok)
  BY <1>4, <1>5 DEF Moved
<1>7. ASSUME Acyclic PROVE Resolve.ok
  <2>1. PICK rank : Heights(rank)
    BY <1>7 DEF Acyclic, Heights
  <2>2. first.ok /\ Stand(first.refs, first.lists)
    BY <2>1, RawIs, PassEnds DEF first
  <2>3. body.ok
    BY <1>2, <2>1, <2>2, PassEnds DEF body
  <2>. QED  BY <1>6, <2>2, <2>3
<1>8. ASSUME Resolve.ok, Shallow
      PROVE  Resolve.value.ref = Nothing /\ \A n \in Defs : Resolve.lists[n].ref = Nothing
  <2>1. first.ok /\ body.ok
    BY <1>6, <1>8
  <2>2. Clean(first.refs) = Defs
    BY <1>8, <2>1, RawIs, PassCleansRefs DEF first
  <2>3. Clean(body.lists) = Defs
    BY <1>2, <2>1, <2>2, PassCleansLists DEF body
  <2>. QED  BY <1>6, <2>2, <2>3 DEF Clean
<1>. QED  BY <1>7, <1>8

SchemaInv ==
    /\ \/ request = NoRequest /\ schema = NoSchema
       \/ request \in Requests /\ refers \in Shapes
    /\ NoDanglingRefs

\* For any definitions, whatever they refer to: what get_schema() returns without them has
\* no reference to them where models are not nested too deep, and it does return unless
\* one leads to itself (schema.py:30-36, 41-69).
THEOREM SchemaCorrect == SchemaSpec => []NoDanglingRefs
<1>1. SchemaInit => SchemaInv
  BY DEF SchemaInit, SchemaInv, NoDanglingRefs
<1>2. SchemaInv /\ [SchemaNext]_schemaVars => SchemaInv'
  <2> SUFFICES ASSUME SchemaInv, [SchemaNext]_schemaVars PROVE SchemaInv'
    OBVIOUS
  <2>1. CASE AskSchema
    <3>1. NoRequest \notin Requests
      BY DefsAre DEF NoRequest, Requests
    <3>2. schema = NoSchema
      BY <2>1, <3>1 DEF SchemaInv, AskSchema
    <3>. QED  BY <2>1, <3>2 DEF SchemaInv, AskSchema, NoDanglingRefs
  <2>2. CASE GetSchema
    <3>1. request \in Requests /\ refers \in Shapes /\ request' = request /\ refers' = refers
      BY <2>2 DEF SchemaInv, GetSchema
    <3>2. RefersOK /\ request.type \in Defs
      BY <3>1, SchemaAssumption DEF RefersOK, Requests
    <3>3. Acyclic' = Acyclic /\ Shallow' = Shallow
      BY <3>1 DEF Acyclic, Shallow
    <3>4. ASSUME Acyclic PROVE schema'.shape # "overflow"
      <4>1. Resolve.ok
        BY <3>2, <3>4, ResolveMeans
      <4>. QED  BY <2>2, <4>1 DEF GetSchema, NoSchema, Moved
    <3>5. ASSUME Answered', request.resolve_refs, Shallow PROVE Dangling' = {}
      <4>1. Resolve.ok /\ schema'.root = Resolve.value /\ schema'.lists = Resolve.lists
        BY <2>2, <3>5 DEF GetSchema, NoSchema, Answered
      <4>2. schema'.root.ref = Nothing /\ \A n \in Defs : schema'.lists[n].ref = Nothing
        BY <3>2, <3>5, <4>1, ResolveMeans
      <4>3. \A n \in Copied' : n \in Defs
        BY DEF Copied
      <4>. QED  BY <4>2, <4>3 DEF Dangling, Parts
    <3>. QED  BY <3>1, <3>3, <3>4, <3>5 DEF SchemaInv, NoDanglingRefs
  <2>3. CASE SchemaDone
    BY <2>3 DEF SchemaInv, SchemaDone, NoDanglingRefs
  <2>4. CASE UNCHANGED schemaVars
    <3>1. Acyclic' = Acyclic /\ Shallow' = Shallow /\ Answered' = Answered
      BY <2>4 DEF schemaVars, Acyclic, Shallow, Answered
    <3>2. Dangling' = Dangling
      BY <2>4 DEF schemaVars, Dangling, Parts, Copied
    <3>. QED  BY <2>4, <3>1, <3>2 DEF SchemaInv, schemaVars, NoDanglingRefs
  <2>. QED  BY <2>1, <2>2, <2>3, <2>4 DEF SchemaNext
<1>3. SchemaInv => NoDanglingRefs
  BY DEF SchemaInv
<1>. QED  BY <1>1, <1>2, <1>3, PTL DEF SchemaSpec

=============================================================================
