----------------------------- MODULE GeneratorProof -----------------------------
(***************************************************************************)
(* The iterator of an injected generator, whatever its dependencies open   *)
(* and in whatever order its caller iterates.                              *)
(***************************************************************************)
EXTENDS SolveGen, SequenceTheorems, TLAPS

TypeOK ==
    /\ open \in Seq(Nat)
    /\ dropped \subseteq Nat
    /\ iter \in {"none", "live", "over"}
    /\ at \in {"out", "solving", "advancing", "closing"}
    /\ entered \in Nat
    /\ exited \in Seq(Nat)

\* Where __next__() can be, given what became of the generator.
Position ==
    /\ at = "solving" => iter = "none"
    /\ at \in {"advancing", "closing"} => iter # "none"
    /\ at = "closing" => iter = "over"
    /\ told = "stop" => iter = "over"

\* A context is in one place: on the exit stack, dropped with one, or torn down.  What is
\* on the exit stack was opened in order.
Apart(o, d, x) ==
    /\ \A i, j \in 1 .. Len(o) : i < j => o[i] < o[j]
    /\ \A i \in 1 .. Len(o) : o[i] \notin d
    /\ \A i \in 1 .. Len(o) : \A j \in 1 .. Len(x) : o[i] # x[j]
    /\ \A j \in 1 .. Len(x) : x[j] \notin d
    /\ \A i, j \in 1 .. Len(x) : x[i] = x[j] => i = j

\* No context in a place was opened after the last.
UpTo(o, d, x, last) ==
    /\ \A i \in 1 .. Len(o) : o[i] <= last
    /\ \A c \in d : c <= last
    /\ \A j \in 1 .. Len(x) : x[j] <= last

\* And none is missing.
All(o, d, x, last) ==
    \A c \in 1 .. last :
        \/ \E i \in 1 .. Len(o) : o[i] = c
        \/ c \in d
        \/ \E j \in 1 .. Len(x) : x[j] = c

Places ==
    Apart(open, dropped, exited) /\ UpTo(open, dropped, exited, entered)
        /\ All(open, dropped, exited, entered)

\* What the generator was called with is on the exit stack.
Live == iter = "live" /\ ~late => \A c \in given : \E i \in 1 .. Len(open) : open[i] = c

\* What was torn down was opened after what is open, the last one first.
Falling(o, x) ==
    /\ \A i \in 1 .. Len(o) : \A j \in 1 .. Len(x) : o[i] < x[j]
    /\ \A i, j \in 1 .. Len(x) : i < j => x[i] > x[j]

\* No stack is replaced with contexts on it by a caller that does not call iter() late,
\* if solving succeeds.
Usual ==
    ~late /\ ~failed =>
        /\ dropped = {}
        /\ Falling(open, exited)
        /\ iter # "over" => exited = <<>>
        /\ at = "out" /\ iter = "none" => open = <<>>

Stopped == at = "out" /\ told = "stop" => open = <<>>

GenInv == TypeOK /\ Position /\ Places /\ Live /\ Usual /\ Stopped

-----------------------------------------------------------------------------
(* Sequences *)

\* All but the last of a sequence.
LEMMA AllButLast ==
    ASSUME NEW S, NEW s \in Seq(S), s # <<>>
    PROVE  /\ Front(s) \in Seq(S)
           /\ Len(Front(s)) = Len(s) - 1
           /\ \A n \in 1 .. Len(s) - 1 : Front(s)[n] = s[n]
<1>1. PICK n \in Nat : Len(s) = n + 1
  <2>1. Len(s) \in Nat \ {0}
    BY EmptySeq
  <2>2. Len(s) - 1 \in Nat /\ Len(s) = (Len(s) - 1) + 1
    BY <2>1
  <2> QED
    BY <2>2
<1>2. \A i \in 1 .. n : s[i] \in S
  BY <1>1, ElementOfSeq
<1>3. /\ SubSeq(s, 1, n) \in Seq(S)
      /\ Len(SubSeq(s, 1, n)) = IF 1 <= n THEN n - 1 + 1 ELSE 0
      /\ \A i \in 1 .. n - 1 + 1 : SubSeq(s, 1, n)[i] = s[1 + i - 1]
  BY <1>2, SubSeqProperties, 1 \in Int, n \in Int
<1>4. Len(s) - 1 = n /\ Front(s) = SubSeq(s, 1, n)
  BY <1>1 DEF Front
<1> QED
  BY <1>3, <1>4

\* A sequence with one more element.
LEMMA Appended ==
    ASSUME NEW S, NEW s \in Seq(S), NEW e \in S
    PROVE  /\ Append(s, e) \in Seq(S) /\ Len(Append(s, e)) = Len(s) + 1 /\ Len(s) \in Nat
           /\ Append(s, e)[Len(s) + 1] = e
           /\ \A i \in 1 .. Len(s) : Append(s, e)[i] = s[i] /\ s[i] \in S
BY AppendProperties, ElementOfSeq

-----------------------------------------------------------------------------
(* Steps *)

\* An empty exit stack: those on the old one are dropped, and none is lost.
LEMMA Replaced ==
    ASSUME NEW o \in Seq(Nat), NEW d, d \subseteq Nat, NEW x \in Seq(Nat), NEW last \in Nat,
           Apart(o, d, x), UpTo(o, d, x, last), All(o, d, x, last)
    PROVE  /\ d \cup ToSet(o) \subseteq Nat
           /\ Apart(<<>>, d \cup ToSet(o), x) /\ UpTo(<<>>, d \cup ToSet(o), x, last)
           /\ All(<<>>, d \cup ToSet(o), x, last)
<1>1. Len(<<>>) = 0 /\ Len(o) \in Nat /\ DOMAIN o = 1 .. Len(o)
  BY LenProperties
<1>2. \A c : c \in ToSet(o) <=> \E i \in 1 .. Len(o) : o[i] = c
  BY <1>1 DEF ToSet
<1>3. \A i \in 1 .. Len(o) : o[i] \in Nat
  BY ElementOfSeq
<1> HIDE DEF ToSet
<1>4. d \cup ToSet(o) \subseteq Nat
  BY <1>2, <1>3
<1>5. Apart(<<>>, d \cup ToSet(o), x)
  BY <1>1, <1>2 DEF Apart
<1>6. UpTo(<<>>, d \cup ToSet(o), x, last)
  BY <1>1, <1>2 DEF UpTo
<1>7. All(<<>>, d \cup ToSet(o), x, last)
  BY <1>1, <1>2 DEF All
<1> QED
  BY <1>4, <1>5, <1>6, <1>7

\* iter(), and the first next(), replace the exit stack by an empty one (use.py:219-222,
\* 262-269).
LEMMA NewStackStep ==
    ASSUME GenInv, Iter \/ FirstNext
    PROVE  GenInv'
<1>1. /\ open' = <<>> /\ dropped' = dropped \cup ToSet(open) /\ at = "out"
      /\ UNCHANGED <<iter, told, entered, exited, given, failed>>
  BY DEF Iter, FirstNext, NewStack
<1>2. /\ open \in Seq(Nat) /\ dropped \subseteq Nat /\ exited \in Seq(Nat) /\ entered \in Nat
      /\ Apart(open, dropped, exited) /\ UpTo(open, dropped, exited, entered)
      /\ All(open, dropped, exited, entered)
  BY DEF GenInv, TypeOK, Places
<1>3. /\ dropped' \subseteq Nat
      /\ Apart(open', dropped', exited') /\ UpTo(open', dropped', exited', entered')
      /\ All(open', dropped', exited', entered')
  BY <1>1, <1>2, Replaced
<1>4. TypeOK'
  <2>1. <<>> \in Seq(Nat)
    BY EmptySeq
  <2> QED
    BY <1>1, <1>3, <2>1 DEF GenInv, TypeOK, Iter, FirstNext
<1>5. Position'
  BY <1>1 DEF GenInv, Position, Iter, FirstNext
<1>6. Places'
  BY <1>3 DEF Places
<1>7. Live'
  BY <1>1 DEF Live, Iter, FirstNext
<1>8. Usual'
  <2>1. SUFFICES ASSUME ~late', ~failed'
                 PROVE  dropped' = {} /\ exited' = <<>> /\ Falling(open', exited')
    BY <1>1 DEF Usual
  <2>2. ~late /\ ~failed /\ iter = "none"
    <3>1. CASE Iter
      <4>1. late' <=> late \/ iter # "none"
        BY <3>1 DEF Iter
      <4> QED
        BY <1>1, <2>1, <4>1
    <3>2. CASE FirstNext
      BY <1>1, <2>1, <3>2 DEF FirstNext
    <3> QED
      BY <3>1, <3>2
  <2>3. open = <<>> /\ dropped = {} /\ exited = <<>>
    BY <1>1, <2>2 DEF GenInv, Usual
  <2>4. ToSet(<<>>) = {} /\ Len(<<>>) = 0
    BY DEF ToSet
  <2> QED
    BY <1>1, <2>3, <2>4 DEF Falling
<1>9. Stopped'
  BY <1>1 DEF Stopped
<1> QED
  BY <1>4, <1>5, <1>6, <1>7, <1>8, <1>9 DEF GenInv

\* A generator dependency is entered while the function is not called yet (use.py:268-281).
LEMMA EnterContextStep ==
    ASSUME GenInv, EnterContext
    PROVE  GenInv'
<1>1. /\ at = "solving" /\ open' = Append(open, entered + 1) /\ entered' = entered + 1
      /\ UNCHANGED <<dropped, iter, at, told, exited, given, late, failed>>
  BY DEF EnterContext
<1>2. /\ open \in Seq(Nat) /\ dropped \subseteq Nat /\ exited \in Seq(Nat) /\ entered \in Nat
      /\ Apart(open, dropped, exited) /\ UpTo(open, dropped, exited, entered)
      /\ All(open, dropped, exited, entered) /\ iter = "none"
  BY <1>1 DEF GenInv, TypeOK, Places, Position
<1>3. entered + 1 \in Nat
  BY <1>2
<1>4. /\ open' \in Seq(Nat) /\ Len(open') = Len(open) + 1 /\ Len(open) \in Nat
      /\ open'[Len(open) + 1] = entered + 1
      /\ \A i \in 1 .. Len(open) : open'[i] = open[i] /\ open[i] \in Nat
  BY <1>1, <1>2, <1>3, Appended
<1>5. \A i \in 1 .. Len(open') : i \in 1 .. Len(open) \/ i = Len(open) + 1
  BY <1>4
<1>6. \A i \in 1 .. Len(open) :
          open[i] \in Nat /\ open[i] <= entered /\ open[i] < entered + 1
  <2>1. \A n \in Nat : n <= entered => n < entered + 1
    BY <1>2
  <2> QED
    BY <1>2, <1>4, <2>1 DEF UpTo
<1>7. \A j \in 1 .. Len(exited) : exited[j] \in Nat /\ exited[j] <= entered
  BY <1>2, ElementOfSeq DEF UpTo
<1>8. Apart(open', dropped', exited')
  <2>1. ASSUME NEW i \in 1 .. Len(open'), NEW j \in 1 .. Len(open'), i < j
        PROVE  open'[i] < open'[j]
    <3>1. i \in 1 .. Len(open)
      BY <1>4, <2>1
    <3>2. CASE j \in 1 .. Len(open)
      BY <1>2, <1>4, <2>1, <3>1, <3>2 DEF Apart
    <3>3. CASE j = Len(open) + 1
      BY <1>4, <1>6, <3>1, <3>3
    <3> QED
      BY <1>5, <3>2, <3>3
  <2>2. ASSUME NEW i \in 1 .. Len(open') PROVE open'[i] \notin dropped
    <3>1. CASE i \in 1 .. Len(open)
      BY <1>2, <1>4, <3>1 DEF Apart
    <3>2. CASE i = Len(open) + 1
      BY <1>2, <1>4, <3>2 DEF UpTo
    <3> QED
      BY <1>5, <3>1, <3>2
  <2>3. ASSUME NEW i \in 1 .. Len(open'), NEW j \in 1 .. Len(exited) PROVE open'[i] # exited[j]
    <3>1. CASE i \in 1 .. Len(open)
      BY <1>2, <1>4, <3>1 DEF Apart
    <3>2. CASE i = Len(open) + 1
      BY <1>2, <1>4, <1>7, <3>2
    <3> QED
      BY <1>5, <3>1, <3>2
  <2> QED
    BY <1>1, <1>2, <2>1, <2>2, <2>3 DEF Apart
<1>9. UpTo(open', dropped', exited', entered')
  <2>1. ASSUME NEW i \in 1 .. Len(open') PROVE open'[i] <= entered + 1
    <3>1. CASE i \in 1 .. Len(open)
      <4>1. \A n \in Nat : n < entered + 1 => n <= entered + 1
        BY <1>3
      <4> QED
        BY <1>4, <1>6, <3>1, <4>1
    <3>2. CASE i = Len(open) + 1
      BY <1>2, <1>4, <3>2
    <3> QED
      BY <1>5, <3>1, <3>2
  <2>2. \A c \in dropped : c \in Nat /\ c <= entered
    BY <1>2 DEF UpTo
  <2>3. \A c \in Nat : c <= entered => c <= entered + 1
    BY <1>2
  <2> QED
    BY <1>1, <1>7, <2>1, <2>2, <2>3 DEF UpTo
<1>10. All(open', dropped', exited', entered')
  <2>1. SUFFICES ASSUME NEW c \in 1 .. entered + 1
                 PROVE  \/ \E i \in 1 .. Len(open') : open'[i] = c
                        \/ c \in dropped
                        \/ \E j \in 1 .. Len(exited) : exited[j] = c
    BY <1>1 DEF All
  <2>2. CASE c = entered + 1
    <3>1. Len(open) + 1 \in 1 .. Len(open')
      BY <1>4
    <3> QED
      BY <1>4, <2>2, <3>1
  <2>3. CASE c \in 1 .. entered
    <3>1. CASE \E i \in 1 .. Len(open) : open[i] = c
      <4>1. PICK i \in 1 .. Len(open) : open[i] = c
        BY <3>1
      <4>2. i \in 1 .. Len(open') /\ open'[i] = c
        BY <1>4, <4>1
      <4> QED
        BY <4>2
    <3>2. CASE ~\E i \in 1 .. Len(open) : open[i] = c
      BY <1>2, <2>3, <3>2 DEF All
    <3> QED
      BY <3>1, <3>2
  <2> QED
    BY <1>2, <2>2, <2>3
<1>11. Usual'
  <2>1. SUFFICES ASSUME ~late, ~failed
                 PROVE  dropped' = {} /\ exited' = <<>> /\ Falling(open', exited')
    BY <1>1 DEF Usual
  <2>2. dropped = {} /\ exited = <<>>
    BY <1>2, <2>1 DEF GenInv, Usual
  <2>3. Len(<<>>) = 0
    OBVIOUS
  <2> QED
    BY <1>1, <2>2, <2>3 DEF Falling
<1>12. Places'
  BY <1>8, <1>9, <1>10 DEF Places
<1>13. TypeOK' /\ Position' /\ Live' /\ Stopped'
  BY <1>1, <1>2, <1>3, <1>4 DEF GenInv, TypeOK, Position, Live, Stopped
<1> QED
  BY <1>11, <1>12, <1>13 DEF GenInv

\* The innermost context on the exit stack is exited (contextlib.ExitStack).
LEMMA ExitContextStep ==
    ASSUME GenInv, ExitContext
    PROVE  GenInv'
<1> DEFINE e == Last(open)
<1>1. /\ at = "closing" /\ open # <<>> /\ exited' = Append(exited, e) /\ open' = Front(open)
      /\ told' \in {"stop", "error"}
      /\ UNCHANGED <<dropped, iter, at, entered, given, late, failed>>
  BY DEF ExitContext
<1>2. /\ open \in Seq(Nat) /\ dropped \subseteq Nat /\ exited \in Seq(Nat) /\ entered \in Nat
      /\ Apart(open, dropped, exited) /\ UpTo(open, dropped, exited, entered)
      /\ All(open, dropped, exited, entered) /\ iter = "over"
  BY <1>1 DEF GenInv, TypeOK, Places, Position
<1>3. /\ open' \in Seq(Nat) /\ Len(open') = Len(open) - 1 /\ Len(open) \in Nat \ {0}
      /\ \A i \in 1 .. Len(open) - 1 : open'[i] = open[i]
  BY <1>1, <1>2, AllButLast, EmptySeq
<1>4. e = open[Len(open)] /\ Len(open) \in 1 .. Len(open)
  BY <1>3 DEF Last
<1>5. e \in Nat
  BY <1>2, <1>4, ElementOfSeq
<1> HIDE DEF e
<1>6. /\ exited' \in Seq(Nat) /\ Len(exited') = Len(exited) + 1 /\ Len(exited) \in Nat
      /\ exited'[Len(exited) + 1] = e
      /\ \A j \in 1 .. Len(exited) : exited'[j] = exited[j] /\ exited[j] \in Nat
  BY <1>1, <1>2, <1>5, Appended
<1>7. \A j \in 1 .. Len(exited') : j \in 1 .. Len(exited) \/ j = Len(exited) + 1
  BY <1>6
<1>8. ASSUME NEW i \in 1 .. Len(open')
      PROVE  i \in 1 .. Len(open) /\ open'[i] = open[i] /\ open[i] \in Nat /\ open[i] < e
  <2>1. i \in 1 .. Len(open) /\ i < Len(open) /\ open'[i] = open[i]
    BY <1>3
  <2>2. open[i] \in Nat
    BY <1>2, <2>1, ElementOfSeq
  <2> QED
    BY <1>2, <1>4, <2>1, <2>2 DEF Apart
<1>9. e \notin dropped /\ e <= entered /\ \A j \in 1 .. Len(exited) : e # exited[j]
  BY <1>2, <1>4 DEF Apart, UpTo
<1>10. Apart(open', dropped', exited')
  <2>1. \A i, j \in 1 .. Len(open') : i < j => open'[i] < open'[j]
    BY <1>2, <1>8 DEF Apart
  <2>2. \A i \in 1 .. Len(open') : open'[i] \notin dropped
    BY <1>2, <1>8 DEF Apart
  <2>3. ASSUME NEW i \in 1 .. Len(open'), NEW j \in 1 .. Len(exited') PROVE open'[i] # exited'[j]
    <3>1. CASE j \in 1 .. Len(exited)
      BY <1>2, <1>6, <1>8, <3>1 DEF Apart
    <3>2. CASE j = Len(exited) + 1
      BY <1>5, <1>6, <1>8, <3>2
    <3> QED
      BY <1>7, <3>1, <3>2
  <2>4. ASSUME NEW j \in 1 .. Len(exited') PROVE exited'[j] \notin dropped
    BY <1>2, <1>6, <1>7, <1>9 DEF Apart
  <2>5. ASSUME NEW i \in 1 .. Len(exited'), NEW j \in 1 .. Len(exited'), exited'[i] = exited'[j]
        PROVE  i = j
    <3>1. CASE i \in 1 .. Len(exited) /\ j \in 1 .. Len(exited)
      BY <1>2, <1>6, <2>5, <3>1 DEF Apart
    <3>2. CASE i \in 1 .. Len(exited) /\ j = Len(exited) + 1
      BY <1>6, <1>9, <2>5, <3>2
    <3>3. CASE i = Len(exited) + 1 /\ j \in 1 .. Len(exited)
      BY <1>6, <1>9, <2>5, <3>3
    <3> QED
      BY <1>7, <3>1, <3>2, <3>3
  <2> QED
    BY <1>1, <2>1, <2>2, <2>3, <2>4, <2>5 DEF Apart
<1>11. UpTo(open', dropped', exited', entered')
  <2>1. \A i \in 1 .. Len(open') : open'[i] <= entered
    BY <1>2, <1>8 DEF UpTo
  <2>2. \A j \in 1 .. Len(exited') : exited'[j] <= entered
    BY <1>2, <1>6, <1>7, <1>9 DEF UpTo
  <2> QED
    BY <1>1, <1>2, <2>1, <2>2 DEF UpTo
<1>12. All(open', dropped', exited', entered')
  <2>1. SUFFICES ASSUME NEW c \in 1 .. entered
                 PROVE  \/ \E i \in 1 .. Len(open') : open'[i] = c
                        \/ c \in dropped
                        \/ \E j \in 1 .. Len(exited') : exited'[j] = c
    BY <1>1 DEF All
  <2>2. CASE \E i \in 1 .. Len(open) : open[i] = c
    <3>1. PICK i \in 1 .. Len(open) : open[i] = c
      BY <2>2
    <3>2. CASE i = Len(open)
      <4>1. Len(exited) + 1 \in 1 .. Len(exited')
        BY <1>6
      <4> QED
        BY <1>4, <1>6, <3>1, <3>2, <4>1
    <3>3. CASE i # Len(open)
      <4>1. i \in 1 .. Len(open') /\ open'[i] = c
        BY <1>3, <3>1, <3>3
      <4> QED
        BY <4>1
    <3> QED
      BY <3>2, <3>3
  <2>3. CASE \E j \in 1 .. Len(exited) : exited[j] = c
    <3>1. PICK j \in 1 .. Len(exited) : exited[j] = c
      BY <2>3
    <3>2. j \in 1 .. Len(exited') /\ exited'[j] = c
      BY <1>6, <3>1
    <3> QED
      BY <3>2
  <2> QED
    BY <1>2, <2>2, <2>3 DEF All
<1>13. Usual'
  <2>1. SUFFICES ASSUME ~late, ~failed PROVE dropped = {} /\ Falling(open', exited')
    BY <1>1, <1>2 DEF Usual
  <2>2. dropped = {} /\ Falling(open, exited)
    BY <2>1 DEF GenInv, Usual
  <2>3. ASSUME NEW i \in 1 .. Len(open'), NEW j \in 1 .. Len(exited') PROVE open'[i] < exited'[j]
    <3>1. CASE j \in 1 .. Len(exited)
      BY <1>6, <1>8, <2>2, <3>1 DEF Falling
    <3>2. CASE j = Len(exited) + 1
      BY <1>6, <1>8, <3>2
    <3> QED
      BY <1>7, <3>1, <3>2
  <2>4. ASSUME NEW i \in 1 .. Len(exited'), NEW j \in 1 .. Len(exited'), i < j
        PROVE  exited'[i] > exited'[j]
    <3>1. i \in 1 .. Len(exited)
      BY <1>6, <2>4
    <3>2. CASE j \in 1 .. Len(exited)
      BY <1>6, <2>2, <2>4, <3>1, <3>2 DEF Falling
    <3>3. CASE j = Len(exited) + 1
      <4>1. e < exited[i]
        BY <1>4, <2>2, <3>1 DEF Falling
      <4> QED
        BY <1>5, <1>6, <3>1, <3>3, <4>1
    <3> QED
      BY <1>7, <3>2, <3>3
  <2> QED
    BY <2>2, <2>3, <2>4 DEF Falling
<1>14. Places'
  BY <1>10, <1>11, <1>12 DEF Places
<1>15. TypeOK' /\ Position' /\ Live' /\ Stopped'
  BY <1>1, <1>2, <1>3, <1>6 DEF GenInv, TypeOK, Position, Live, Stopped
<1> QED
  BY <1>13, <1>14, <1>15 DEF GenInv

\* CPython tears a dropped context down.
LEMMA CollectStep ==
    ASSUME GenInv, Collect
    PROVE  GenInv'
<1>1. PICK c \in dropped :
          /\ dropped' = dropped \ {c} /\ exited' = Append(exited, c)
          /\ UNCHANGED <<open, iter, at, told, entered, given, late, failed>>
  BY DEF Collect
<1>2. /\ open \in Seq(Nat) /\ dropped \subseteq Nat /\ exited \in Seq(Nat) /\ entered \in Nat
      /\ Apart(open, dropped, exited) /\ UpTo(open, dropped, exited, entered)
      /\ All(open, dropped, exited, entered)
  BY DEF GenInv, TypeOK, Places
<1>3. /\ exited' \in Seq(Nat) /\ Len(exited') = Len(exited) + 1 /\ Len(exited) \in Nat
      /\ exited'[Len(exited) + 1] = c
      /\ \A j \in 1 .. Len(exited) : exited'[j] = exited[j] /\ exited[j] \in Nat
  BY <1>1, <1>2, Appended
<1>4. \A j \in 1 .. Len(exited') : j \in 1 .. Len(exited) \/ j = Len(exited) + 1
  BY <1>3
<1>5. Apart(open', dropped', exited')
  <2>1. ASSUME NEW i \in 1 .. Len(open), NEW j \in 1 .. Len(exited') PROVE open[i] # exited'[j]
    BY <1>2, <1>3, <1>4 DEF Apart
  <2>2. ASSUME NEW j \in 1 .. Len(exited') PROVE exited'[j] \notin dropped'
    BY <1>1, <1>2, <1>3, <1>4 DEF Apart
  <2>3. ASSUME NEW i \in 1 .. Len(exited'), NEW j \in 1 .. Len(exited'), exited'[i] = exited'[j]
        PROVE  i = j
    <3>1. CASE i \in 1 .. Len(exited) /\ j \in 1 .. Len(exited)
      BY <1>2, <1>3, <2>3, <3>1 DEF Apart
    <3>2. \A k \in 1 .. Len(exited) : exited[k] # c
      BY <1>2 DEF Apart
    <3> QED
      BY <1>3, <1>4, <2>3, <3>1, <3>2
  <2> QED
    BY <1>1, <1>2, <2>1, <2>2, <2>3 DEF Apart
<1>6. UpTo(open', dropped', exited', entered')
  BY <1>1, <1>2, <1>3, <1>4 DEF UpTo
<1>7. All(open', dropped', exited', entered')
  <2>1. SUFFICES ASSUME NEW b \in 1 .. entered
                 PROVE  \/ \E i \in 1 .. Len(open) : open[i] = b
                        \/ b \in dropped'
                        \/ \E j \in 1 .. Len(exited') : exited'[j] = b
    BY <1>1 DEF All
  <2>2. CASE b = c
    <3>1. Len(exited) + 1 \in 1 .. Len(exited')
      BY <1>3
    <3> QED
      BY <1>3, <2>2, <3>1
  <2>3. CASE \E j \in 1 .. Len(exited) : exited[j] = b
    <3>1. PICK j \in 1 .. Len(exited) : exited[j] = b
      BY <2>3
    <3>2. j \in 1 .. Len(exited') /\ exited'[j] = b
      BY <1>3, <3>1
    <3> QED
      BY <3>2
  <2> QED
    BY <1>1, <1>2, <2>2, <2>3 DEF All
<1>8. Places'
  BY <1>5, <1>6, <1>7 DEF Places
<1>9. TypeOK' /\ Position' /\ Live' /\ Stopped'
  BY <1>1, <1>2, <1>3 DEF GenInv, TypeOK, Position, Live, Stopped
<1>10. Usual'
  BY <1>1 DEF GenInv, Usual
<1> QED
  BY <1>8, <1>9, <1>10 DEF GenInv

\* The steps that leave every context where it is.
LEMMA OtherSteps ==
    ASSUME GenInv,
           \/ NextAgain \/ SolvingFails \/ Solved \/ Yields \/ ItemRefused \/ Raises
           \/ Stops \/ StopReraised \/ UNCHANGED vars
    PROVE  GenInv'
<1>1. UNCHANGED <<open, dropped, entered, exited, late>>
  BY DEF NextAgain, SolvingFails, Solved, Yields, ItemRefused, Raises, Stops, StopReraised, vars
<1>2. TypeOK'
  BY <1>1 DEF GenInv, TypeOK, NextAgain, SolvingFails, Solved, Yields, ItemRefused,
              Raises, Stops, StopReraised, vars
<1>3. Places'
  BY <1>1 DEF GenInv, Places
<1>4. Position' /\ Stopped'
  <2>1. CASE NextAgain \/ Stops
    BY <1>1, <2>1 DEF GenInv, Position, Stopped, NextAgain, Stops
  <2>2. CASE SolvingFails \/ Solved \/ Yields \/ ItemRefused \/ Raises
    BY <1>1, <2>2 DEF GenInv, Position, Stopped, SolvingFails, Solved, Yields, ItemRefused, Raises
  <2>3. CASE StopReraised \/ UNCHANGED vars
    BY <1>1, <2>3 DEF GenInv, Position, Stopped, StopReraised, vars
  <2> QED
    BY <2>1, <2>2, <2>3
<1>5. Live'
  <2>1. CASE Solved
    <3>1. open \in Seq(Nat) /\ given' = ToSet(open)
      BY <2>1 DEF GenInv, TypeOK, Solved
    <3>2. given' = {open[i] : i \in 1 .. Len(open)}
      BY <3>1, LenProperties DEF ToSet
    <3> QED
      BY <1>1, <3>2 DEF Live
  <2>2. CASE ~Solved
    <3>1. given' = given /\ (iter' = "live" => iter = "live")
      BY <2>2 DEF NextAgain, SolvingFails, Solved, Yields, ItemRefused, Raises, Stops,
                  StopReraised, vars
    <3> QED
      BY <1>1, <3>1 DEF GenInv, Live
  <2> QED
    BY <2>1, <2>2
<1>6. Usual'
  <2>1. CASE NextAgain \/ SolvingFails \/ Solved \/ Yields \/ ItemRefused \/ Raises \/ Stops
    BY <1>1, <2>1 DEF GenInv, Position, Usual, NextAgain, SolvingFails, Solved, Yields,
                      ItemRefused, Raises, Stops
  <2>2. CASE StopReraised \/ UNCHANGED vars
    BY <1>1, <2>2 DEF GenInv, Position, Usual, StopReraised, vars
  <2> QED
    BY <2>1, <2>2
<1> QED
  BY <1>2, <1>3, <1>4, <1>5, <1>6 DEF GenInv

\* Nothing is created yet.
LEMMA Start == Init => GenInv
<1> SUFFICES ASSUME Init PROVE GenInv
  OBVIOUS
<1>1. open = <<>> /\ exited = <<>> /\ dropped = {} /\ entered = 0 /\ Len(<<>>) = 0
      /\ <<>> \in Seq(Nat) /\ 1 .. 0 = {}
  BY DEF Init
<1>2. Places
  BY <1>1 DEF Places, Apart, UpTo, All
<1> QED
  BY <1>1, <1>2 DEF Init, GenInv, TypeOK, Position, Live, Usual, Falling, Stopped

\* The invariant of the iterator.
LEMMA GeneratorInvariant == Spec => []GenInv
<1>1. GenInv /\ [Next]_vars => GenInv'
  BY NewStackStep, EnterContextStep, ExitContextStep, CollectStep, OtherSteps DEF Next, Advance
<1> QED
  BY <1>1, Start, PTL DEF Spec

-----------------------------------------------------------------------------

\* No dependency of an injected generator is torn down while the generator can still
\* produce an item, whatever fails and however often it is advanced, as long as nobody
\* calls iter() again; what CPython makes of stacks replaced before is none of its own
\* (use.py:263-287).
THEOREM OpenWhileLiveCorrect == Spec => []OpenWhileLive
<1>1. ASSUME GenInv, iter = "live", ~late, NEW c \in given, c \in ToSet(exited) PROVE FALSE
  <2>1. PICK i \in 1 .. Len(open) : open[i] = c
    BY <1>1 DEF GenInv, Live
  <2>2. DOMAIN exited = 1 .. Len(exited)
    BY <1>1, LenProperties DEF GenInv, TypeOK
  <2>3. PICK j \in 1 .. Len(exited) : exited[j] = c
    BY <1>1, <2>2 DEF ToSet
  <2> QED
    BY <1>1, <2>1, <2>3 DEF GenInv, Places, Apart
<1>2. GenInv => OpenWhileLive
  BY <1>1 DEF OpenWhileLive
<1> QED
  BY <1>2, GeneratorInvariant, PTL

\* No context is torn down twice, whoever does it, and they are torn down in the reverse
\* of the order they were entered in as long as solving succeeds and nobody calls iter()
\* again (use.py:263-290).
THEOREM ReverseOrderCorrect == Spec => []ReverseOrder
<1>1. GenInv => ReverseOrder
  <2>1. GenInv => DOMAIN exited = 1 .. Len(exited)
    BY LenProperties DEF GenInv, TypeOK
  <2> QED
    BY <2>1 DEF GenInv, Places, Apart, Usual, Falling, ReverseOrder, IsInjective
<1> QED
  BY <1>1, GeneratorInvariant, PTL

\* When the items are exhausted every context ever entered is torn down, but for those on
\* an exit stack that was replaced (use.py:285-287).
THEOREM ClosedCorrect == Spec => []ClosedWhenExhausted
<1>1. ASSUME GenInv, at = "out", told = "stop"
      PROVE  /\ 1 .. entered \subseteq ToSet(exited) \cup dropped
             /\ ~late /\ ~failed => dropped = {}
  <2>1. open = <<>> /\ Len(<<>>) = 0 /\ DOMAIN exited = 1 .. Len(exited)
    BY <1>1, LenProperties DEF GenInv, Stopped, TypeOK
  <2>2. \A c \in 1 .. entered : c \in dropped \/ \E j \in 1 .. Len(exited) : exited[j] = c
    BY <1>1, <2>1 DEF GenInv, Places, All
  <2>3. \A j \in 1 .. Len(exited) : exited[j] \in ToSet(exited)
    BY <2>1 DEF ToSet
  <2> QED
    BY <1>1, <2>2, <2>3 DEF GenInv, Usual
<1>2. GenInv => ClosedWhenExhausted
  BY <1>1 DEF ClosedWhenExhausted
<1> QED
  BY <1>2, GeneratorInvariant, PTL

\* Once it has stopped it gives no item and enters no context any more ("ref: issues/165",
\* use.py:268-287).
THEOREM StopCorrect == Spec => StopIsForever
<1>1. GenInv /\ [Next]_vars => [told = "stop" => told' # "item" /\ entered' = entered]_vars
  BY DEF GenInv, Position, Next, Advance, Iter, FirstNext, NextAgain, EnterContext, Collect,
         SolvingFails, Solved, Yields, ItemRefused, Raises, Stops, ExitContext, StopReraised
<1> QED
  BY <1>1, GeneratorInvariant, PTL DEF Spec, StopIsForever
=================================================================================
