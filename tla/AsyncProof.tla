------------------------------- MODULE AsyncProof -------------------------------
(***************************************************************************)
(* What asolve() waits for: the custom fields of a call, whichever and     *)
(* however many there are, and the calls whose dependencies run in the     *)
(* thread pool, for any number of calls, threads and connections.          *)
(***************************************************************************)
EXTENDS MCAsync, SequenceTheorems, FiniteSetTheorems, TLAPS

-----------------------------------------------------------------------------
(* Custom fields: who may be at work, and on what                           *)

\* In the group, fields; after it, the one custom that is asked, on what there is.
Busy ==
    /\ phase \in {"idle", "done", "error"} => \A p \in Customs : task[p] \notin {"ready", "running"}
    /\ phase = "group" => mode = "async" /\ \A p \in Others : task[p] = "none"
    /\ phase = "one by one" =>
          /\ mode = "async" => todo \subseteq Others
          /\ \A p \in Customs : task[p] \in {"ready", "running"} =>
                task[p] = "running" /\ p \in Others /\ Asking(p) /\ copy = kwargs

\* The group knows its failures, and no call goes on after one.
Failures ==
    /\ phase = "group" =>
          /\ \A i \in DOMAIN errors : errors[i] \in InPlace /\ task[errors[i]] = "failed"
          /\ \A p \in Customs : task[p] = "failed" => errors # <<>>
    /\ phase \in {"idle", "one by one", "done"} => \A p \in Customs : task[p] # "failed"
    /\ ErrorIsReal

\* Found is filled in, at every moment.
Kept == \A p \in filled : kwargs[p] = "filled"

FieldsInv == TypeOK /\ Busy /\ Failures /\ Kept

\* What a sequence begins with.
LEMMA First ==
    ASSUME NEW S, NEW s \in Seq(S), s # <<>>
    PROVE  Head(s) = s[1] /\ 1 \in DOMAIN s /\ s[1] \in S
<1>1. Len(s) \in Nat \ {0} /\ DOMAIN s = 1 .. Len(s)
  BY EmptySeq, LenProperties
<1>2. 1 \in 1 .. Len(s)
  BY <1>1
<1> QED
  BY <1>1, <1>2, ElementOfSeq, HeadTailProperties

\* What Append() adds is last.
LEMMA Appended ==
    ASSUME NEW S, NEW s \in Seq(S), NEW x \in S
    PROVE  /\ Append(s, x) \in Seq(S) /\ Append(s, x) # <<>>
           /\ Len(Append(s, x)) = Len(s) + 1 /\ Len(s) \in Nat
           /\ DOMAIN s = 1 .. Len(s) /\ DOMAIN Append(s, x) = 1 .. Len(s) + 1
           /\ Append(s, x)[Len(s) + 1] = x
           /\ \A i \in 1 .. Len(s) : Append(s, x)[i] = s[i] /\ s[i] \in S
BY AppendProperties, ElementOfSeq, LenProperties

\* All but the last of a sequence.
LEMMA AllButLast ==
    ASSUME NEW S, NEW s \in Seq(S), s # <<>>
    PROVE  /\ Front(s) \in Seq(S)
           /\ Len(Front(s)) = Len(s) - 1 /\ Len(s) \in Nat \ {0}
           /\ DOMAIN s = 1 .. Len(s) /\ DOMAIN Front(s) = 1 .. Len(s) - 1
           /\ Last(s) = s[Len(s)] /\ Last(s) \in S
           /\ \A n \in 1 .. Len(s) - 1 : Front(s)[n] = s[n]
<1>0. Len(s) \in Nat \ {0} /\ DOMAIN s = 1 .. Len(s)
  BY EmptySeq, LenProperties
<1>1. PICK n \in Nat : Len(s) = n + 1
  <2>1. Len(s) - 1 \in Nat /\ Len(s) = (Len(s) - 1) + 1
    BY <1>0
  <2> QED
    BY <2>1
<1>2. \A i \in 1 .. n : s[i] \in S
  BY <1>1, ElementOfSeq
<1>3. /\ SubSeq(s, 1, n) \in Seq(S)
      /\ Len(SubSeq(s, 1, n)) = IF 1 <= n THEN n - 1 + 1 ELSE 0
      /\ \A i \in 1 .. n - 1 + 1 : SubSeq(s, 1, n)[i] = s[1 + i - 1]
  BY <1>2, SubSeqProperties, 1 \in Int, n \in Int
<1>4. Len(s) - 1 = n /\ Front(s) = SubSeq(s, 1, n)
  BY <1>1 DEF Front
<1>5. Last(s) = s[Len(s)] /\ Last(s) \in S
  <2>1. Len(s) \in 1 .. Len(s)
    BY <1>0
  <2> QED
    BY <2>1, ElementOfSeq DEF Last
<1>6. Front(s) \in Seq(S) /\ Len(Front(s)) = n
  BY <1>3, <1>4
<1>7. DOMAIN Front(s) = 1 .. n
  BY <1>6, LenProperties
<1>8. \A m \in 1 .. n : Front(s)[m] = s[m]
  BY <1>3, <1>4
<1> QED
  BY <1>0, <1>4, <1>5, <1>6, <1>7, <1>8

\* A sequence without one of its elements.
LEMMA Removed ==
    ASSUME NEW S, NEW s \in Seq(S), NEW n \in DOMAIN s
    PROVE  /\ RemoveAt(s, n) \in Seq(S)
           /\ Len(RemoveAt(s, n)) = Len(s) - 1 /\ Len(s) \in Nat \ {0} /\ n \in 1 .. Len(s)
           /\ DOMAIN RemoveAt(s, n) = 1 .. Len(s) - 1
           /\ \A i \in 1 .. Len(s) - 1 :
                 RemoveAt(s, n)[i] = IF i < n THEN s[i] ELSE s[i + 1]
<1>0. Len(s) \in Nat /\ DOMAIN s = 1 .. Len(s) /\ n \in 1 .. Len(s)
  BY LenProperties
<1>1. PICK a \in Nat, b \in Nat : n = a + 1 /\ Len(s) = n + b
  <2>1. n - 1 \in Nat /\ n = (n - 1) + 1 /\ Len(s) - n \in Nat /\ Len(s) = n + (Len(s) - n)
    BY <1>0
  <2> QED
    BY <2>1
<1> DEFINE u == SubSeq(s, 1, a)
           v == SubSeq(s, n + 1, Len(s))
<1>2. u \in Seq(S) /\ Len(u) = a /\ \A i \in 1 .. a : u[i] = s[i]
  <2>1. \A i \in 1 .. a : s[i] \in S
    BY <1>0, <1>1, ElementOfSeq
  <2>2. /\ SubSeq(s, 1, a) \in Seq(S)
        /\ Len(SubSeq(s, 1, a)) = IF 1 <= a THEN a - 1 + 1 ELSE 0
        /\ \A i \in 1 .. a - 1 + 1 : SubSeq(s, 1, a)[i] = s[1 + i - 1]
    BY <2>1, SubSeqProperties, 1 \in Int, a \in Int
  <2> QED
    BY <2>2
<1>3. v \in Seq(S) /\ Len(v) = b /\ \A i \in 1 .. b : v[i] = s[n + i]
  <2>1. \A i \in n + 1 .. Len(s) : s[i] \in S
    BY <1>0, <1>1, ElementOfSeq
  <2>2. n + 1 \in Int /\ Len(s) \in Int
    BY <1>0
  <2>3. /\ SubSeq(s, n + 1, Len(s)) \in Seq(S)
        /\ Len(SubSeq(s, n + 1, Len(s))) =
              IF n + 1 <= Len(s) THEN Len(s) - (n + 1) + 1 ELSE 0
        /\ \A i \in 1 .. Len(s) - (n + 1) + 1 :
              SubSeq(s, n + 1, Len(s))[i] = s[n + 1 + i - 1]
    BY <2>1, <2>2, SubSeqProperties
  <2>4. Len(s) - (n + 1) + 1 = b /\ \A i \in 1 .. b : n + 1 + i - 1 = n + i
    BY <1>0, <1>1
  <2> QED
    BY <1>1, <2>3, <2>4
<1>4. n - 1 = a /\ RemoveAt(s, n) = u \o v
  BY <1>1 DEF RemoveAt
<1> HIDE DEF u, v
<1>5. /\ u \o v \in Seq(S) /\ Len(u \o v) = a + b
      /\ \A i \in 1 .. a + b : (u \o v)[i] = IF i <= a THEN u[i] ELSE v[i - a]
  BY <1>2, <1>3, ConcatProperties
<1>6. DOMAIN (u \o v) = 1 .. a + b
  BY <1>5, LenProperties
<1>7. ASSUME NEW i \in 1 .. a + b
      PROVE  (u \o v)[i] = IF i < n THEN s[i] ELSE s[i + 1]
  <2>1. CASE i <= a
    BY <1>1, <1>2, <1>5, <2>1
  <2>2. CASE ~(i <= a)
    <3>1. i - a \in 1 .. b /\ n + (i - a) = i + 1 /\ ~(i < n)
      BY <1>1, <2>2
    <3> QED
      BY <1>3, <1>5, <2>2, <3>1
  <2> QED
    BY <2>1, <2>2
<1>8. Len(s) - 1 = a + b /\ Len(s) \in Nat \ {0}
  BY <1>1
<1>9. /\ RemoveAt(s, n) \in Seq(S) /\ Len(RemoveAt(s, n)) = a + b
      /\ DOMAIN RemoveAt(s, n) = 1 .. a + b
      /\ \A i \in 1 .. a + b : RemoveAt(s, n)[i] = IF i < n THEN s[i] ELSE s[i + 1]
  BY <1>4, <1>5, <1>6, <1>7
<1> QED
  BY <1>0, <1>8, <1>9

\* A value that is found is added to those there are.
LEMMA Filled ==
    ASSUME NEW kw \in Kwargs, NEW p \in Customs
    PROVE  /\ Fill(kw, p) \in Kwargs
           /\ \A q \in Customs : Fill(kw, p)[q] = IF q = p THEN "filled" ELSE kw[q]
BY DEF Kwargs, Fill

\* One custom is asked at a time.
LEMMA OneAsked ==
    ASSUME NEW p, NEW q, Asking(p), Asking(q)
    PROVE  p = q
<1>1. PICK i \in DOMAIN Order : Order[i] = p /\ \A j \in 1 .. i - 1 : Order[j] \notin todo
  BY DEF Asking
<1>2. PICK k \in DOMAIN Order : Order[k] = q /\ \A j \in 1 .. k - 1 : Order[j] \notin todo
  BY DEF Asking
<1>3. i \in Nat \ {0} /\ k \in Nat \ {0}
  BY OrderAssumption, LenProperties DEF OrderAssumption
<1>4. p \in todo /\ q \in todo
  BY DEF Asking
<1>5. ~(i < k) /\ ~(k < i)
  BY <1>1, <1>2, <1>3, <1>4
<1> QED
  BY <1>1, <1>2, <1>3, <1>5

\* Who is asked depends on nothing else.
LEMMA SameAsked ==
    ASSUME UNCHANGED <<phase, todo>>, NEW p
    PROVE  Asking(p)' = Asking(p)
BY DEF Asking

\* A call begins: what the one before left is forgotten.
LEMMA BeginStep == ASSUME FieldsInv, Begin PROVE FieldsInv'
<1>1. /\ kwargs' = [p \in Customs |-> "absent"] /\ copy' = kwargs'
      /\ task' = [p \in Customs |-> "none"] /\ errors' = <<>> /\ raised' = {} /\ filled' = {}
  BY DEF Begin
<1>2. \/ mode' = "sync" /\ phase' = "one by one" /\ todo' = Customs
      \/ mode' = "async" /\ phase' = "group" /\ todo' = {}
  BY DEF Begin
<1>3. TypeOK'
  <2>1. errors' \in Seq(Customs)
    BY <1>1, EmptySeq
  <2>2. kwargs' \in Kwargs /\ copy' \in Kwargs
    BY <1>1 DEF Kwargs
  <2> QED
    BY <1>1, <1>2, <2>1, <2>2 DEF TypeOK
<1>4. Busy'
  BY <1>1, <1>2 DEF Busy, Others
<1>5. Failures'
  <2>1. DOMAIN errors' = {} /\ \A p \in Customs : task'[p] = "none"
    BY <1>1, EmptySeq
  <2>2. phase' \in {"group", "one by one"}
    BY <1>2
  <2> QED
    BY <2>1, <2>2 DEF Failures, ErrorIsReal
<1>6. Kept'
  BY <1>1 DEF Kept
<1> QED
  BY <1>3, <1>4, <1>5, <1>6 DEF FieldsInv

\* The fields of a sync call, asked one by one (model.py:241-246).
LEMMA SyncStep ==
    ASSUME FieldsInv, NEW p \in Customs, UseField(p) \/ UseFieldDropped(p)
    PROVE  FieldsInv'
<1>1. /\ Asking(p) /\ phase = "one by one" /\ p \in InPlace /\ mode = "sync"
      /\ todo' = todo \ {p} /\ UNCHANGED <<mode, phase, copy, errors, raised>>
      /\ task' = [task EXCEPT ![p] = "ended"] \/ task' = task
      /\ \/ kwargs' = Fill(kwargs, p) /\ filled' = filled \cup {p}
         \/ kwargs' = kwargs /\ filled' = filled
  BY OrderAssumption DEF UseField, UseFieldDropped, Asking, OrderAssumption
<1>2. \A q \in Customs : task[q] \notin {"ready", "running"}
  BY <1>1, OneAsked DEF FieldsInv, Busy, Others
<1>3. TypeOK'
  BY <1>1 DEF FieldsInv, TypeOK, Kwargs, Fill
<1>4. Busy'
  BY <1>1, <1>2 DEF FieldsInv, TypeOK, Busy
<1>5. Failures'
  BY <1>1 DEF FieldsInv, TypeOK, Failures, ErrorIsReal
<1>6. Kept'
  <2>1. \A q \in Customs : Fill(kwargs, p)[q] = IF q = p THEN "filled" ELSE kwargs[q]
    BY Filled DEF FieldsInv, TypeOK
  <2> QED
    BY <1>1, <2>1 DEF FieldsInv, TypeOK, Kept
<1> QED
  BY <1>3, <1>4, <1>5, <1>6 DEF FieldsInv

\* The task group's own steps (model.py:323-336).
LEMMA GroupStep ==
    ASSUME FieldsInv, StartSoon \/ GroupEnds \/ GroupFails
    PROVE  FieldsInv'
<1>0. InPlace \subseteq Customs
  BY OrderAssumption DEF OrderAssumption
<1>1. phase = "group" /\ mode = "async" /\ \A p \in Others : task[p] = "none"
  BY DEF StartSoon, GroupEnds, GroupFails, FieldsInv, Busy
<1>2. CASE StartSoon
  <2>1. /\ task' = [p \in Customs |-> IF p \in InPlace THEN "ready" ELSE "none"]
        /\ \A p \in Customs : task[p] = "none"
        /\ UNCHANGED <<mode, phase, todo, kwargs, copy, errors, raised, filled>>
    BY <1>2 DEF StartSoon
  <2>2. TypeOK'
    BY <2>1 DEF FieldsInv, TypeOK
  <2>3. Busy'
    BY <1>1, <2>1 DEF FieldsInv, Busy, Others
  <2>4. errors = <<>>
    <3>1. ASSUME errors # <<>> PROVE FALSE
      <4>1. 1 \in DOMAIN errors /\ errors[1] \in Customs
        BY <3>1, First DEF FieldsInv, TypeOK
      <4> QED
        BY <1>1, <2>1, <4>1 DEF FieldsInv, Failures
    <3> QED
      BY <3>1
  <2>5. Failures'
    BY <1>1, <2>1, <2>4 DEF Failures, ErrorIsReal
  <2>6. Kept'
    BY <2>1 DEF FieldsInv, Kept
  <2> QED
    BY <2>2, <2>3, <2>5, <2>6 DEF FieldsInv
<1>3. \A p \in Customs : task[p] \notin {"ready", "running"} \/ ~Joined
  BY <1>0, <1>1 DEF Joined, Others
<1>4. CASE GroupEnds
  <2>1. /\ phase' = "one by one" /\ todo' = Others /\ Joined /\ errors = <<>>
        /\ UNCHANGED <<mode, task, kwargs, copy, errors, raised, filled>>
    BY <1>4 DEF GroupEnds
  <2>2. TypeOK'
    BY <2>1 DEF FieldsInv, TypeOK, Others
  <2>3. Busy'
    BY <1>3, <2>1 DEF Busy
  <2>4. Failures'
    BY <1>1, <2>1 DEF FieldsInv, Failures, ErrorIsReal
  <2>5. Kept'
    BY <2>1 DEF FieldsInv, Kept
  <2> QED
    BY <2>2, <2>3, <2>4, <2>5 DEF FieldsInv
<1>5. CASE GroupFails
  <2>1. /\ phase' = "error" /\ raised' = {Head(errors)} /\ Joined /\ errors # <<>>
        /\ UNCHANGED <<mode, todo, task, kwargs, copy, errors, filled>>
    BY <1>5 DEF GroupFails
  <2>2. Head(errors) = errors[1] /\ 1 \in DOMAIN errors /\ errors[1] \in Customs
    BY <2>1, First DEF FieldsInv, TypeOK
  <2>3. TypeOK'
    BY <2>1, <2>2 DEF FieldsInv, TypeOK
  <2>4. Busy'
    BY <1>3, <2>1 DEF Busy
  <2>5. Failures'
    <3>1. task[errors[1]] = "failed"
      BY <1>1, <2>2 DEF FieldsInv, Failures
    <3> QED
      BY <1>1, <2>1, <2>2, <3>1 DEF Failures, ErrorIsReal, Others
  <2>6. Kept'
    BY <2>1 DEF FieldsInv, Kept
  <2> QED
    BY <2>3, <2>4, <2>5, <2>6 DEF FieldsInv
<1> QED
  BY <1>2, <1>4, <1>5

\* The tasks of the group fill one dictionary, fail, or are cancelled (model.py:326-332).
LEMMA TaskStep ==
    ASSUME FieldsInv, NEW p \in Customs,
           TaskRuns(p) \/ TaskEnds(p) \/ TaskFails(p) \/ TaskCancelled(p)
    PROVE  FieldsInv'
<1>1. /\ task[p] \in {"ready", "running"} /\ (task[p] = "ready" \/ p \in InPlace)
      /\ UNCHANGED <<mode, phase, todo, copy, raised>>
  BY OrderAssumption DEF TaskRuns, TaskEnds, TaskFails, TaskCancelled, OrderAssumption
<1>2. phase = "group" /\ mode = "async" /\ p \in InPlace
  BY <1>1 DEF FieldsInv, TypeOK, Busy, Others
<1>3. PICK x \in {"running", "ended", "failed", "cancelled"} :
          task' = [task EXCEPT ![p] = x] /\ (x = "failed" <=> TaskFails(p))
  BY DEF TaskRuns, TaskEnds, TaskFails, TaskCancelled, FieldsInv, TypeOK
<1>4. \/ kwargs' = Fill(kwargs, p) /\ filled' = filled \cup {p}
      \/ kwargs' = kwargs /\ filled' = filled
  BY DEF TaskRuns, TaskEnds, TaskFails, TaskCancelled
<1>5. errors' = IF x = "failed" THEN Append(errors, p) ELSE errors
  BY <1>3 DEF TaskRuns, TaskEnds, TaskFails, TaskCancelled
<1>6. TypeOK'
  <2>1. errors' \in Seq(Customs)
    BY <1>5, AppendProperties DEF FieldsInv, TypeOK
  <2>2. kwargs' \in Kwargs
    <3>1. Fill(kwargs, p) \in Kwargs /\ kwargs \in Kwargs
      BY Filled DEF FieldsInv, TypeOK
    <3> QED
      BY <1>4, <3>1
  <2> QED
    BY <1>1, <1>3, <1>4, <2>1, <2>2 DEF FieldsInv, TypeOK
<1>7. Busy'
  BY <1>1, <1>2, <1>3 DEF FieldsInv, TypeOK, Busy, Others
<1>8. Failures'
  <2>1. \A i \in DOMAIN errors' :
            \/ errors'[i] = p /\ x = "failed"
            \/ i \in DOMAIN errors /\ errors'[i] = errors[i]
    <3>1. CASE x = "failed"
      <4>1. errors' = Append(errors, p)
        BY <1>5, <3>1
      <4>2. /\ DOMAIN errors = 1 .. Len(errors) /\ Len(errors) \in Nat
            /\ DOMAIN errors' = 1 .. Len(errors) + 1 /\ errors'[Len(errors) + 1] = p
            /\ \A i \in 1 .. Len(errors) : errors'[i] = errors[i]
        <5>1. errors \in Seq(Customs)
          BY DEF FieldsInv, TypeOK
        <5> QED
          BY <4>1, <5>1, Appended
      <4> QED
        BY <3>1, <4>2
    <3> QED
      BY <1>5, <3>1
  <2>2. \A i \in DOMAIN errors : errors[i] \in InPlace /\ task[errors[i]] = "failed"
    BY <1>2 DEF FieldsInv, Failures
  <2>3. task[p] # "failed"
    BY <1>1
  <2>4. \A i \in DOMAIN errors' : errors'[i] \in InPlace /\ task'[errors'[i]] = "failed"
    BY <1>2, <1>3, <2>1, <2>2, <2>3, OrderAssumption DEF FieldsInv, TypeOK, OrderAssumption
  <2>5. x = "failed" => errors' # <<>>
    <3>1. errors \in Seq(Customs)
      BY DEF FieldsInv, TypeOK
    <3>2. Append(errors, p) # <<>>
      BY <3>1, Appended
    <3> QED
      BY <1>5, <3>2
  <2>6. \A q \in Customs : task'[q] = "failed" => errors' # <<>>
    BY <1>2, <1>3, <1>5, <2>5 DEF FieldsInv, TypeOK, Failures
  <2> QED
    BY <1>1, <1>2, <2>4, <2>6 DEF Failures, ErrorIsReal
<1>9. Kept'
  <2>1. \A q \in Customs : Fill(kwargs, p)[q] = IF q = p THEN "filled" ELSE kwargs[q]
    BY Filled DEF FieldsInv, TypeOK
  <2> QED
    BY <1>4, <2>1 DEF FieldsInv, TypeOK, Kept
<1> QED
  BY <1>6, <1>7, <1>8, <1>9 DEF FieldsInv

\* Those asked with a copy begin, and return it with what they found (model.py:243-246, 338-339).
LEMMA UseStep ==
    ASSUME FieldsInv, NEW p \in Customs, UseRuns(p) \/ UseReturns(p)
    PROVE  FieldsInv'
<1>1. /\ Asking(p) /\ phase = "one by one" /\ task[p] \in {"none", "running"}
      /\ UNCHANGED <<mode, phase, errors, raised>>
  BY DEF UseRuns, UseReturns, Asking
<1>2. \A q \in Customs : q # p => task[q] \notin {"ready", "running"}
  BY <1>1, OneAsked DEF FieldsInv, Busy
<1>3. CASE UseRuns(p)
  <2>1. /\ p \in Others /\ task' = [task EXCEPT ![p] = "running"] /\ copy' = kwargs
        /\ UNCHANGED <<mode, phase, todo, kwargs, errors, raised, filled>>
    BY <1>3 DEF UseRuns, Others
  <2>2. TypeOK'
    BY <2>1 DEF FieldsInv, TypeOK
  <2>3. Asking(p)'
    BY <1>1, <2>1, SameAsked
  <2>4. Busy'
    BY <1>1, <1>2, <2>1, <2>3 DEF FieldsInv, TypeOK, Busy
  <2>5. Failures'
    BY <1>1, <2>1 DEF FieldsInv, TypeOK, Failures, ErrorIsReal
  <2>6. Kept'
    BY <2>1 DEF FieldsInv, Kept
  <2> QED
    BY <2>2, <2>4, <2>5, <2>6 DEF FieldsInv
<1>4. CASE UseReturns(p)
  <2>1. /\ task[p] = "running" /\ task' = [task EXCEPT ![p] = "ended"]
        /\ todo' = todo \ {p} /\ UNCHANGED <<mode, phase, copy, errors, raised>>
        /\ \/ kwargs' = Fill(copy, p) /\ filled' = filled \cup {p}
           \/ kwargs' = copy /\ filled' = filled
    BY <1>4 DEF UseReturns
  <2>2. copy = kwargs
    BY <1>1, <2>1 DEF FieldsInv, Busy
  <2>3. TypeOK'
    <3>1. Fill(copy, p) \in Kwargs /\ copy \in Kwargs
      BY Filled DEF FieldsInv, TypeOK
    <3>2. kwargs' \in Kwargs
      BY <2>1, <3>1
    <3> QED
      BY <2>1, <3>2 DEF FieldsInv, TypeOK
  <2>4. Busy'
    BY <1>1, <1>2, <2>1 DEF FieldsInv, TypeOK, Busy
  <2>5. Failures'
    BY <1>1, <2>1 DEF FieldsInv, TypeOK, Failures, ErrorIsReal
  <2>6. Kept'
    <3>1. \A q \in Customs : Fill(copy, p)[q] = IF q = p THEN "filled" ELSE copy[q]
      BY Filled DEF FieldsInv, TypeOK
    <3> QED
      BY <2>1, <2>2, <3>1 DEF FieldsInv, TypeOK, Kept
  <2> QED
    BY <2>3, <2>4, <2>5, <2>6 DEF FieldsInv
<1> QED
  BY <1>3, <1>4

\* One that is asked alone raises.
LEMMA FailStep == ASSUME FieldsInv, NEW p \in Customs, AskingFails(p) PROVE FieldsInv'
<1>1. /\ Asking(p) /\ phase = "one by one" /\ p \in todo
      /\ phase' = "error" /\ raised' = {p} /\ task' = [task EXCEPT ![p] = "failed"]
      /\ UNCHANGED <<mode, todo, kwargs, copy, errors, filled>>
  BY DEF AskingFails, Asking
<1>2. \A q \in Customs : q # p => task[q] \notin {"ready", "running"}
  BY <1>1, OneAsked DEF FieldsInv, Busy
<1>3. TypeOK'
  BY <1>1 DEF FieldsInv, TypeOK
<1>4. Busy'
  BY <1>1, <1>2 DEF FieldsInv, TypeOK, Busy
<1>5. mode = "async" => p \notin InPlace
  BY <1>1 DEF FieldsInv, Busy, Others
<1>6. Failures'
  BY <1>1, <1>5 DEF FieldsInv, TypeOK, Failures, ErrorIsReal
<1>7. Kept'
  BY <1>1 DEF FieldsInv, Kept
<1> QED
  BY <1>3, <1>4, <1>6, <1>7 DEF FieldsInv

\* None is left: the callable gets the arguments.
LEMMA DoneStep == ASSUME FieldsInv, Done PROVE FieldsInv'
<1>1. /\ phase = "one by one" /\ todo = {} /\ phase' = "done"
      /\ UNCHANGED <<mode, todo, task, kwargs, copy, errors, raised, filled>>
  BY DEF Done
<1>2. \A p \in Customs : task[p] \notin {"ready", "running"}
  BY <1>1 DEF FieldsInv, Busy, Asking
<1>3. TypeOK'
  BY <1>1 DEF FieldsInv, TypeOK
<1>4. Busy'
  BY <1>1, <1>2 DEF Busy
<1>5. Failures'
  BY <1>1 DEF FieldsInv, Failures, ErrorIsReal
<1>6. Kept'
  BY <1>1 DEF FieldsInv, Kept
<1> QED
  BY <1>3, <1>4, <1>5, <1>6 DEF FieldsInv

\* The invariant of the custom fields.
LEMMA FieldsInvariant == Spec => []FieldsInv
<1>1. Init => FieldsInv
  <2>1. ASSUME Init PROVE TypeOK
    <3>1. errors \in Seq(Customs)
      BY <2>1, EmptySeq DEF Init
    <3>2. kwargs \in Kwargs /\ copy \in Kwargs
      BY <2>1 DEF Init, Kwargs
    <3> QED
      BY <2>1, <3>1, <3>2 DEF Init, TypeOK
  <2>2. Init => Busy
    BY DEF Init, Busy
  <2>3. Init => Failures
    BY DEF Init, Failures, ErrorIsReal
  <2>4. Init => Kept
    BY DEF Init, Kept
  <2> QED
    BY <2>1, <2>2, <2>3, <2>4 DEF FieldsInv
<1>2. FieldsInv /\ [Next]_vars => FieldsInv'
  <2> SUFFICES ASSUME FieldsInv, [Next]_vars PROVE FieldsInv'
    OBVIOUS
  <2>1. CASE Begin
    BY <2>1, BeginStep
  <2>2. CASE StartSoon \/ GroupEnds \/ GroupFails
    BY <2>2, GroupStep
  <2>3. CASE Done
    BY <2>3, DoneStep
  <2>4. ASSUME NEW p \in Customs, Ask(p) PROVE FieldsInv'
    <3>1. CASE UseField(p) \/ UseFieldDropped(p)
      BY <3>1, SyncStep
    <3>2. CASE TaskRuns(p) \/ TaskEnds(p) \/ TaskFails(p) \/ TaskCancelled(p)
      BY <3>2, TaskStep
    <3>3. CASE UseRuns(p) \/ UseReturns(p)
      BY <3>3, UseStep
    <3>4. CASE AskingFails(p)
      BY <3>4, FailStep
    <3> QED
      BY <2>4, <3>1, <3>2, <3>3, <3>4 DEF Ask
  <2>5. CASE UNCHANGED vars
    <3>1. UNCHANGED <<mode, phase, todo, task, kwargs, copy, errors, raised, filled>>
      BY <2>5 DEF vars
    <3>2. TypeOK'
      BY <3>1 DEF FieldsInv, TypeOK
    <3>3. Busy'
      BY <3>1, SameAsked DEF FieldsInv, Busy
    <3>4. Failures'
      BY <3>1 DEF FieldsInv, Failures, ErrorIsReal
    <3>5. Kept'
      BY <3>1 DEF FieldsInv, Kept
    <3> QED
      BY <3>2, <3>3, <3>4, <3>5 DEF FieldsInv
  <2> QED
    BY <2>1, <2>2, <2>3, <2>4, <2>5 DEF Next, Control
<1> QED
  BY <1>1, <1>2, PTL DEF Spec

\* No value a custom found is lost, for any custom fields (model.py:323-339): the tasks of
\* the group fill one dictionary, and no other custom is at work while one has its copy.
THEOREM NothingLostCorrect == Spec => []NothingLost
<1>1. FieldsInv => NothingLost
  BY DEF FieldsInv, Kept, NothingLost
<1> QED
  BY <1>1, FieldsInvariant, PTL

\* No custom is at work when the callable runs or the caller has its exception
\* (model.py:326-336): the group has joined its tasks, and then one is asked at a time.
THEOREM NobodyLeftCorrect == Spec => []NobodyLeft
<1>1. FieldsInv => NobodyLeft
  BY DEF FieldsInv, Busy, NobodyLeft
<1> QED
  BY <1>1, FieldsInvariant, PTL

\* The caller gets the exception of a custom that failed, and the callable never runs when
\* one did (model.py:334-336).
THEOREM ErrorIsRealCorrect == Spec => []ErrorIsReal
<1>1. FieldsInv => ErrorIsReal
  BY DEF FieldsInv, Failures
<1> QED
  BY <1>1, FieldsInvariant, PTL

-----------------------------------------------------------------------------
(* The thread pool: what is the same of every task, its dependencies' exits *)

Records(t) == [context : DOMAIN Steps[t], given : Exceptions, answer : {"ends", "same", "raises"}]

Shapes ==
    /\ pc \in [Tasks -> {"idle", "queued", "thread", "body", "exiting", "exit thread", "done"}]
    /\ step \in [Tasks -> Nat]
    /\ raising \in [Tasks -> Exceptions] /\ received \in [Tasks -> Exceptions]
    /\ DOMAIN open = Tasks /\ DOMAIN opened = Tasks /\ DOMAIN resumed = Tasks
    /\ holders \subseteq Tasks /\ IsFiniteSet(holders) /\ Cardinality(holders) <= Connections

\* A task waits for a thread in one place, and only if it asked for one.
Waiting ==
    /\ queue \in Seq(Tasks)
    /\ \A i \in DOMAIN queue : pc[queue[i]] = "queued"
    /\ \A i, j \in DOMAIN queue : queue[i] = queue[j] => i = j
    /\ \A t \in Tasks : pc[t] = "queued" => \E i \in DOMAIN queue : queue[i] = t

\* The contexts still open are the first that were opened, those resumed the last, in
\* reverse; none is missing unless the call was cancelled.
StackOK(t) ==
    /\ open[t] \in Seq(DOMAIN Steps[t]) /\ opened[t] \in Seq(DOMAIN Steps[t])
    /\ resumed[t] \in Seq(Records(t))
    /\ \A i \in 1 .. Len(open[t]) : open[t][i] = opened[t][i]
    /\ \A i \in 1 .. Len(resumed[t]) :
          resumed[t][i].context = opened[t][Len(opened[t]) - i + 1]
    /\ Len(open[t]) + Len(resumed[t]) <= Len(opened[t])
    /\ raising[t] # Cancelled => Len(open[t]) + Len(resumed[t]) = Len(opened[t])

\* Nothing is resumed and nothing was raised before the exits begin.
PlaceOK(t) ==
    /\ pc[t] \in {"queued", "thread"} => step[t] \in DOMAIN Steps[t]
    /\ pc[t] \in {"idle", "queued", "thread", "body"} =>
          resumed[t] = <<>> /\ raising[t] = NoError /\ received[t] = NoError
    /\ pc[t] = "exit thread" => open[t] # <<>> /\ raising[t] # Cancelled
    /\ raising[t] = Unreachable => pc[t] = "done"
    /\ pc[t] = "done" => open[t] = <<>>

\* What a call that has ended leaves its caller.
EndOK(t) ==
    LET n == Len(resumed[t])
    IN  /\ raising[t] \notin {Cancelled, Unreachable} => Reaches(t, n, raising[t])
        /\ raising[t] = Unreachable => Reaches(t, n, NoError)
        /\ raising[t] = NoError => received[t] = NoError

\* A context is given what reaches it, and what reaches the others is on its way.
GivenOK(t) ==
    /\ \A i \in 1 .. Len(resumed[t]) : Reaches(t, i - 1, resumed[t][i].given)
    /\ pc[t] # "done" /\ raising[t] # Cancelled => Reaches(t, Len(resumed[t]), raising[t])
    /\ pc[t] = "done" => EndOK(t)

CallOK(t) == StackOK(t) /\ PlaceOK(t) /\ GivenOK(t)

PoolInv == Shapes /\ Waiting /\ \A t \in Tasks : CallOK(t)

\* Exceptions are told apart by who raised them.
LEMMA Identities ==
    /\ NoError \in Exceptions /\ Cancelled \in Exceptions /\ Unreachable \in Exceptions
    /\ FromFunction \in Exceptions
    /\ \A i \in Nat : FromDependency(i) \in Exceptions /\ FromContext(i) \in Exceptions
    /\ NoError # Cancelled /\ NoError # Unreachable /\ Cancelled # Unreachable
    /\ FromFunction \notin {NoError, Cancelled, Unreachable}
    /\ \A i : FromDependency(i) \notin {NoError, Cancelled, Unreachable}
    /\ \A i : FromContext(i) \notin {NoError, Cancelled, Unreachable}
BY DEF Exceptions, NoError, Cancelled, Unreachable, FromFunction, FromDependency, FromContext

\* What reaches where depends on what was resumed and received alone.
LEMMA SameReach ==
    ASSUME NEW t, resumed'[t] = resumed[t], received'[t] = received[t], NEW n, NEW e
    PROVE  Reaches(t, n, e)' <=> Reaches(t, n, e)
BY DEF Reaches

\* One more generator resumed: what reached those inside it did, and what it does with
\* what reached it reaches the next.
LEMMA OneMore ==
    ASSUME NEW t, NEW n \in Nat, received'[t] = received[t],
           \A i \in 1 .. n : resumed'[t][i] = resumed[t][i]
    PROVE  /\ \A m \in 0 .. n : \A e : Reaches(t, m, e) => Reaches(t, m, e)'
           /\ \A e : resumed'[t][n + 1].answer = "same" /\ Reaches(t, n, e) =>
                  Reaches(t, n + 1, e)'
           /\ \A e : resumed'[t][n + 1].answer = "ends" /\ e = NoError => Reaches(t, n + 1, e)'
           /\ \A e : /\ resumed'[t][n + 1].answer = "raises"
                    /\ e = FromContext(resumed'[t][n + 1].context)
                    => Reaches(t, n + 1, e)'
<1> DEFINE q == resumed'[t]
           Through(i, m) == \A j \in i + 1 .. m : q[j].answer = "same"
<1>1. \A m, e : Reaches(t, m, e)' <=>
          \/ Through(0, m) /\ e = received'[t]
          \/ \E i \in 1 .. m : Through(i, m) /\ q[i].answer = "ends" /\ e = NoError
          \/ \E i \in 1 .. m : Through(i, m) /\ q[i].answer = "raises" /\ e = FromContext(q[i].context)
  BY DEF Reaches, NoError, FromContext
<1>2. \A m \in 0 .. n : \A e : Reaches(t, m, e) <=>
          \/ Through(0, m) /\ e = received'[t]
          \/ \E i \in 1 .. m : Through(i, m) /\ q[i].answer = "ends" /\ e = NoError
          \/ \E i \in 1 .. m : Through(i, m) /\ q[i].answer = "raises" /\ e = FromContext(q[i].context)
  <2>1. SUFFICES ASSUME NEW m \in 0 .. n, NEW e
                 PROVE  Reaches(t, m, e) <=>
                          \/ Through(0, m) /\ e = received'[t]
                          \/ \E i \in 1 .. m : Through(i, m) /\ q[i].answer = "ends" /\ e = NoError
                          \/ \E i \in 1 .. m : /\ Through(i, m) /\ q[i].answer = "raises"
                                             /\ e = FromContext(q[i].context)
    OBVIOUS
  <2>2. \A i \in 1 .. m : q[i] = resumed[t][i]
    OBVIOUS
  <2>3. \A i \in 0 .. m : Through(i, m) <=> \A j \in i + 1 .. m : resumed[t][j].answer = "same"
    <3>1. \A i \in 0 .. m : \A j \in i + 1 .. m : j \in 1 .. m
      OBVIOUS
    <3> QED
      BY <2>2, <3>1
  <2>4. 0 \in 0 .. m /\ \A i \in 1 .. m : i \in 0 .. m
    OBVIOUS
  <2> HIDE DEF Through, q
  <2> QED
    BY <2>2, <2>3, <2>4 DEF Reaches
<1>3. \A m \in 0 .. n : \A e : Reaches(t, m, e) => Reaches(t, m, e)'
  <2> HIDE DEF Through, q
  <2> QED
    BY <1>1, <1>2
<1>4. ASSUME q[n + 1].answer = "same", NEW e, Reaches(t, n, e) PROVE Reaches(t, n + 1, e)'
  <2>1. \A i \in 0 .. n : Through(i, n) => Through(i, n + 1)
    <3>1. \A i \in 0 .. n : \A j \in i + 1 .. n + 1 : j \in i + 1 .. n \/ j = n + 1
      OBVIOUS
    <3> QED
      BY <1>4, <3>1
  <2>2. n \in 0 .. n /\ 0 \in 0 .. n /\ \A i \in 1 .. n : i \in 0 .. n /\ i \in 1 .. n + 1
    OBVIOUS
  <2> HIDE DEF Through, q
  <2> QED
    BY <1>1, <1>2, <1>4, <2>1, <2>2
<1>5. n + 1 \in 1 .. n + 1 /\ Through(n + 1, n + 1)
  OBVIOUS
<1> HIDE DEF Through
<1> QED
  BY <1>1, <1>3, <1>4, <1>5

\* The steps of one call are not felt by another.
LEMMA OtherCalls ==
    ASSUME NEW t, CallOK(t),
           pc'[t] = pc[t], step'[t] = step[t], raising'[t] = raising[t],
           received'[t] = received[t], open'[t] = open[t], opened'[t] = opened[t], resumed'[t] = resumed[t]
    PROVE  CallOK(t)'
<1>1. StackOK(t)'
  BY DEF CallOK, StackOK
<1>2. PlaceOK(t)'
  BY DEF CallOK, PlaceOK
<1>3. GivenOK(t)'
  BY SameReach DEF CallOK, GivenOK, EndOK
<1> QED
  BY <1>1, <1>2, <1>3 DEF CallOK

\* Who gets its own place right, and lets the queue alone, keeps the queue.
LEMMA SameQueue ==
    ASSUME PoolInv, NEW t \in Tasks, NEW x, pc[t] # "queued", x # "queued",
           pc' = [pc EXCEPT ![t] = x], queue' = queue
    PROVE  Waiting'
<1>1. \A u \in Tasks : pc'[u] = IF u = t THEN x ELSE pc[u]
  BY DEF PoolInv, Shapes
<1>2. queue \in Seq(Tasks) /\ \A i \in DOMAIN queue : queue[i] \in Tasks
  BY ElementOfSeq, LenProperties DEF PoolInv, Waiting
<1> QED
  BY <1>1, <1>2 DEF PoolInv, Waiting

\* On to the next dependency, in the queue, or to the function.
LEMMA GoesTo ==
    ASSUME PoolInv, NEW t \in Tasks, NEW n \in Nat \ {0}, pc[t] # "queued", GoTo(t, n)
    PROVE  \E x \in {"queued", "body"} :
              /\ pc' = [pc EXCEPT ![t] = x] /\ step' = [step EXCEPT ![t] = n] /\ Waiting'
              /\ x = "queued" => n \in DOMAIN Steps[t]
<1>0. Len(Steps[t]) \in Nat /\ DOMAIN Steps[t] = 1 .. Len(Steps[t])
  BY PoolAssumption, LenProperties DEF PoolAssumption
<1>1. CASE n <= Len(Steps[t])
  <2>1. /\ pc' = [pc EXCEPT ![t] = "queued"] /\ step' = [step EXCEPT ![t] = n]
        /\ queue' = Append(queue, t)
    BY <1>1 DEF GoTo
  <2>2. queue \in Seq(Tasks)
    BY DEF PoolInv, Waiting
  <2>3. /\ queue' \in Seq(Tasks) /\ Len(queue) \in Nat
        /\ DOMAIN queue = 1 .. Len(queue) /\ DOMAIN queue' = 1 .. Len(queue) + 1
        /\ queue'[Len(queue) + 1] = t
        /\ \A i \in 1 .. Len(queue) : queue'[i] = queue[i] /\ queue[i] \in Tasks
    BY <2>1, <2>2, Appended
  <2>4. \A i \in 1 .. Len(queue) : queue[i] # t /\ pc'[queue[i]] = "queued"
    BY <2>1, <2>3 DEF PoolInv, Shapes, Waiting
  <2>5. pc'[t] = "queued"
    BY <2>1 DEF PoolInv, Shapes
  <2>6. \A i \in DOMAIN queue' : i = Len(queue) + 1 \/ i \in 1 .. Len(queue)
    BY <2>3
  <2>7. \A i \in DOMAIN queue' : pc'[queue'[i]] = "queued"
    BY <2>3, <2>4, <2>5, <2>6
  <2>8. \A i, j \in DOMAIN queue' : queue'[i] = queue'[j] => i = j
    BY <2>3, <2>4, <2>6 DEF PoolInv, Waiting
  <2>9. ASSUME NEW u \in Tasks, pc'[u] = "queued" PROVE \E i \in DOMAIN queue' : queue'[i] = u
    <3>1. CASE u = t
      <4>1. Len(queue) + 1 \in DOMAIN queue'
        BY <2>3
      <4> QED
        BY <2>3, <3>1, <4>1
    <3>2. CASE u # t
      <4>1. PICK i \in DOMAIN queue : queue[i] = u
        BY <2>1, <2>9, <3>2 DEF PoolInv, Shapes, Waiting
      <4>2. i \in DOMAIN queue' /\ queue'[i] = u
        BY <2>3, <4>1
      <4> QED
        BY <4>2
    <3> QED
      BY <3>1, <3>2
  <2>10. Waiting'
    BY <2>3, <2>7, <2>8, <2>9 DEF Waiting
  <2>11. n \in DOMAIN Steps[t]
    BY <1>0, <1>1
  <2> QED
    BY <2>1, <2>10, <2>11
<1>2. CASE ~(n <= Len(Steps[t]))
  <2>1. /\ pc' = [pc EXCEPT ![t] = "body"] /\ step' = [step EXCEPT ![t] = n]
        /\ queue' = queue
    BY <1>2 DEF GoTo
  <2>2. Waiting'
    BY <2>1, SameQueue
  <2> QED
    BY <2>1, <2>2
<1> QED
  BY <1>1, <1>2

Only(t) ==
    \A u \in Tasks : u # t =>
        /\ pc'[u] = pc[u] /\ step'[u] = step[u]
        /\ raising'[u] = raising[u] /\ received'[u] = received[u]
        /\ open'[u] = open[u] /\ opened'[u] = opened[u] /\ resumed'[u] = resumed[u]

\* A step of one call.
LEMMA OneCall ==
    ASSUME PoolInv, NEW t \in Tasks, Only(t), Shapes', Waiting', CallOK(t)'
    PROVE  PoolInv'
<1>1. ASSUME NEW u \in Tasks PROVE CallOK(u)'
  <2>1. CASE u = t
    BY <2>1
  <2>2. CASE u # t
    <3>1. CallOK(u)
      BY DEF PoolInv
    <3> QED
      BY <2>2, <3>1, OtherCalls DEF Only
  <2> QED
    BY <2>1, <2>2
<1> QED
  BY <1>1 DEF PoolInv

\* A call that is cancelled, or fails, has the stack it had.
LEMMA SameStack ==
    ASSUME NEW t, StackOK(t),
           open'[t] = open[t], opened'[t] = opened[t], resumed'[t] = resumed[t],
           raising'[t] = raising[t] \/ raising'[t] = Cancelled \/ raising[t] # Cancelled
    PROVE  StackOK(t)'
BY DEF StackOK

\* Contexts already resumed were given what they were given.
LEMMA SameGiven ==
    ASSUME NEW t, GivenOK(t), resumed'[t] = resumed[t], received'[t] = received[t],
           pc[t] # "done", pc'[t] # "done", raising'[t] = raising[t] \/ raising'[t] = Cancelled
    PROVE  GivenOK(t)'
BY SameReach DEF GivenOK

\* An exception that leaves the with-block reaches the innermost context.
LEMMA NewGiven ==
    ASSUME NEW t, resumed'[t] = <<>>, received'[t] = raising'[t], pc'[t] # "done"
    PROVE  GivenOK(t)'
<1>1. Len(resumed'[t]) = 0 /\ 0 + 1 .. 0 = {} /\ 1 .. 0 = {}
  OBVIOUS
<1>2. Reaches(t, 0, raising[t])'
  BY <1>1 DEF Reaches
<1> QED
  BY <1>1, <1>2 DEF GivenOK

\* A call starts, or a function returns in its thread.
LEMMA GoOnStep ==
    ASSUME PoolInv, NEW t \in Tasks, StartCall(t) \/ FunctionReturns(t)
    PROVE  PoolInv'
<1>1. PICK n \in Nat \ {0} :
          /\ GoTo(t, n) /\ pc[t] \in {"idle", "thread"}
          /\ UNCHANGED <<open, raising, received, holders, opened, resumed>>
  <2>1. CASE StartCall(t)
    BY <2>1 DEF StartCall
  <2>2. CASE FunctionReturns(t)
    <3>1. step[t] \in Nat
      BY DEF PoolInv, Shapes
    <3>2. step[t] + 1 \in Nat \ {0}
      BY <3>1
    <3> QED
      BY <2>2, <3>2 DEF FunctionReturns
  <2> QED
    BY <2>1, <2>2
<1>2. PICK x \in {"queued", "body"} :
          /\ pc' = [pc EXCEPT ![t] = x] /\ step' = [step EXCEPT ![t] = n] /\ Waiting'
          /\ x = "queued" => n \in DOMAIN Steps[t]
  BY <1>1, GoesTo
<1>3. Shapes' /\ Only(t) /\ pc'[t] = x /\ step'[t] = n
  BY <1>1, <1>2 DEF PoolInv, Shapes, Only
<1>4. CallOK(t)
  BY DEF PoolInv
<1>5. StackOK(t)'
  BY <1>1, <1>4, SameStack DEF CallOK
<1>6. PlaceOK(t)'
  BY <1>1, <1>2, <1>3, <1>4, Identities DEF CallOK, PlaceOK
<1>7. GivenOK(t)'
  BY <1>1, <1>3, <1>4, SameGiven DEF CallOK
<1> QED
  BY <1>2, <1>3, <1>5, <1>6, <1>7, OneCall DEF CallOK

\* The first that waits gets a thread.
LEMMA ThreadStep == ASSUME PoolInv, NEW t \in Tasks, GetThread(t) PROVE PoolInv'
<1>1. /\ queue # <<>> /\ Head(queue) = t /\ queue' = Tail(queue)
      /\ pc' = [pc EXCEPT ![t] = "thread"]
      /\ UNCHANGED <<step, open, raising, received, holders, opened, resumed>>
  BY DEF GetThread
<1>2. queue \in Seq(Tasks)
  BY DEF PoolInv, Waiting
<1>3. PICK k \in Nat : Len(queue) = k + 1
  <2>1. Len(queue) \in Nat \ {0}
    BY <1>1, <1>2, EmptySeq
  <2>2. Len(queue) - 1 \in Nat /\ Len(queue) = (Len(queue) - 1) + 1
    BY <2>1
  <2> QED
    BY <2>2
<1>4. /\ DOMAIN queue = 1 .. k + 1 /\ queue[1] = t
      /\ queue' \in Seq(Tasks) /\ DOMAIN queue' = 1 .. k
      /\ \A i \in 1 .. k : queue'[i] = queue[i + 1]
  <2>1. DOMAIN queue = 1 .. k + 1 /\ queue[1] = t
    BY <1>1, <1>2, <1>3, First, LenProperties
  <2>2. queue' \in Seq(Tasks) /\ Len(queue') = k /\ \A i \in 1 .. k : queue'[i] = queue[i + 1]
    BY <1>1, <1>2, <1>3, HeadTailProperties
  <2> QED
    BY <2>1, <2>2, LenProperties
<1>5. pc[t] = "queued" /\ \A i \in 1 .. k : queue[i + 1] # t /\ pc[queue[i + 1]] = "queued"
  <2>1. 1 \in DOMAIN queue /\ \A i \in 1 .. k : i + 1 \in DOMAIN queue /\ i + 1 # 1
    BY <1>4
  <2> QED
    BY <1>4, <2>1 DEF PoolInv, Waiting
<1>6. Waiting'
  <2>1. \A i \in 1 .. k : queue[i + 1] \in Tasks
    BY <1>2, <1>4, ElementOfSeq
  <2>2. \A i \in DOMAIN queue' : pc'[queue'[i]] = "queued"
    BY <1>1, <1>4, <1>5, <2>1 DEF PoolInv, Shapes
  <2>3. ASSUME NEW i \in DOMAIN queue', NEW j \in DOMAIN queue', queue'[i] = queue'[j]
        PROVE  i = j
    <3>1. i + 1 \in DOMAIN queue /\ j + 1 \in DOMAIN queue /\ queue[i + 1] = queue[j + 1]
      BY <1>4, <2>3
    <3>2. i + 1 = j + 1
      BY <3>1 DEF PoolInv, Waiting
    <3> QED
      BY <1>4, <3>2
  <2>4. ASSUME NEW u \in Tasks, pc'[u] = "queued" PROVE \E i \in DOMAIN queue' : queue'[i] = u
    <3>1. u # t /\ pc[u] = "queued"
      BY <1>1, <2>4 DEF PoolInv, Shapes
    <3>2. PICK i \in 1 .. k + 1 : queue[i] = u
      BY <1>4, <3>1 DEF PoolInv, Waiting
    <3>3. i # 1
      BY <1>4, <3>1, <3>2
    <3>4. i - 1 \in 1 .. k /\ (i - 1) + 1 = i
      BY <3>3
    <3> QED
      BY <1>4, <3>2, <3>4
  <2> QED
    BY <1>4, <2>2, <2>3, <2>4 DEF Waiting
<1>7. Shapes' /\ Only(t) /\ pc'[t] = "thread"
  BY <1>1 DEF PoolInv, Shapes, Only
<1>8. CallOK(t)
  BY DEF PoolInv
<1>9. StackOK(t)'
  BY <1>1, <1>8, SameStack DEF CallOK
<1>10. PlaceOK(t)'
  BY <1>1, <1>5, <1>7, <1>8, Identities DEF CallOK, PlaceOK
<1>11. GivenOK(t)'
  BY <1>1, <1>5, <1>7, <1>8, SameGiven DEF CallOK
<1> QED
  BY <1>6, <1>7, <1>9, <1>10, <1>11, OneCall DEF CallOK

\* A context is entered in its thread and put on the stack (utils.py:166-174).
LEMMA EnterStep == ASSUME PoolInv, NEW t \in Tasks, Enters(t) PROVE PoolInv'
<1>0. CallOK(t)
  BY DEF PoolInv
<1>1. /\ pc[t] = "thread" /\ GoTo(t, step[t] + 1)
      /\ open' = [open EXCEPT ![t] = Append(open[t], step[t])]
      /\ opened' = [opened EXCEPT ![t] = Append(opened[t], step[t])]
      /\ \/ holders' = holders \cup {t} /\ Cardinality(holders) < Connections
         \/ holders' = holders
      /\ UNCHANGED <<raising, received, resumed>>
  BY DEF Enters, Push
<1>2. /\ step[t] \in DOMAIN Steps[t] /\ resumed[t] = <<>>
      /\ raising[t] = NoError /\ received[t] = NoError
  BY <1>0, <1>1 DEF CallOK, PlaceOK
<1>3. step[t] + 1 \in Nat \ {0}
  <2>1. step[t] \in Nat
    BY DEF PoolInv, Shapes
  <2> QED
    BY <2>1
<1>4. PICK x \in {"queued", "body"} :
          /\ pc' = [pc EXCEPT ![t] = x] /\ step' = [step EXCEPT ![t] = step[t] + 1] /\ Waiting'
          /\ x = "queued" => step[t] + 1 \in DOMAIN Steps[t]
  BY <1>1, <1>3, GoesTo
<1>5. holders' \subseteq Tasks /\ IsFiniteSet(holders') /\ Cardinality(holders') <= Connections
  <2>1. Cardinality(holders) \in Nat /\ IsFiniteSet(holders) /\ holders \subseteq Tasks
    BY FS_CardinalityType DEF PoolInv, Shapes
  <2>2. IsFiniteSet(holders \cup {t}) /\ Cardinality(holders \cup {t}) <= Cardinality(holders) + 1
    BY <2>1, FS_AddElement
  <2>3. Cardinality(holders \cup {t}) \in Nat
    BY <2>2, FS_CardinalityType
  <2> QED
    <3>1. Connections \in Nat /\ Cardinality(holders) <= Connections
      BY PoolAssumption DEF PoolInv, Shapes, PoolAssumption
    <3>2. CASE holders' = holders
      BY <2>1, <3>1, <3>2
    <3>3. CASE holders' = holders \cup {t} /\ Cardinality(holders) < Connections
      <4>1. Cardinality(holders \cup {t}) <= Connections
        BY <2>1, <2>2, <2>3, <3>1, <3>3
      <4> QED
        BY <2>1, <2>2, <3>3, <4>1
    <3> QED
      BY <1>1, <3>2, <3>3
<1>6. Shapes' /\ Only(t) /\ pc'[t] = x /\ step'[t] = step[t] + 1
  BY <1>1, <1>3, <1>4, <1>5 DEF PoolInv, Shapes, Only
<1>7. StackOK(t)'
  <2> DEFINE o == open[t]
             d == opened[t]
             e == step[t]
             R == DOMAIN Steps[t]
  <2>1. /\ o \in Seq(R) /\ d \in Seq(R)
        /\ \A i \in 1 .. Len(o) : o[i] = d[i]
        /\ Len(o) = Len(d)
    <3>1. Len(resumed[t]) = 0
      BY <1>2, EmptySeq
    <3>2. /\ o \in Seq(R) /\ d \in Seq(R)
          /\ \A i \in 1 .. Len(o) : o[i] = d[i]
          /\ Len(o) + Len(resumed[t]) = Len(d)
      BY <1>0, <1>2, Identities DEF CallOK, StackOK
    <3>3. Len(o) \in Nat
      BY <3>2, LenProperties
    <3> QED
      BY <3>1, <3>2, <3>3
  <2>2. /\ open'[t] = Append(o, e) /\ opened'[t] = Append(d, e)
        /\ resumed'[t] = <<>> /\ raising'[t] = NoError
    BY <1>1, <1>2 DEF PoolInv, Shapes
  <2>0. e \in R
    BY <1>2
  <2> HIDE DEF o, d, e, R
  <2>3. /\ Append(o, e) \in Seq(R)
        /\ Len(Append(o, e)) = Len(o) + 1 /\ Len(o) \in Nat
        /\ Append(o, e)[Len(o) + 1] = e
        /\ \A i \in 1 .. Len(o) : Append(o, e)[i] = o[i]
    BY <2>0, <2>1, Appended
  <2>4. /\ Append(d, e) \in Seq(R)
        /\ Len(Append(d, e)) = Len(d) + 1
        /\ Append(d, e)[Len(d) + 1] = e
        /\ \A i \in 1 .. Len(d) : Append(d, e)[i] = d[i]
    BY <2>0, <2>1, Appended
  <2>5. ASSUME NEW i \in 1 .. Len(o) + 1 PROVE Append(o, e)[i] = Append(d, e)[i]
    <3>1. CASE i \in 1 .. Len(o)
      BY <2>1, <2>3, <2>4, <3>1
    <3>2. CASE i = Len(o) + 1
      BY <2>1, <2>3, <2>4, <3>2
    <3>3. i \in 1 .. Len(o) \/ i = Len(o) + 1
      BY <2>3
    <3> QED
      BY <3>1, <3>2, <3>3
  <2>6. resumed'[t] \in Seq(Records(t)) /\ Len(resumed'[t]) = 0
    BY <2>2, EmptySeq
  <2>7. /\ open'[t] \in Seq(R) /\ opened'[t] \in Seq(R)
        /\ Len(open'[t]) = Len(o) + 1 /\ Len(opened'[t]) = Len(o) + 1
        /\ \A i \in 1 .. Len(o) + 1 : open'[t][i] = opened'[t][i]
    BY <2>1, <2>2, <2>3, <2>4, <2>5
  <2> QED
    BY <2>3, <2>6, <2>7 DEF StackOK, Records, R
<1>8. PlaceOK(t)'
  BY <1>1, <1>2, <1>4, <1>6, Identities DEF PlaceOK
<1>9. GivenOK(t)'
  BY <1>0, <1>1, <1>6, SameGiven DEF CallOK
<1> QED
  BY <1>4, <1>6, <1>7, <1>8, <1>9, OneCall DEF CallOK

\* A dependency raises, or the function ends: that is what the with-block ends with.
LEMMA BlockEndsStep ==
    ASSUME PoolInv, NEW t \in Tasks, Fails(t) \/ BodyEnds(t)
    PROVE  PoolInv'
<1>0. CallOK(t)
  BY DEF PoolInv
<1>1. PICK e \in Exceptions \ {Cancelled, Unreachable} :
          /\ pc[t] \in {"thread", "body"} /\ pc' = [pc EXCEPT ![t] = "exiting"]
          /\ raising' = [raising EXCEPT ![t] = e] /\ received' = [received EXCEPT ![t] = e]
          /\ UNCHANGED <<step, queue, open, holders, opened, resumed>>
  <2>1. CASE Fails(t)
    <3>1. FromDependency(step[t]) \in Exceptions \ {Cancelled, Unreachable}
      BY Identities DEF PoolInv, Shapes
    <3> QED
      BY <2>1, <3>1 DEF Fails
  <2>2. CASE BodyEnds(t)
    <3>1. {NoError, FromFunction} \subseteq Exceptions \ {Cancelled, Unreachable}
      BY Identities
    <3> QED
      BY <2>2, <3>1 DEF BodyEnds
  <2> QED
    BY <2>1, <2>2
<1>2. Shapes' /\ Only(t) /\ pc'[t] = "exiting" /\ raising'[t] = e /\ received'[t] = e
  BY <1>1 DEF PoolInv, Shapes, Only
<1>3. Waiting'
  BY <1>1, SameQueue
<1>4. raising[t] = NoError /\ resumed[t] = <<>>
  BY <1>0, <1>1 DEF CallOK, PlaceOK
<1>5. StackOK(t)'
  BY <1>0, <1>1, <1>4, Identities, SameStack DEF CallOK
<1>6. PlaceOK(t)'
  BY <1>1, <1>2 DEF PlaceOK
<1>7. GivenOK(t)'
  BY <1>1, <1>2, <1>4, NewGiven
<1> QED
  BY <1>2, <1>3, <1>5, <1>6, <1>7, OneCall DEF CallOK

\* An exit asks for its thread.
LEMMA ExitStep ==
    ASSUME PoolInv, NEW t \in Tasks, Exits(t)
    PROVE  PoolInv'
<1>0. CallOK(t)
  BY DEF PoolInv
<1>1. /\ pc[t] = "exiting" /\ open[t] # <<>> /\ raising[t] # Cancelled
      /\ pc' = [pc EXCEPT ![t] = "exit thread"]
      /\ UNCHANGED <<step, queue, open, raising, received, holders, opened, resumed>>
  BY DEF Exits
<1>2. Shapes' /\ Only(t) /\ pc'[t] = "exit thread"
  BY <1>1 DEF PoolInv, Shapes, Only
<1>3. Waiting'
  BY <1>1, SameQueue
<1>4. StackOK(t)'
  BY <1>0, <1>1, SameStack DEF CallOK
<1>5. PlaceOK(t)'
  BY <1>0, <1>1, <1>2 DEF CallOK, PlaceOK
<1>6. GivenOK(t)'
  BY <1>0, <1>1, <1>2, SameGiven DEF CallOK
<1> QED
  BY <1>2, <1>3, <1>4, <1>5, <1>6, OneCall DEF CallOK

\* The call ends, with its value, the exception on its way, or the one of the wrapper when
\* nothing is left of the one received (use.py:166-177).
LEMMA EndStep ==
    ASSUME PoolInv, NEW t \in Tasks, Ends(t)
    PROVE  PoolInv'
<1>0. CallOK(t) /\ raising[t] \in Exceptions
  BY DEF PoolInv, Shapes
<1> DEFINE e == IF raising[t] = NoError /\ received[t] # NoError THEN Unreachable ELSE raising[t]
<1>1. /\ pc[t] = "exiting" /\ open[t] = <<>>
      /\ pc' = [pc EXCEPT ![t] = "done"] /\ raising' = [raising EXCEPT ![t] = e]
      /\ UNCHANGED <<step, queue, open, received, holders, opened, resumed>>
  BY DEF Ends
<1>2. e \in Exceptions
  BY <1>0, Identities
<1> HIDE DEF e
<1>3. Shapes' /\ Only(t) /\ pc'[t] = "done" /\ raising'[t] = e
  BY <1>1, <1>2 DEF PoolInv, Shapes, Only
<1>4. Waiting'
  BY <1>1, SameQueue
<1>5. StackOK(t)'
  BY <1>0, <1>1, <1>3, Identities, SameStack DEF CallOK, e
<1>6. PlaceOK(t)'
  BY <1>1, <1>3 DEF PlaceOK
<1>7. GivenOK(t)'
  <2>1. resumed'[t] = resumed[t] /\ received'[t] = received[t]
    BY <1>1
  <2>2. raising[t] # Unreachable
    BY <1>0, <1>1 DEF CallOK, PlaceOK
  <2>3. raising[t] # Cancelled => Reaches(t, Len(resumed[t]), raising[t])
    BY <1>0, <1>1 DEF CallOK, GivenOK
  <2>4. EndOK(t)'
    <3>1. CASE raising[t] = NoError /\ received[t] # NoError
      BY <1>3, <2>1, <2>3, <3>1, Identities, SameReach DEF EndOK, e
    <3>2. CASE ~(raising[t] = NoError /\ received[t] # NoError)
      BY <1>3, <2>1, <2>2, <2>3, <3>2, Identities, SameReach DEF EndOK, e
    <3> QED
      BY <3>1, <3>2
  <2>5. \A i \in 1 .. Len(resumed'[t]) : Reaches(t, i - 1, resumed[t][i].given)'
    BY <1>0, <2>1, SameReach DEF CallOK, GivenOK
  <2> QED
    BY <1>3, <2>4, <2>5 DEF GivenOK
<1> QED
  BY <1>3, <1>4, <1>5, <1>6, <1>7, OneCall DEF CallOK

\* The generator of a context of a cancelled call is not resumed: it leaves the stack, and
\* is not among those resumed (utils.py:176-184).
LEMMA PassStep == ASSUME PoolInv, NEW t \in Tasks, PassesBy(t) PROVE PoolInv'
<1>0. CallOK(t)
  BY DEF PoolInv
<1>1. /\ pc[t] = "exiting" /\ open[t] # <<>> /\ raising[t] = Cancelled
      /\ open' = [open EXCEPT ![t] = Front(open[t])]
      /\ UNCHANGED <<pc, step, queue, raising, received, holders, opened, resumed>>
  BY DEF PassesBy
<1>2. Shapes' /\ Only(t) /\ Waiting' /\ open'[t] = Front(open[t])
  BY <1>1 DEF PoolInv, Shapes, Only, Waiting
<1>3. open[t] \in Seq(DOMAIN Steps[t])
  BY <1>0 DEF CallOK, StackOK
<1>4. /\ open'[t] \in Seq(DOMAIN Steps[t])
      /\ Len(open'[t]) = Len(open[t]) - 1 /\ Len(open[t]) \in Nat \ {0}
      /\ \A i \in 1 .. Len(open[t]) - 1 : open'[t][i] = open[t][i]
  BY <1>1, <1>2, <1>3, AllButLast
<1>5. StackOK(t)'
  <2>1. /\ opened'[t] = opened[t] /\ resumed'[t] = resumed[t] /\ raising'[t] = Cancelled
        /\ Len(opened[t]) \in Nat /\ Len(resumed[t]) \in Nat
    BY <1>0, <1>1, LenProperties DEF CallOK, StackOK
  <2>2. \A i \in 1 .. Len(open'[t]) : open'[t][i] = opened'[t][i]
    <3>1. \A i \in 1 .. Len(open[t]) : open[t][i] = opened[t][i]
      BY <1>0 DEF CallOK, StackOK
    <3>2. \A i \in 1 .. Len(open'[t]) : i \in 1 .. Len(open[t]) /\ open'[t][i] = open[t][i]
      BY <1>4
    <3> QED
      BY <2>1, <3>1, <3>2
  <2>3. Len(open'[t]) + Len(resumed'[t]) <= Len(opened'[t])
    <3>1. Len(open[t]) + Len(resumed[t]) <= Len(opened[t])
      BY <1>0 DEF CallOK, StackOK
    <3>2. \A a, b, c \in Nat : a + b <= c => (a - 1) + b <= c
      OBVIOUS
    <3>3. (Len(open[t]) - 1) + Len(resumed[t]) <= Len(opened[t])
      BY <1>4, <2>1, <3>1, <3>2
    <3> QED
      BY <1>4, <2>1, <3>3
  <2> QED
    BY <1>0, <1>4, <2>1, <2>2, <2>3 DEF CallOK, StackOK, Records
<1>6. PlaceOK(t)'
  BY <1>1, Identities DEF PlaceOK
<1>7. GivenOK(t)'
  BY <1>0, <1>1, SameGiven DEF CallOK
<1> QED
  BY <1>2, <1>5, <1>6, <1>7, OneCall DEF CallOK

\* A call is cancelled where it awaits: it waits for no thread any more.
LEMMA CancelStep == ASSUME PoolInv, NEW t \in Tasks, Cancel(t) PROVE PoolInv'
<1>0. CallOK(t)
  BY DEF PoolInv
<1>1. /\ raising' = [raising EXCEPT ![t] = Cancelled] /\ pc' = [pc EXCEPT ![t] = "exiting"]
      /\ UNCHANGED <<step, open, received, holders, opened, resumed>>
  BY DEF Cancel
<1>2. Shapes' /\ Only(t) /\ pc'[t] = "exiting" /\ raising'[t] = Cancelled
  BY <1>1, Identities DEF PoolInv, Shapes, Only
<1>3. Waiting'
  <2>1. CASE pc[t] # "queued"
    <3>1. queue' = queue
      BY <2>1 DEF Cancel
    <3> QED
      BY <1>1, <2>1, <3>1, SameQueue
  <2>2. CASE pc[t] = "queued"
    <3>1. PICK n \in DOMAIN queue : queue[n] = t /\ queue' = RemoveAt(queue, n)
      BY <2>2 DEF Cancel
    <3>2. queue \in Seq(Tasks)
      BY DEF PoolInv, Waiting
    <3>3. /\ queue' \in Seq(Tasks) /\ Len(queue) \in Nat \ {0} /\ n \in 1 .. Len(queue)
          /\ DOMAIN queue = 1 .. Len(queue) /\ DOMAIN queue' = 1 .. Len(queue) - 1
          /\ \A i \in 1 .. Len(queue) - 1 : queue'[i] = IF i < n THEN queue[i] ELSE queue[i + 1]
      BY <3>1, <3>2, Removed, LenProperties
    <3> DEFINE from(i) == IF i < n THEN i ELSE i + 1
    <3>4. \A i \in DOMAIN queue' :
              from(i) \in DOMAIN queue /\ from(i) # n /\ queue'[i] = queue[from(i)]
      BY <3>3
    <3>5. \A i, j \in DOMAIN queue' : from(i) = from(j) => i = j
      BY <3>3
    <3>6. \A k \in DOMAIN queue : k # n => \E i \in DOMAIN queue' : from(i) = k
      <4>1. ASSUME NEW k \in DOMAIN queue, k < n PROVE k \in DOMAIN queue' /\ from(k) = k
        BY <3>3, <4>1
      <4>2. ASSUME NEW k \in DOMAIN queue, k > n
            PROVE  k - 1 \in DOMAIN queue' /\ from(k - 1) = k
        BY <3>3, <4>2
      <4>3. \A k \in DOMAIN queue : k # n => k < n \/ k > n
        BY <3>3
      <4> QED
        BY <4>1, <4>2, <4>3
    <3> HIDE DEF from
    <3>7. \A i \in DOMAIN queue' : pc'[queue'[i]] = "queued"
      <4>1. ASSUME NEW i \in DOMAIN queue' PROVE queue[from(i)] # t
        BY <3>1, <3>4 DEF PoolInv, Waiting
      <4>2. ASSUME NEW i \in DOMAIN queue'
            PROVE  queue[from(i)] \in Tasks /\ pc[queue[from(i)]] = "queued"
        BY <3>2, <3>3, <3>4, ElementOfSeq DEF PoolInv, Waiting
      <4> QED
        BY <1>1, <3>4, <4>1, <4>2 DEF PoolInv, Shapes
    <3>8. \A i, j \in DOMAIN queue' : queue'[i] = queue'[j] => i = j
      BY <3>4, <3>5 DEF PoolInv, Waiting
    <3>9. ASSUME NEW u \in Tasks, pc'[u] = "queued" PROVE \E i \in DOMAIN queue' : queue'[i] = u
      <4>1. u # t /\ pc[u] = "queued"
        BY <1>1, <3>9 DEF PoolInv, Shapes
      <4>2. PICK k \in DOMAIN queue : queue[k] = u
        BY <4>1 DEF PoolInv, Waiting
      <4>3. k # n
        BY <3>1, <4>1, <4>2
      <4> QED
        BY <3>4, <3>6, <4>2, <4>3
    <3> QED
      BY <3>3, <3>7, <3>8, <3>9 DEF Waiting
  <2> QED
    BY <2>1, <2>2
<1>4. StackOK(t)'
  BY <1>0, <1>1, <1>2, SameStack DEF CallOK
<1>5. PlaceOK(t)'
  BY <1>2, Identities DEF PlaceOK
<1>6. GivenOK(t)'
  <2>1. pc[t] # "done"
    BY DEF Cancel
  <2> QED
    BY <1>0, <1>1, <1>2, <2>1, SameGiven DEF CallOK
<1> QED
  BY <1>2, <1>3, <1>4, <1>5, <1>6, OneCall DEF CallOK

\* The innermost context is resumed with what is on its way, and leaves what it leaves.
LEMMA ResumedStep == ASSUME PoolInv, NEW t \in Tasks, Resumed(t) PROVE PoolInv'
<1>0. CallOK(t) /\ raising[t] \in Exceptions
  BY DEF PoolInv, Shapes
<1>1. PICK answer \in Answers(raising[t]) :
          /\ raising' = [raising EXCEPT ![t] = AfterExit(raising[t], answer, Last(open[t]))]
          /\ resumed' = [resumed EXCEPT ![t] = Append(resumed[t],
                [context |-> Last(open[t]), given |-> raising[t], answer |-> answer])]
          /\ open' = [open EXCEPT ![t] = Front(open[t])]
          /\ pc[t] = "exit thread" /\ pc' = [pc EXCEPT ![t] = "exiting"]
          /\ holders' \in {holders \ {t}, holders}
          /\ UNCHANGED <<step, queue, received, opened>>
  BY DEF Resumed
<1>2. open[t] # <<>> /\ raising[t] # Cancelled /\ raising[t] # Unreachable
  BY <1>0, <1>1 DEF CallOK, PlaceOK
<1> DEFINE left == AfterExit(raising[t], answer, Last(open[t]))
<1>3. /\ answer \in {"ends", "same", "raises"}
      /\ left = CASE answer = "ends" -> NoError
                  [] answer = "same" -> raising[t]
                  [] answer = "raises" -> FromContext(Last(open[t]))
  BY DEF Answers, AfterExit, Ok
<1>20. left \in Exceptions \ {Cancelled, Unreachable}
  <2>1. Last(open[t]) \in Nat
    <3>1. open[t] \in Seq(DOMAIN Steps[t]) /\ Steps[t] \in Seq(Kinds)
      BY <1>0, PoolAssumption DEF CallOK, StackOK, PoolAssumption
    <3>2. Last(open[t]) \in DOMAIN Steps[t]
      BY <1>2, <3>1, AllButLast
    <3> QED
      BY <3>1, <3>2
  <2> QED
    BY <1>0, <1>2, <1>3, <2>1, Identities
<1> HIDE DEF left
<1>4. holders' \subseteq Tasks /\ IsFiniteSet(holders') /\ Cardinality(holders') <= Connections
  <2>1. Cardinality(holders) \in Nat /\ IsFiniteSet(holders) /\ holders \subseteq Tasks
    BY FS_CardinalityType DEF PoolInv, Shapes
  <2>2. IsFiniteSet(holders \ {t}) /\ Cardinality(holders \ {t}) <= Cardinality(holders)
    BY <2>1, FS_RemoveElement
  <2>3. Cardinality(holders \ {t}) \in Nat
    BY <2>2, FS_CardinalityType
  <2>4. Connections \in Nat /\ Cardinality(holders) <= Connections
    BY PoolAssumption DEF PoolInv, Shapes, PoolAssumption
  <2>5. Cardinality(holders \ {t}) <= Connections
    BY <2>1, <2>2, <2>3, <2>4
  <2> QED
    BY <1>1, <2>1, <2>2, <2>4, <2>5
<1>5. Shapes' /\ Only(t) /\ pc'[t] = "exiting"
  <2>1. raising' = [raising EXCEPT ![t] = left]
    BY <1>1 DEF left
  <2> QED
    BY <1>1, <1>4, <1>20, <2>1 DEF PoolInv, Shapes, Only
<1>6. Waiting'
  BY <1>1, SameQueue
<1> DEFINE o == open[t]
           d == opened[t]
           r == resumed[t]
           rec == [context |-> Last(open[t]), given |-> raising[t], answer |-> answer]
           R == DOMAIN Steps[t]
<1>7. /\ o \in Seq(R) /\ d \in Seq(R) /\ r \in Seq(Records(t)) /\ o # <<>>
      /\ \A i \in 1 .. Len(o) : o[i] = d[i]
      /\ \A i \in 1 .. Len(r) : r[i].context = d[Len(d) - i + 1]
      /\ Len(o) + Len(r) = Len(d)
      /\ \A i \in 1 .. Len(r) : Reaches(t, i - 1, r[i].given)
      /\ Reaches(t, Len(r), raising[t])
  BY <1>0, <1>1, <1>2 DEF CallOK, StackOK, GivenOK
<1>8. /\ open'[t] = Front(o) /\ opened'[t] = d /\ resumed'[t] = Append(r, rec)
      /\ raising'[t] = left /\ received'[t] = received[t]
  BY <1>1 DEF PoolInv, Shapes, left
<1>9. Last(o) \in R /\ Last(o) = o[Len(o)]
  BY <1>7, AllButLast
<1>10. /\ rec \in Records(t) /\ rec.context = Last(o) /\ rec.given = raising[t]
       /\ rec.answer = answer
  BY <1>0, <1>3, <1>9 DEF Records
<1>21. left = CASE answer = "ends" -> NoError
               [] answer = "same" -> raising[t]
               [] answer = "raises" -> FromContext(Last(o))
  BY <1>3
<1> HIDE DEF o, d, r, rec, R
<1>11. /\ Front(o) \in Seq(R) /\ Len(Front(o)) = Len(o) - 1 /\ Len(o) \in Nat \ {0}
       /\ \A i \in 1 .. Len(o) - 1 : Front(o)[i] = o[i]
  BY <1>7, AllButLast
<1>12. /\ Append(r, rec) \in Seq(Records(t)) /\ Len(Append(r, rec)) = Len(r) + 1
       /\ Len(r) \in Nat /\ Append(r, rec)[Len(r) + 1] = rec
       /\ \A i \in 1 .. Len(r) : Append(r, rec)[i] = r[i]
  BY <1>7, <1>10, Appended
<1>13. Len(d) \in Nat
  BY <1>7, LenProperties
<1>14. StackOK(t)'
  <2>1. ASSUME NEW i \in 1 .. Len(o) - 1 PROVE Front(o)[i] = d[i]
    <3>1. i \in 1 .. Len(o) /\ Front(o)[i] = o[i]
      BY <1>11
    <3>2. \A j \in 1 .. Len(o) : o[j] = d[j]
      BY <1>7
    <3> QED
      BY <3>1, <3>2
  <2>2. ASSUME NEW i \in 1 .. Len(r) + 1
        PROVE  Append(r, rec)[i].context = d[Len(d) - i + 1]
    <3>1. CASE i \in 1 .. Len(r)
      BY <1>7, <1>12, <3>1
    <3>2. CASE i = Len(r) + 1
      <4>1. Len(d) - i + 1 = Len(o) /\ Len(o) \in 1 .. Len(o)
        BY <1>7, <1>11, <1>12, <1>13, <3>2
      <4>2. Append(r, rec)[i] = rec /\ d[Len(o)] = Last(o)
        BY <1>7, <1>9, <1>12, <3>2, <4>1
      <4> QED
        BY <1>10, <4>1, <4>2
    <3>3. i \in 1 .. Len(r) \/ i = Len(r) + 1
      BY <1>12
    <3> QED
      BY <3>1, <3>2, <3>3
  <2>3. Len(Front(o)) + Len(Append(r, rec)) = Len(d)
    <3>1. \A a, b, c \in Nat : a + b = c => (a - 1) + (b + 1) = c
      OBVIOUS
    <3>2. Len(o) + Len(r) = Len(d) /\ Len(o) \in Nat /\ Len(r) \in Nat /\ Len(d) \in Nat
      BY <1>7, <1>11, <1>12, <1>13
    <3>3. (Len(o) - 1) + (Len(r) + 1) = Len(d)
      BY <3>1, <3>2
    <3> QED
      BY <1>11, <1>12, <3>3
  <2>4. /\ open'[t] \in Seq(R) /\ opened'[t] \in Seq(R) /\ resumed'[t] \in Seq(Records(t))
        /\ Len(open'[t]) = Len(o) - 1 /\ Len(resumed'[t]) = Len(r) + 1
        /\ Len(open'[t]) + Len(resumed'[t]) = Len(opened'[t])
    BY <1>7, <1>8, <1>11, <1>12, <2>3
  <2>5. \A i \in 1 .. Len(open'[t]) : open'[t][i] = opened'[t][i]
    BY <1>8, <2>1, <2>4
  <2>6. \A i \in 1 .. Len(resumed'[t]) :
            resumed'[t][i].context = opened'[t][Len(opened'[t]) - i + 1]
    BY <1>8, <2>2, <2>4
  <2>7. Len(open'[t]) + Len(resumed'[t]) <= Len(opened'[t])
    BY <1>8, <1>13, <2>4
  <2> QED
    BY <2>4, <2>5, <2>6, <2>7 DEF StackOK, Records, R
<1>15. PlaceOK(t)'
  BY <1>5, <1>8, <1>20 DEF PlaceOK
<1>16. GivenOK(t)'
  <2>0. PICK n \in Nat : n = Len(r)
    BY <1>12
  <2>1. /\ \A i \in 1 .. n : resumed'[t][i] = resumed[t][i]
        /\ resumed'[t][n + 1] = rec /\ Len(resumed'[t]) = n + 1
    BY <1>8, <1>12, <2>0 DEF r
  <2>2. /\ \A m \in 0 .. n : \A e : Reaches(t, m, e) => Reaches(t, m, e)'
        /\ \A e : rec.answer = "same" /\ Reaches(t, n, e) => Reaches(t, n + 1, e)'
        /\ \A e : rec.answer = "ends" /\ e = NoError => Reaches(t, n + 1, e)'
        /\ \A e : rec.answer = "raises" /\ e = FromContext(rec.context) => Reaches(t, n + 1, e)'
    BY <1>8, <2>0, <2>1, OneMore
  <2>3. ASSUME NEW i \in 1 .. n + 1 PROVE Reaches(t, i - 1, resumed[t][i].given)'
    <3>1. i - 1 \in 0 .. n
      BY <2>0
    <3>2. CASE i \in 1 .. n
      <4>1. resumed'[t][i].given = resumed[t][i].given
        BY <2>1, <3>2
      <4>2. Reaches(t, i - 1, resumed[t][i].given)
        BY <1>7, <2>0, <3>2 DEF r
      <4> QED
        BY <2>2, <3>1, <4>1, <4>2
    <3>3. CASE i = n + 1
      <4>1. i - 1 = n /\ resumed'[t][i].given = raising[t]
        BY <1>10, <2>0, <2>1, <3>3
      <4>2. Reaches(t, i - 1, raising[t])
        BY <1>7, <2>0, <4>1
      <4> QED
        BY <2>2, <3>1, <4>1, <4>2
    <3> QED
      BY <2>0, <3>2, <3>3
  <2>4. \A e : e = left => Reaches(t, n + 1, e)'
    <3>1. Reaches(t, n, raising[t])
      BY <1>7, <2>0
    <3> QED
      BY <1>3, <1>10, <1>21, <2>2, <3>1
  <2>5. Reaches(t, Len(resumed[t]), raising[t])'
    BY <1>8, <2>1, <2>4
  <2>6. \A i \in 1 .. Len(resumed'[t]) : Reaches(t, i - 1, resumed[t][i].given)'
    BY <2>1, <2>3
  <2> QED
    BY <1>5, <2>5, <2>6 DEF GivenOK
<1> QED
  BY <1>5, <1>6, <1>14, <1>15, <1>16, OneCall DEF CallOK

\* The invariant of the thread pool.
LEMMA PoolInvariant == PoolSpec => []PoolInv
<1>1. PoolInit => PoolInv
  <2> SUFFICES ASSUME PoolInit PROVE PoolInv
    OBVIOUS
  <2>1. Shapes
    <3>1. IsFiniteSet({}) /\ Cardinality({}) = 0 /\ Connections \in Nat
      BY FS_EmptySet, PoolAssumption DEF PoolAssumption
    <3> QED
      BY <3>1, Identities DEF PoolInit, Shapes
  <2>2. Waiting
    <3>1. queue = <<>> /\ queue \in Seq(Tasks) /\ DOMAIN queue = {}
      BY EmptySeq DEF PoolInit
    <3>2. \A t \in Tasks : pc[t] # "queued"
      BY DEF PoolInit
    <3> QED
      BY <3>1, <3>2 DEF Waiting
  <2>3. ASSUME NEW t \in Tasks PROVE CallOK(t)
    <3>1. /\ open[t] = <<>> /\ opened[t] = <<>> /\ resumed[t] = <<>>
          /\ pc[t] = "idle" /\ raising[t] = NoError /\ received[t] = NoError
      BY DEF PoolInit
    <3>2. StackOK(t)
      <4>1. /\ open[t] \in Seq(DOMAIN Steps[t]) /\ opened[t] \in Seq(DOMAIN Steps[t])
            /\ resumed[t] \in Seq(Records(t))
            /\ Len(open[t]) = 0 /\ Len(opened[t]) = 0 /\ Len(resumed[t]) = 0
        BY <3>1, EmptySeq
      <4> QED
        BY <4>1 DEF StackOK
    <3>3. PlaceOK(t)
      BY <3>1, Identities DEF PlaceOK
    <3>4. GivenOK(t)
      <4>1. Len(resumed[t]) = 0 /\ 0 + 1 .. 0 = {} /\ 1 .. 0 = {}
        BY <3>1, EmptySeq
      <4>2. Reaches(t, 0, raising[t])
        BY <3>1, <4>1 DEF Reaches
      <4> QED
        BY <3>1, <4>1, <4>2 DEF GivenOK
    <3> QED
      BY <3>2, <3>3, <3>4 DEF CallOK
  <2> QED
    BY <2>1, <2>2, <2>3 DEF PoolInv
<1>2. PoolInv /\ [PoolNext]_poolVars => PoolInv'
  <2> SUFFICES ASSUME PoolInv, [PoolNext]_poolVars PROVE PoolInv'
    OBVIOUS
  <2>1. ASSUME NEW t \in Tasks, StartCall(t) \/ Work(t) \/ Cancel(t) PROVE PoolInv'
    <3>1. CASE StartCall(t) \/ FunctionReturns(t)
      BY <3>1, GoOnStep
    <3>2. CASE GetThread(t)
      BY <3>2, ThreadStep
    <3>3. CASE Enters(t)
      BY <3>3, EnterStep
    <3>4. CASE Fails(t) \/ BodyEnds(t)
      BY <3>4, BlockEndsStep
    <3>5. CASE Resumed(t)
      BY <3>5, ResumedStep
    <3>6. CASE PassesBy(t)
      BY <3>6, PassStep
    <3>7. CASE Cancel(t)
      BY <3>7, CancelStep
    <3>8. CASE Exits(t)
      BY <3>8, ExitStep
    <3>9. CASE Ends(t)
      BY <3>9, EndStep
    <3> QED
      BY <2>1, <3>1, <3>2, <3>3, <3>4, <3>5, <3>6, <3>7, <3>8, <3>9 DEF Work
  <2>2. CASE UNCHANGED poolVars
    <3>1. UNCHANGED <<pc, step, queue, open, raising, received, holders, opened, resumed>>
      BY <2>2 DEF poolVars
    <3>2. Shapes' /\ Waiting'
      BY <3>1 DEF PoolInv, Shapes, Waiting
    <3>3. ASSUME NEW t \in Tasks PROVE CallOK(t)'
      BY <3>1, OtherCalls DEF PoolInv
    <3> QED
      BY <3>2, <3>3 DEF PoolInv
  <2> QED
    BY <2>1, <2>2 DEF PoolNext
<1> QED
  BY <1>1, <1>2, PTL DEF PoolSpec

\* What the invariant says of the queue, as PoolTypeOK puts it.
LEMMA PoolTypes == ASSUME PoolInv PROVE PoolTypeOK
<1> DEFINE Q == {t \in Tasks : pc[t] = "queued"}
<1>1. queue \in Seq(Q)
  <2>1. queue \in [1 .. Len(queue) -> Tasks] /\ Len(queue) \in Nat /\ DOMAIN queue = 1 .. Len(queue)
    BY LenProperties DEF PoolInv, Waiting
  <2>2. \A i \in 1 .. Len(queue) : queue[i] \in Q
    BY <2>1 DEF PoolInv, Waiting
  <2>3. queue \in [1 .. Len(queue) -> Q]
    BY <2>1, <2>2
  <2> QED
    BY <2>1, <2>3
<1>2. IsInjective(queue)
  BY DEF PoolInv, Waiting, IsInjective
<1>3. \A t \in Tasks : resumed[t] \in Seq(Records(t))
  BY DEF PoolInv, CallOK, StackOK
<1>4. \A t \in Tasks : open[t] \in Seq(DOMAIN Steps[t])
  BY DEF PoolInv, CallOK, StackOK
<1> QED
  BY <1>1, <1>2, <1>3, <1>4 DEF PoolInv, Shapes, Records, PoolTypeOK

\* Every generator of a call that is not cancelled is resumed, once and in reverse
\* (utils.py:166-184), whatever raises, for any calls, threads and connections: those open
\* are always the first opened, those resumed the others.
THEOREM ResumedInReverseCorrect == PoolSpec => []ResumedInReverse
<1>1. ASSUME PoolInv PROVE ResumedInReverse
  <2> SUFFICES ASSUME NEW t \in Tasks
               PROVE  LET order == [i \in DOMAIN resumed[t] |-> resumed[t][i].context]
                      IN  /\ IsPrefix(order, Reverse(opened[t]))
                          /\ pc[t] = "done" /\ raising[t] # Cancelled =>
                                order = Reverse(opened[t])
    BY DEF ResumedInReverse
  <2> DEFINE d == opened[t]
             r == resumed[t]
             order == [i \in DOMAIN r |-> r[i].context]
             v == Reverse(d)
             S == DOMAIN Steps[t]
  <2>1. /\ Len(d) \in Nat /\ Len(r) \in Nat /\ DOMAIN r = 1 .. Len(r) /\ Len(r) <= Len(d)
        /\ d \in Seq(S) /\ \A i \in 1 .. Len(r) : r[i].context = d[Len(d) - i + 1]
        /\ pc[t] = "done" /\ raising[t] # Cancelled => Len(r) = Len(d)
    <3>1. /\ open[t] \in Seq(S) /\ d \in Seq(S) /\ r \in Seq(Records(t))
          /\ \A i \in 1 .. Len(r) : r[i].context = d[Len(d) - i + 1]
          /\ Len(open[t]) + Len(r) <= Len(d)
          /\ raising[t] # Cancelled => Len(open[t]) + Len(r) = Len(d)
          /\ pc[t] = "done" => open[t] = <<>>
      <4>1. CallOK(t)
        BY <1>1 DEF PoolInv
      <4>2. StackOK(t) /\ PlaceOK(t)
        BY <4>1 DEF CallOK
      <4> QED
        BY <4>2 DEF StackOK, PlaceOK
    <3>2. /\ Len(open[t]) \in Nat /\ Len(r) \in Nat /\ Len(d) \in Nat /\ DOMAIN r = 1 .. Len(r)
          /\ pc[t] = "done" => Len(open[t]) = 0
      BY <3>1, LenProperties, EmptySeq
    <3>3. \A a, b, c \in Nat : a + b <= c => b <= c
      OBVIOUS
    <3>4. Len(r) <= Len(d)
      BY <3>1, <3>2, <3>3
    <3>5. pc[t] = "done" /\ raising[t] # Cancelled => 0 + Len(r) = Len(d)
      BY <3>1, <3>2
    <3> QED
      BY <3>1, <3>2, <3>4, <3>5
  <2> HIDE DEF d, r, S
  <2>2. v = [i \in 1 .. Len(d) |-> d[(Len(d) - i) + 1]]
    BY DEF Reverse
  <2>3. \A i \in 1 .. Len(d) : d[(Len(d) - i) + 1] \in S
    <3>1. \A i \in 1 .. Len(d) : (Len(d) - i) + 1 \in 1 .. Len(d)
      BY <2>1
    <3> QED
      BY <2>1, <3>1, ElementOfSeq
  <2>4. v \in Seq(S) /\ Len(v) = Len(d)
    BY <2>1, <2>2, <2>3
  <2>5. order = [i \in 1 .. Len(r) |-> v[i]]
    BY <2>1, <2>2
  <2>6. Len(order) = Len(r) /\ order \in Seq(S)
    BY <2>1, <2>2, <2>3, <2>5
  <2> HIDE DEF order, v
  <2>7. IsPrefix(order, v)
    <3>1. \A i \in 1 .. Len(r) : order[i] \in S /\ v[i] \in S /\ order[i] = v[i]
      <4>1. \A i \in 1 .. Len(r) : i \in 1 .. Len(d)
        BY <2>1
      <4>2. \A i \in 1 .. Len(d) : v[i] \in S
        BY <2>2, <2>3
      <4> QED
        BY <2>5, <4>1, <4>2
    <3>2. /\ SubSeq(order, 1, Len(r)) = [i \in 1 .. Len(r) |-> order[i]]
          /\ SubSeq(v, 1, Len(r)) = [i \in 1 .. Len(r) |-> v[i]]
      BY <2>1
    <3> QED
      BY <2>1, <2>4, <2>6, <3>1, <3>2 DEF IsPrefix
  <2>8. pc[t] = "done" /\ raising[t] # Cancelled => order = v
    BY <2>1, <2>2, <2>5
  <2> QED
    BY <2>7, <2>8 DEF order, v, r, d
<1> QED
  BY <1>1, PoolInvariant, PTL

\* The innermost generator is resumed with what the function or a dependency raised, and
\* each other one, and the caller of a call that is not cancelled, with what those inside
\* let through or raised instead, for any calls (utils.py:166-184, use.py:166-177).
THEOREM ErrorsArriveCorrect == PoolSpec => []ErrorsArrive
<1>1. ASSUME PoolInv PROVE ErrorsArrive
  <2>1. \A t \in Tasks : GivenOK(t)
    BY <1>1 DEF PoolInv, CallOK
  <2> QED
    BY <2>1 DEF ErrorsArrive, GivenOK, EndOK
<1> QED
  BY <1>1, PoolInvariant, PTL

-----------------------------------------------------------------------------
(* Both *)

\* The system MCAsync checks runs the one or the other.
LEMMA Composed == AsyncSpec => Spec /\ PoolSpec
<1>1. AsyncNext => [Next]_vars /\ [PoolNext]_poolVars
  BY DEF AsyncNext
<1>2. UNCHANGED <<vars, poolVars>> => [Next]_vars /\ [PoolNext]_poolVars
  OBVIOUS
<1>3. [AsyncNext]_<<vars, poolVars>> => [Next]_vars /\ [PoolNext]_poolVars
  BY <1>1, <1>2
<1> QED
  BY <1>3, PTL DEF AsyncSpec, AsyncInit, Spec, PoolSpec

\* Customs and tasks keep their types; a call waits for at most one thread, and there are
\* never more connections in use than there are.
THEOREM AsyncTypeCorrect == AsyncSpec => []AsyncTypeOK
<1>1. FieldsInv /\ PoolInv => AsyncTypeOK
  BY PoolTypes DEF FieldsInv, AsyncTypeOK
<1> QED
  BY <1>1, Composed, FieldsInvariant, PoolInvariant, PTL
=================================================================================
