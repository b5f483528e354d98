--------------------------------- MODULE Arguments ---------------------------------
(***************************************************************************)
(* One call of one callable: how CallModel._solve() distributes what the   *)
(* caller passes among the parameters, has it completed with what is       *)
(* injected and cast, and passes it on; and how Python then binds it.      *)
(***************************************************************************)
EXTENDS Serializers

CONSTANTS
    Signatures,     \* sequences of parameters
    Classes,        \* serializers, NoSerializer among them
    Ordinals,       \* what a caller passes by position, at most: as long as the bound
    Unknown,        \* keywords callers use that name no parameter; nor *args and **kwargs
    Faults          \* the values of callers that do not fit: functions from names to parts

ByPosition == {"positional only", "positional"}
Customs == {"custom", "optional custom"}
Parameter ==
    [name : STRING, kind : ByPosition \cup {"keyword only"} \cup Stars,
     source : {"caller", "depends"} \cup Customs, required : BOOLEAN, alias : STRING]

\* Parameters have names of their own.  An alias is not that of another, nor its name;
\* what is injected has none.  *args and **kwargs come from the caller, or are empty.
SignatureOK(s) ==
    /\ s \in Seq(Parameter)
    /\ \A i, j \in DOMAIN s :
          i # j => s[i].name # s[j].name /\ s[i].alias \notin {s[j].name, s[j].alias}
    /\ \A i \in DOMAIN s :
          /\ s[i].source # "caller" \/ s[i].kind \in Stars => s[i].alias = s[i].name
          /\ s[i].kind \in Stars => s[i].name = s[i].kind /\ s[i].source = "caller" /\ ~s[i].required
          /\ {s[i].name, s[i].alias} \cap Unknown = {}

ASSUME ArgumentsAssumption ==
    /\ \A s \in Signatures : SignatureOK(s)
    /\ Classes \subseteq {NoSerializer}
          \cup [lib : {"pydantic", "msgspec"}, use_fastdepends_errors : BOOLEAN, typed : BOOLEAN]
    /\ Ordinals \in Seq(STRING)

VARIABLES
    sig, serializer,    \* the callable; these do not change
    phase,              \* none, idle, solving, solved, cast, bound, called, refused
    given,              \* what the caller passed: args and kwargs
    wrong,              \* which of the arguments do not fit their annotation
    kw, left, dict,     \* _solve()'s kw, args, and kw[kwargs_name]
    found,              \* the customs that found a value
    args_, kwargs_,     \* what it passes to the callable
    bound,              \* the arguments the callable runs with
    error               \* its kind, the error fields shown, the options at fault
vars == <<sig, serializer, phase, given, wrong, kw, left, dict, found, args_, kwargs_,
          bound, error>>

NoError == [kind |-> "none", fields |-> {}, culprits |-> {}]
Error(kind, fields, culprits) == [kind |-> kind, fields |-> fields, culprits |-> culprits]

Names(s) == [i \in DOMAIN s |-> s[i].name]
Has(s, star) == \E p \in ToSet(s) : p.kind = star
Of(s, sources) == {p.name : p \in {q \in ToSet(s) : q.source \in sources}}

\* A list made by going through s
Picked(s, S) == FoldLeft(LAMBDA list, p : IF p \in S THEN Append(list, p) ELSE list, <<>>, s)

-----------------------------------------------------------------------------
(* The lists build_call_model() sorts the parameters into *)

PositionalParams(s) == {p \in ToSet(s) : p.source = "caller" /\ p.kind \in ByPosition}
KeywordParams(s) == {p \in ToSet(s) : p.source # "caller" \/ p.kind = "keyword only"}

positional_args(s) == Names(Picked(s, PositionalParams(s)))
keyword_args(s) == Names(Picked(s, KeywordParams(s)))

dependencies(s) == Of(s, {"depends"})

custom_fields(s) == Of(s, Customs)

\* The names of *args and **kwargs are among the options once there is a serializer.
Serialized == serializer.lib # "none"
Boxed(star) == Serialized /\ Has(sig, star) /\ star \in GetAliases(sig)

-----------------------------------------------------------------------------
(* Python: which argument each parameter of s is bound to *)

ByPos(s) == Picked(s, {p \in ToSet(s) : p.kind \in ByPosition})

PyBind(s, args, kwargs) ==
    LET params == {p \in ToSet(s) : p.kind \notin Stars}
        byPos == ByPos(s)
        rest == SubSeq(args, Len(byPos) + 1, Len(args))
        filled == {i \in DOMAIN byPos : i <= Len(args)}
        named == {p \in params : p.kind # "positional only" /\ p.name \in DOMAIN kwargs}
        extra == DOMAIN kwargs \ {p.name : p \in named}
    IN  [ok |-> /\ rest = <<>> \/ Has(s, "args")
                /\ extra = {} \/ Has(s, "kwargs")
                /\ \A i \in filled : byPos[i] \notin named
                /\ \A p \in params :
                      p.required => p \in named \/ \E i \in filled : byPos[i] = p,
         named |-> [n \in {p.name : p \in params} |->
             IF \E i \in filled : byPos[i].name = n
             THEN args[CHOOSE i \in filled : byPos[i].name = n]
             ELSE IF \E p \in named : p.name = n THEN kwargs[n] ELSE Value("default")],
         rest |-> rest,
         extra |-> [n \in extra |-> kwargs[n]]]

NotBound == [ok |-> FALSE, named |-> Empty, rest |-> <<>>, extra |-> Empty]

-----------------------------------------------------------------------------
(* _solve(), up to its first yield *)

\* Mutant: the last argument is taken.
TakeLast(st, n) ==
    IF n \in DOMAIN st.kw \/ st.left = <<>> THEN st
    ELSE [kw |-> Updated(st.kw, [m \in {n} |-> Last(st.left)]), left |-> Front(st.left)]

Take(st, n) ==
    IF n \in DOMAIN st.kw \/ st.left = <<>> THEN st
    ELSE [kw |-> Updated(st.kw, [m \in {n} |-> Head(st.left)]), left |-> Tail(st.left)]

\* Mutant: those that are injected are candidates too.
AnyPositional(st) == FoldLeft(Take, st, keyword_args(sig) \o positional_args(sig))

\* Positional arguments left over, without *args in a serializer's model, go to whatever
\* is not injected and not filled.
LeftOver(st) ==
    LET names == keyword_args(sig) \o positional_args(sig)
    IN  FoldLeft(Take, st, Picked(names, ToSet(names) \ dependencies(sig)))

Distribute(args, kwargs) ==
    LET popped == DOMAIN kwargs \cap ToSet(keyword_args(sig))
        kept == IF Boxed("kwargs") THEN popped ELSE DOMAIN kwargs
        first == FoldLeft(Take, [kw |-> Restrict(kwargs, kept), left |-> args],
                          positional_args(sig))
        st == IF Boxed("args") THEN first ELSE LeftOver(first)
    IN  [kw |-> st.kw, left |-> st.left, dict |-> Restrict(kwargs, DOMAIN kwargs \ kept)]

ArgumentsInit ==
    /\ sig = <<>>
    /\ serializer = NoSerializer
    /\ phase = "none"
    /\ given = [args |-> <<>>, kwargs |-> Empty]
    /\ wrong = Empty
    /\ kw = Empty /\ left = <<>> /\ dict = Empty
    /\ found = {}
    /\ args_ = <<>> /\ kwargs_ = Empty
    /\ bound = NotBound
    /\ error = NoError

\* build_call_model()
Declare ==
    /\ phase = "none"
    /\ sig' \in Signatures
    /\ serializer' \in Classes
    /\ phase' = "idle"
    /\ UNCHANGED <<given, wrong, kw, left, dict, found, args_, kwargs_, bound, error>>

Keywords == {p.alias : p \in {q \in ToSet(sig) : q.kind \notin Stars}} \cup Unknown

Call ==
    /\ phase = "idle"
    /\ \E n \in 0 .. Len(Ordinals), names \in SUBSET Keywords :
          LET args == [i \in 1 .. n |-> Value(Ordinals[i])]
              kwargs == [k \in names |-> Value(k)]
              st == Distribute(args, kwargs)
          IN  /\ given' = [args |-> args, kwargs |-> kwargs]
              /\ kw' = st.kw /\ left' = st.left /\ dict' = st.dict
    /\ wrong' \in {f \in Faults : DOMAIN f \subseteq IF Serialized THEN ToSet(Names(sig)) ELSE {}}
    /\ phase' = "solving"
    /\ UNCHANGED <<sig, serializer, found, args_, kwargs_, bound, error>>

-----------------------------------------------------------------------------
(* What solve() does between the yields, as far as arguments go *)

\* Dependencies fill what is not given; customs may find a value, and replace one.
SolveInjected ==
    /\ phase = "solving"
    /\ found' \in SUBSET custom_fields(sig)
    /\ LET needed == dependencies(sig) \ DOMAIN kw
       IN  kw' = Updated(kw, [n \in needed \cup found' |-> Value("injected")])
    /\ phase' = "solved"
    /\ UNCHANGED <<sig, serializer, given, wrong, left, dict, args_, kwargs_, bound, error>>

\* The serializer accepts the arguments.  The values of *args and **kwargs are cast too.
CastArguments ==
    /\ phase = "solved"
    /\ \E outcome \in SerializerCall(serializer, sig, kw, wrong) :
          outcome.ok /\ kw' = Updated(kw, outcome.values)
    /\ IF Serialized
       THEN /\ left' = [i \in DOMAIN left |-> CastAs(left[i], "args")]
            /\ dict' = [n \in DOMAIN dict |-> CastAs(dict[n], "kwargs")]
       ELSE UNCHANGED <<left, dict>>
    /\ phase' = "cast"
    /\ UNCHANGED <<sig, serializer, given, wrong, found, args_, kwargs_, bound, error>>

\* It does not: the caller gets its error, as one of FastDepends' if it is to be wrapped.
RefuseArguments ==
    /\ phase = "solved"
    /\ \E outcome \in SerializerCall(serializer, sig, kw, wrong) :
          /\ ~outcome.ok
          /\ error' = IF Wraps(serializer)
                      THEN Error("ValidationError",
                                 ErrorFields(ToSet(Names(sig)), outcome.locations),
                                 Culprits(sig, kw, wrong))
                      ELSE Error("library", {}, Culprits(sig, kw, wrong))
    /\ phase' = "refused"
    /\ UNCHANGED <<sig, serializer, given, wrong, kw, left, dict, found, args_, kwargs_, bound>>

-----------------------------------------------------------------------------
(* _solve(), up to its second yield, and the call *)

Popped == IF Has(sig, "args") THEN ToSet(positional_args(sig)) ELSE {}

\* keyword_args, with positional_args unless *args is one of the serializer's options.
KeywordArgs ==
    LET listed == ToSet(keyword_args(sig))
                      \cup IF Boxed("args") THEN {} ELSE ToSet(positional_args(sig))
        keywords == (listed \cap DOMAIN kw) \ Popped
        others == IF Boxed("kwargs") THEN dict
                  ELSE Restrict(kw, DOMAIN kw \ (keywords \cup Popped))
    IN  IF Has(sig, "kwargs") THEN Updated(Restrict(kw, keywords), others)
        ELSE Restrict(kw, keywords)

Pass ==
    /\ phase = "cast"
    /\ IF Popped \subseteq DOMAIN kw
       THEN /\ phase' = "bound"
            /\ kwargs_' = KeywordArgs
            /\ args_' = IF Has(sig, "args")
                        THEN [i \in DOMAIN positional_args(sig) |->
                                kw[positional_args(sig)[i]]] \o left
                        ELSE <<>>
            /\ UNCHANGED error
       ELSE /\ phase' = "refused"
            /\ error' = Error("KeyError", {}, {})
            /\ UNCHANGED <<args_, kwargs_>>
    /\ UNCHANGED <<sig, serializer, given, wrong, kw, left, dict, found, bound>>

\* The callable runs, or Python cannot bind its arguments.
Invoke ==
    /\ phase = "bound"
    /\ bound' = PyBind(sig, args_, kwargs_)
    /\ IF bound'.ok
       THEN phase' = "called" /\ UNCHANGED error
       ELSE phase' = "refused" /\ error' = Error("TypeError", {}, {})
    /\ UNCHANGED <<sig, serializer, given, wrong, kw, left, dict, found, args_, kwargs_>>

\* The response does not fit: "return" is the only option there is.
RefuseResponse ==
    /\ phase = "called"
    /\ Serialized /\ CastsResponse(serializer)
    /\ phase' = "refused"
    /\ error' = IF Wraps(serializer)
                THEN Error("ValidationError", ErrorFields({"return"}, {"return"}), {})
                ELSE Error("library", {}, {})
    /\ UNCHANGED <<sig, serializer, given, wrong, kw, left, dict, found, args_, kwargs_, bound>>

\* The caller has its response or its exception.
Return ==
    /\ phase \in {"called", "refused"}
    /\ phase' = "idle"
    /\ given' = [args |-> <<>>, kwargs |-> Empty]
    /\ wrong' = Empty
    /\ kw' = Empty /\ left' = <<>> /\ dict' = Empty
    /\ found' = {}
    /\ args_' = <<>> /\ kwargs_' = Empty
    /\ bound' = NotBound
    /\ error' = NoError
    /\ UNCHANGED <<sig, serializer>>

ArgumentsNext ==
    \/ Declare \/ Call \/ SolveInjected \/ CastArguments \/ RefuseArguments
    \/ Pass \/ Invoke \/ RefuseResponse \/ Return

ArgumentsSpec == ArgumentsInit /\ [][ArgumentsNext]_vars

-----------------------------------------------------------------------------
(* What a caller may expect: the signature it sees has what is injected as optional *)
(* keywords, and, with a serializer, the aliases in place of the names.             *)

Shown(p) == IF Serialized THEN p.alias ELSE p.name

Visible ==
    [i \in DOMAIN sig |->
        LET p == sig[i]
        IN  [p EXCEPT !.name = Shown(p),
                      !.kind = IF p.source = "caller" THEN p.kind ELSE "keyword only",
                      !.required = p.required /\ p.source = "caller"]]

Expected == PyBind(Visible, given.args, given.kwargs)

Given(p) == p.source = "caller" /\ p.kind \notin Stars

-----------------------------------------------------------------------------
(* Where the code does otherwise *)

\* **kwargs with a serializer takes the keywords that keyword_args does not list: those
\* of positional parameters, and aliases.
Swallowed ==
    /\ Boxed("kwargs")
    /\ \E p \in ToSet(sig) : Shown(p) \in DOMAIN given.kwargs \ ToSet(keyword_args(sig))

\* *args without a serializer: what is left over may go to a parameter after it, and a
\* positional parameter may not be left to its default.
Misplaced ==
    /\ Has(sig, "args") /\ ~Serialized
    /\ \/ /\ Len(given.args) > Len(positional_args(sig))
          /\ ~(ToSet(keyword_args(sig)) \subseteq dependencies(sig) \cup DOMAIN given.kwargs)
       \/ ~(ToSet(positional_args(sig)) \subseteq DOMAIN kw)

\* Without *args everything is passed by keyword, and what is injected always; and no
\* keyword of **kwargs can have the name of a parameter.
PositionalOnly ==
    \E p \in ToSet(sig) :
        /\ p.kind = "positional only"
        /\ ~Has(sig, "args") \/ p.source # "caller" \/ p.name \in DOMAIN given.kwargs

\* An alias is not looked for among the positional arguments.
AliasByPosition ==
    Serialized /\ \E i \in DOMAIN positional_args(sig) :
        /\ i <= Len(given.args)
        /\ \E p \in ToSet(sig) : p.name = positional_args(sig)[i] /\ p.alias # p.name

\* With *args, the arguments passed by position skip an injected parameter among them,
\* and Python puts the next one there.
Shifted ==
    \E i \in DOMAIN ByPos(sig) : i <= Len(args_) /\ ByPos(sig)[i].source # "caller"

Divergent == Swallowed \/ Misplaced \/ PositionalOnly \/ AliasByPosition \/ Shifted

-----------------------------------------------------------------------------
(* Properties *)

\* inject(func: Callable[P, T]) -> Callable[P, T]: a call that Python accepts, and whose
\* arguments fit, gets to the callable (model.py:131-180).
Accepted ==
    /\ phase = "refused" /\ ~bound.ok /\ Expected.ok /\ ~Divergent
    => \/ \E p \in ToSet(sig) : p.name \in DOMAIN wrong
       \/ ~(Of(sig, IF Serialized THEN {"custom"} ELSE Customs)
                 \subseteq found \cup DOMAIN given.kwargs)

\* ... and the callable sees, in each parameter, in *args and in **kwargs, what Python
\* would have bound there (model.py:141-180).
SameArguments ==
    phase = "called" /\ Expected.ok /\ ~Divergent =>
        /\ \A p \in ToSet(sig) :
              Given(p) => bound.named[p.name].of = Expected.named[Shown(p)].of
        /\ [i \in DOMAIN bound.rest |-> bound.rest[i].of]
               = [i \in DOMAIN Expected.rest |-> Expected.rest[i].of]
        /\ Has(sig, "kwargs") => DOMAIN bound.extra = DOMAIN Expected.extra

\* No positional argument ever gets into the place of a dependency, not even in a call
\* that passes too many: it is the dependency's value, or the caller's by name.  Not so if
\* the dependency is positional only, and there are *args and **kwargs (model.py:154-172).
DependsNotPositional ==
    phase = "called" =>
        \A p \in ToSet(sig) :
            p.source = "depends" /\ p.kind # "positional only" =>
                bound.named[p.name].of \in {"injected", p.name}

\* "FastDepends parse positional arguments according their position", those that are
\* injected included: func(user: CurrentUser, user_id: int | None = None) called as func(1)
\* "Will parses as { "user": 1 }" (annotated.md:100-118; model.py:154-158).
PositionalByPosition ==
    phase = "called" /\ given.kwargs = Empty /\ Of(sig, Customs) = {} /\ ~Divergent =>
        \A i \in DOMAIN ByPos(sig) :
            i <= Len(given.args) => bound.named[ByPos(sig)[i].name].of = given.args[i].of

\* With a serializer the callable sees nothing that was not cast as the parameter it is
\* in, and a call that is not refused by it is not refused by Python after it either.
CastBeforeCall ==
    Serialized /\ ~Swallowed /\ ~PositionalOnly /\ ~Shifted =>
        /\ phase = "called" => \A n \in DOMAIN bound.named : bound.named[n].as = n
        /\ phase = "called" => \A i \in DOMAIN bound.rest : bound.rest[i].as = "args"
        /\ error.kind \notin {"KeyError", "TypeError"}

\* Who reads a wrapped error finds there every option at fault (msgspec: one of them),
\* and no other than those, unless all of them or the part of a value that shares an
\* option's name.  Options with an alias may be missed (exceptions.py:23-27).
ErrorNamesCulprit ==
    error.kind = "ValidationError" /\ ~bound.ok =>
        LET at == {p.name : p \in error.culprits}
            plain == {p.name : p \in {q \in error.culprits : q.alias = q.name}}
            parts == {wrong[n] : n \in DOMAIN wrong}
        IN  /\ error.fields # {}
            /\ error.fields \subseteq ToSet(Names(sig))
            /\ error.fields \subseteq at \cup parts \/ error.fields = ToSet(Names(sig))
            /\ IF serializer.lib = "pydantic" THEN plain \subseteq error.fields
               ELSE plain = at => plain \cap error.fields # {}
==============================================================================
