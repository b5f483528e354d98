-------------------------------- MODULE MCFunctions --------------------------------
(* What FastDepends computes on its own, one computation at a time: the arguments of *)
(* a call, the parameters of a model, their schema, and the types of annotations.    *)
EXTENDS Arguments, Flatten, Schema, Annotations
P(name, kind, source, required, alias) ==
    [name |-> name, kind |-> kind, source |-> source, required |-> required, alias |-> alias]
Plain(name, kind, required) == P(name, kind, "caller", required, name)

Star == {<<>>, <<Plain("args", "args", FALSE)>>}
StarStar == {<<>>, <<Plain("kwargs", "kwargs", FALSE)>>}

\* Every parameter there may be; only what the caller gives may have an alias.
Params(name, alias) ==
    {P(name, k, "caller", r, al) : k \in ByPosition \cup {"keyword only"}, r \in BOOLEAN,
                                    al \in {name, alias}}
    \cup {P(name, k, "depends", r, name) : k \in ByPosition \cup {"keyword only"}, r \in BOOLEAN}
    \cup {P(name, k, src, TRUE, name) : k \in ByPosition \cup {"keyword only"}, src \in Customs}

\* Python's order of kinds and of defaults, with *args before what is keyword only
InOrder(s) ==
    \A i, j \in DOMAIN s : i < j =>
        /\ s[i].kind = "keyword only" => s[j].kind = "keyword only"
        /\ s[i].kind = "positional" => s[j].kind # "positional only"
        /\ {s[i].kind, s[j].kind} \subseteq ByPosition /\ s[j].required => s[i].required

WithStars(s, star, starstar) ==
    LET byPos == ByPos(s) IN byPos \o star \o SubSeq(s, Len(byPos) + 1, Len(s)) \o starstar

UpToTwo ==
    {s \in {<<>>} \cup {<<p>> : p \in Params("a", "x")}
           \cup {<<p, q>> : p \in Params("a", "x"), q \in Params("body", "body")} : InOrder(s)}

\* With a third one
Three ==
    {<<p, q, k>> : p \in {Plain("a", "positional", TRUE), P("a", "positional", "depends", TRUE, "a")},
                   q \in {Plain("body", "positional", FALSE),
                          P("body", "positional", "depends", TRUE, "body")},
                   k \in Params("k", "k")}

MCSignatures ==
    {WithStars(s, star, starstar) : s \in {t \in UpToTwo \cup Three : InOrder(t)},
                                    star \in Star, starstar \in StarStar}

\* The example of annotated.md:103: func(user: CurrentUser, user_id: int | None = None)
DocSignatures ==
    {<<P("user", "positional", "depends", TRUE, "user"), Plain("user_id", "positional", FALSE)>>}

MCOrdinals == <<"first", "second", "third">>

MCClasses == {NoSerializer, PydanticSerializer(TRUE, TRUE), PydanticSerializer(FALSE, TRUE),
              MsgSpecSerializer(TRUE, FALSE)}
MCFaults == {Empty, [n \in {"a"} |-> "body"], [n \in {"a", "k"} |-> "whole"]}

-----------------------------------------------------------------------------

CONSTANTS main, user, token, fake

MCModels == {main, user, token, fake}

Dep(arg, key) == [arg |-> arg, key |-> key]
Model(params, deps, extras) == [params |-> params, dependencies |-> deps, extras |-> extras]
Lists == {<<>>, <<"p">>, <<"q">>, <<"p", "q">>}

MCPrograms ==
    {(main :> Model(pm, dm, em) @@ user :> Model(pu, du, <<>>)
                      @@ token :> Model(pt, <<>>, <<>>) @@ fake :> Model(<<"r">>, <<>>, <<>>)) :
        pm \in Lists \ {<<"q">>}, pu \in Lists, pt \in {<<>>, <<"q">>, <<"s">>},
        dm \in {<<Dep("u", user)>>, <<Dep("u", user), Dep("t", token)>>,
                <<Dep("q", token), Dep("u", user)>>},
        em \in {<<>>, <<token>>}, du \in {<<>>, <<Dep("w", token)>>, <<Dep("q", fake)>>}}

MCOverrides == {<<>>, user :> fake, token :> fake}

MCDefinitions == <<"A", "B", "C">>

\* All without a cycle, and some with one.
R(d, l) == [inDict |-> d, inList |-> l]
Leaf == R(Nothing, Nothing)
RefersTo(shape, n) == {shape[n].inDict, shape[n].inList} \ {Nothing}
NoCycle(shape) ==
    \E rank \in [Defs -> 1 .. 3] :
        \A n \in Defs : \A d \in RefersTo(shape, n) : rank[d] < rank[n]
MCShapes ==
    {s \in [Defs -> [inDict : Defs \cup {Nothing}, inList : Defs \cup {Nothing}]] : NoCycle(s)}
    \cup {"A" :> R(d, l) @@ "B" :> R("C", Nothing) @@ "C" :> R(Nothing, last) :
            d \in {"A", "B"}, l \in {"A", "C", Nothing}, last \in {"A", "B", Nothing}}

MCGlobals == "app" :> Unbound @@ "models" :> "User" @@ "fast_depends_app" :> "User"

-----------------------------------------------------------------------------

Calling == phase # "none"
Flattening == program # NoProgram
Asking == request # NoRequest
Typing == frames # <<>> \/ origin # Unbound

Next ==
    \/ ~Flattening /\ ~Asking /\ ~Typing
          /\ ArgumentsNext /\ UNCHANGED <<flattenVars, schemaVars, typingVars>>
    \/ ~Calling /\ ~Asking /\ ~Typing
          /\ FlattenNext /\ UNCHANGED <<vars, schemaVars, typingVars>>
    \/ ~Calling /\ ~Flattening /\ ~Typing
          /\ SchemaNext /\ UNCHANGED <<vars, flattenVars, typingVars>>
    \/ ~Calling /\ ~Flattening /\ ~Asking
          /\ TypingNext /\ UNCHANGED <<vars, flattenVars, schemaVars>>

FunctionsInit == ArgumentsInit /\ FlattenInit /\ SchemaInit /\ TypingInit

Spec ==
    /\ FunctionsInit
    /\ [][Next]_<<vars, flattenVars, schemaVars, typingVars>>
==============================================================================
