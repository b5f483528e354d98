-------------------------------- MODULE Serializers --------------------------------
(***************************************************************************)
(* The serializer of one CallModel: pydantic's or msgspec's casts of its   *)
(* arguments and response, and the ValidationError made of their errors.   *)
(* A parameter is a record of its name, its kind, its source (the caller,  *)
(* Depends() or a custom field), its alias, and whether it is required:    *)
(* without default.  A value is a record: who it is of (an argument, a     *)
(* default, injected) and the field it was cast as.                        *)
(***************************************************************************)
EXTENDS Naturals, Sequences, SequencesExt

Value(of) == [of |-> of, as |-> "nothing"]

CastAs(v, name) == [v EXCEPT !.as = name]

\* dict, after dict.update(more)
Empty == [n \in {} |-> n]
Updated(dict, more) ==
    [n \in DOMAIN dict \cup DOMAIN more |-> IF n \in DOMAIN more THEN more[n] ELSE dict[n]]

Stars == {"args", "kwargs"}

\* The options handed to the serializer: all parameters, of any source.
Options(sig) == ToSet(sig)

\* Mutant: a default alone makes an option optional.
WithoutDefault(p) == p.kind \notin Stars /\ p.required

\* Ellipsis as the default value of an option: Depends() has no other; a custom that is
\* not required has None; *args and **kwargs have () and {}.
Mandatory(p) ==
    /\ p.kind \notin Stars
    /\ \/ p.source = "depends"
       \/ p.required /\ p.source # "optional custom"

\* alias_arguments, of both: the aliases of the options, or their names
GetAliases(sig) == {p.alias : p \in Options(sig)}

-----------------------------------------------------------------------------
(* Casting: keywords are read by alias, what is cast is stored by name. *)

\* Mutant: the values of the caller are kept.
CastNothing(p, kw) == IF p.alias \in DOMAIN kw THEN kw[p.alias] ELSE Value("default")

CastOption(p, kw) ==
    CastAs(IF p.alias \in DOMAIN kw THEN kw[p.alias] ELSE Value("default"), p.name)

\* What the model built of the options returns for kw.
Casted(sig, kw) ==
    LET plain == {p \in Options(sig) : p.kind \notin Stars}
    IN  [n \in {p.name : p \in plain} |->
            CastOption(CHOOSE p \in plain : p.name = n, kw)]

\* An option for which the libraries find an error.  wrong maps the names of options to
\* where in their value the annotation is not met: "whole", or the name of a part.
Missing(sig, kw) == {p \in Options(sig) : Mandatory(p) /\ p.alias \notin DOMAIN kw}

Unfit(sig, kw, wrong) ==
    {p \in Options(sig) : p.name \in DOMAIN wrong /\ p.alias \in DOMAIN kw}

Culprits(sig, kw, wrong) == Missing(sig, kw) \cup Unfit(sig, kw, wrong)

-----------------------------------------------------------------------------
(* ValidationError *)

\* error_fields: the options named by locations, or else all
ErrorFields(expected, locations) ==
    IF locations \cap expected # {} THEN locations \cap expected ELSE expected

\* Mutant: the first error alone.
PydanticFirst(sig, kw, wrong) ==
    LET p == CHOOSE p \in Culprits(sig, kw, wrong) : TRUE IN {p.alias}

\* pydantic reports every error; a location is a path, of which every step counts.
PydanticLocations(sig, kw, wrong) ==
    {p.alias : p \in Culprits(sig, kw, wrong)}
        \cup {wrong[p.name] : p \in Unfit(sig, kw, wrong)}

\* msgspec reports one error of a value, or else one missing option; the path is found
\* in its text when it is one step of one character.
MsgSpecLocations(sig, kw, wrong) ==
    IF Unfit(sig, kw, wrong) = {}
    THEN {{}}
    ELSE {IF wrong[p.name] = "whole" /\ Len(p.alias) = 1 THEN {p.alias} ELSE {} :
              p \in Unfit(sig, kw, wrong)}

\* What a serializer may do with kw: return values, or raise an error with locations.
Returns(values) == [ok |-> TRUE, values |-> values, locations |-> {}]
Raises(locations) == [ok |-> FALSE, values |-> Empty, locations |-> locations]

PydanticCall(sig, kw, wrong) ==
    IF Culprits(sig, kw, wrong) = {} THEN {Returns(Casted(sig, kw))}
    ELSE {Raises(PydanticLocations(sig, kw, wrong))}

MsgSpecCall(sig, kw, wrong) ==
    IF Culprits(sig, kw, wrong) = {} THEN {Returns(Casted(sig, kw))}
    ELSE {Raises(l) : l \in MsgSpecLocations(sig, kw, wrong)}

-----------------------------------------------------------------------------
(* Each library has four classes: two cast responses, two wrap the library's errors. *)

PydanticSerializer(use_fastdepends_errors, typed) ==
    [lib |-> "pydantic", use_fastdepends_errors |-> use_fastdepends_errors, typed |-> typed]

MsgSpecSerializer(use_fastdepends_errors, typed) ==
    [lib |-> "msgspec", use_fastdepends_errors |-> use_fastdepends_errors, typed |-> typed]

NoSerializer == [lib |-> "none", use_fastdepends_errors |-> FALSE, typed |-> FALSE]

SerializerCall(serializer, sig, kw, wrong) ==
    CASE serializer.lib = "pydantic" -> PydanticCall(sig, kw, wrong)
      [] serializer.lib = "msgspec" -> MsgSpecCall(sig, kw, wrong)
      [] serializer.lib = "none" -> {Returns(Empty)}

Wraps(serializer) == serializer.use_fastdepends_errors
CastsResponse(serializer) == serializer.typed
==============================================================================
