----------------------------------- MODULE Schema -----------------------------------
(***************************************************************************)
(* get_schema(): the JSON schema pydantic gives for the parameters of a    *)
(* model, with its references to definitions replaced by what they refer   *)
(* to.  _move_pydantic_refs() copies dictionaries and changes lists in     *)
(* place, so that copies of a definition share their lists.  A definition  *)
(* has at most one reference in a dictionary of its own ("properties") and *)
(* one in a list ("anyOf"); scalars are left out.                          *)
(***************************************************************************)
EXTENDS Integers, FiniteSets, SequencesExt

CONSTANTS
    Definitions,    \* the names in $defs, in their order
    Shapes,         \* what each definition may refer to, in its dictionary and in its list
    MaxDepth        \* bound: how deep Python recurses

Nothing == "nothing"
Defs == ToSet(Definitions)
OrNothing == Defs \cup {Nothing}

ASSUME SchemaAssumption ==
    /\ Definitions \in Seq(STRING) /\ Nothing \notin Defs
    /\ Shapes \subseteq [Defs -> [inDict : OrNothing, inList : OrNothing]]
    /\ MaxDepth \in Nat /\ MaxDepth > Cardinality(Defs)

VARIABLES
    refers,     \* what each definition refers to: a record of its inDict and inList
    request,    \* get_schema()'s arguments, and the properties: how many, of which model
    schema      \* what it returns: its root, its lists, and which parts it kept
schemaVars == <<refers, request, schema>>

\* An item: definitions that are copied one in the dictionary of the other, outermost
\* first, and what the innermost refers to.  The list of a copy of n is lists[n].
Items == [copies : Seq(Defs), ref : OrNothing]
Ref(n) == [copies |-> <<>>, ref |-> n]
Object(n, child) == [copies |-> <<n>> \o child.copies, ref |-> child.ref]
Child(value) == [value EXCEPT !.copies = Tail(@)]

NoRequest == [properties |-> 0, type |-> Nothing, embed |-> FALSE, resolve_refs |-> FALSE]
NoSchema == [shape |-> "none", root |-> Ref(Nothing), lists |-> <<>>, defs |-> FALSE]

SchemaInit == refers = <<>> /\ request = NoRequest /\ schema = NoSchema

Raw == [n \in Defs |-> Object(n, Ref(refers[n].inDict))]
RawLists == [n \in Defs |-> Ref(refers[n].inList)]

-----------------------------------------------------------------------------
(* _move_pydantic_refs(): the new value, the lists after it, and whether it ended *)

Contents == [Defs -> Items]
Original(value, refs, lists) == [value |-> value, refs |-> refs, lists |-> lists]
Moved(value, lists, ok) == [value |-> value, lists |-> lists, ok |-> ok]

Move[depth \in 0 .. MaxDepth] ==
    [o \in [value : Items, refs : Contents, lists : Contents] |->
        IF depth = 0 THEN Moved(o.value, o.lists, FALSE)
        ELSE IF o.value = Ref(Nothing) THEN Moved(o.value, o.lists, TRUE)
        ELSE IF o.value.copies = <<>> THEN Moved(o.refs[o.value.ref], o.lists, TRUE)
        ELSE LET n == Head(o.value.copies)
                 own == Move[depth - 1][Original(Child(o.value), o.refs, o.lists)]
                 item == Move[depth - 1][Original(own.lists[n], o.refs, own.lists)]
             IN  IF ~own.ok THEN own
                 ELSE Moved(Object(n, own.value), [item.lists EXCEPT ![n] = item.value], item.ok)]

\* All definitions of $defs, one after another
MoveAll(refs, lists) ==
    FoldLeft(LAMBDA st, n :
                 LET moved == Move[MaxDepth][Original(Raw[n], refs, st.lists)]
                 IN  IF ~st.ok THEN st
                     ELSE [refs |-> [st.refs EXCEPT ![n] = moved.value],
                           lists |-> moved.lists, ok |-> moved.ok],
             [refs |-> Raw, lists |-> lists, ok |-> TRUE], Definitions)

\* Mutant: references are moved once, in the definitions alone.
ResolveOnce ==
    LET st == MoveAll(Raw, RawLists)
    IN  Moved(st.refs[request.type], st.lists, st.ok)

\* The definitions are moved first, then the body, in which they come first;
\* the properties refer to one definition.
Resolve ==
    LET first == MoveAll(Raw, RawLists)
        body == MoveAll(first.refs, first.lists)
        root == Move[MaxDepth][Original(Ref(request.type), first.refs, body.lists)]
    IN  Moved(root.value, body.lists, first.ok /\ body.ok)

-----------------------------------------------------------------------------

Embeds(r) == r.embed /\ r.properties = 1

Requests == [properties : 0 .. 2, type : Defs, embed : BOOLEAN, resolve_refs : BOOLEAN]

AskSchema ==
    /\ request = NoRequest
    /\ refers' \in Shapes
    /\ request' \in Requests
    /\ UNCHANGED schema

GetSchema ==
    /\ request # NoRequest /\ schema = NoSchema
    /\ schema' =
          IF request.properties = 0 THEN [NoSchema EXCEPT !.shape = "null"]
          ELSE LET body == IF request.resolve_refs THEN Resolve
                           ELSE Moved(Ref(request.type), RawLists, TRUE)
               IN  IF ~body.ok THEN [NoSchema EXCEPT !.shape = "overflow"]
                   ELSE [shape |-> IF Embeds(request) THEN "property" ELSE "object",
                         root |-> body.value, lists |-> body.lists,
                         defs |-> ~request.resolve_refs /\ ~Embeds(request)]
    /\ UNCHANGED <<refers, request>>

SchemaDone ==
    /\ schema # NoSchema
    /\ schema' = NoSchema /\ request' = NoRequest /\ refers' = <<>>

SchemaNext == AskSchema \/ GetSchema \/ SchemaDone

SchemaSpec == SchemaInit /\ [][SchemaNext]_schemaVars

-----------------------------------------------------------------------------
(* Properties *)

\* No definition leads to itself.
Acyclic ==
    \E rank \in [Defs -> 1 .. Cardinality(Defs)] : \A n \in Defs :
        \A m \in {refers[n].inDict, refers[n].inList} \ {Nothing} : rank[m] < rank[n]

\* No definition has a dictionary in a dictionary that refers to a third
Shallow ==
    \A n \in Defs : refers[n].inDict # Nothing => refers[refers[n].inDict].inDict = Nothing

\* The definitions that are copied into the schema, whose lists are then part of it, and
\* the references left there
Parts(ns) == {schema.root} \cup {schema.lists[n] : n \in ns}
Copied ==
    {n \in Defs : \A ns \in SUBSET Defs : (\A v \in Parts(ns) : ToSet(v.copies) \subseteq ns) => n \in ns}
Dangling == {v.ref : v \in Parts(Copied)} \ {Nothing}

Answered == schema.shape \in {"object", "property"}

\* A schema that is returned without its definitions has no reference left to them: not
\* so where models are nested more than two deep, or when one property is embedded and
\* its references are not resolved.  It is returned, unless a definition leads to itself
\* through a list, which the rewriting does not leave (schema.py:30-36, 61-67).
NoDanglingRefs ==
    schema # NoSchema /\ Acyclic =>
        /\ schema.shape # "overflow"
        /\ Answered /\ ~schema.defs /\ request.resolve_refs /\ Shallow
              => Dangling = {}
==============================================================================
