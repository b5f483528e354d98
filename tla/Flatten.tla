---------------------------------- MODULE Flatten ----------------------------------
(***************************************************************************)
(* CallModel.flat_params: the parameters the caller of a model, or of one  *)
(* of its dependencies, is to give; and what solve() takes from the        *)
(* keyword arguments, which it passes down from model to model.            *)
(***************************************************************************)
EXTENDS Integers, FiniteSets, SequencesExt

CONSTANTS
    Models,
    Programs,   \* functions from models to their params, dependencies and extras
    Main,
    Overrides   \* the overrides there may be

Argument == [arg : STRING, key : Models]
CallModel == [params : Seq(STRING), dependencies : Seq(Argument), extras : Seq(Models)]

ArgumentsOf(m) == {d.arg : d \in ToSet(m.dependencies)}
KeysOf(m) == {d.key : d \in ToSet(m.dependencies)} \cup ToSet(m.extras)

\* Parameters have names of their own.
ModelOK(m) ==
    /\ m \in CallModel
    /\ IsInjective(m.params)
    /\ \A i, j \in DOMAIN m.dependencies :
          i # j => m.dependencies[i].arg # m.dependencies[j].arg

\* What get_dependant() returns
Served(over, key) == IF key \in DOMAIN over THEN over[key] ELSE key

\* No model is among its own dependencies: a default names what is defined before it, and
\* so does an override (one that does not is solved without end).
NoCycleIn(prog, over) ==
    \E rank \in [Models -> 1 .. Cardinality(Models)] :
        \A m \in Models : \A key \in KeysOf(prog[m]) : rank[Served(over, key)] < rank[m]

ASSUME FlattenAssumption ==
    /\ IsFiniteSet(Models) /\ Main \in Models
    /\ <<>> \in Overrides
    /\ \A over \in Overrides : \A key \in DOMAIN over \cap Models : over[key] \in Models
    /\ \A prog \in Programs :
          /\ DOMAIN prog = Models
          /\ \A m \in Models : ModelOK(prog[m])
          /\ \A over \in Overrides : NoCycleIn(prog, over)

VARIABLES
    program,    \* one of Programs, once there is one
    overrides   \* the overridden models, and by what
flattenVars == <<program, overrides>>

NoProgram == <<>>
FlattenInit == program = NoProgram /\ overrides = <<>>

GetDependant(key) == Served(overrides, key)

-----------------------------------------------------------------------------
(* flat_params *)

AppendNew(params, more) ==
    FoldLeft(LAMBDA list, p : IF p \in ToSet(list) THEN list ELSE Append(list, p), params, more)

\* Mutant: extra dependencies are left out.
DeclaredAsArguments(m) == [i \in DOMAIN m.dependencies |-> m.dependencies[i].key]

ToFlatten(m) == [i \in DOMAIN m.dependencies |-> m.dependencies[i].key] \o m.extras

FlatParams[m \in Models] ==
    FoldLeft(LAMBDA params, key : AppendNew(params, FlatParams[GetDependant(key)]),
             program[m].params, ToFlatten(program[m]))

-----------------------------------------------------------------------------
(* solve(): the names m and its dependencies look for and do not find, given those in kw *)

\* What the i-th dependency is given by keyword: the arguments before it, too.
Known(kw, ds, i) == kw \cup {ds[j].arg : j \in 1 .. i - 1}

Lacks[m \in Models] ==
    [kw \in SUBSET STRING |->
        LET ds == program[m].dependencies
        IN  (ToSet(program[m].params) \ kw) \cup UNION (
                {Lacks[GetDependant(key)][kw] : key \in ToSet(program[m].extras)}
                    \cup {Lacks[GetDependant(ds[i].key)][Known(kw, ds, i)] :
                              i \in {j \in DOMAIN ds : ds[j].arg \notin kw}})]

-----------------------------------------------------------------------------

\* inject() of a function
Build ==
    /\ program = NoProgram
    /\ program' \in Programs
    /\ UNCHANGED overrides

\* override() and clear()
Override ==
    /\ program # NoProgram
    /\ overrides' \in Overrides \ {overrides}
    /\ UNCHANGED program

FlattenNext == Build \/ Override

FlattenSpec == FlattenInit /\ [][FlattenNext]_flattenVars

-----------------------------------------------------------------------------
(* Properties *)

Listed == FlatParams[Main]

\* The names that solve() finds values for, anywhere in the program
Arguments == UNION {ArgumentsOf(program[m]) : m \in Models}

\* No two models have an argument in common.
ArgumentsDiffer ==
    \A m, n \in Models : m # n => ArgumentsOf(program[m]) \cap ArgumentsOf(program[n]) = {}

\* Who gives every parameter listed has given all that any model of the call looks for,
\* whatever overrides there are; and each is needed, and listed once.  What shares its name
\* with an argument of an outer model may be listed and not needed: the value of the outer
\* one is passed down, and found in the place of the parameter, or of the dependency and of
\* all that this would have looked for (model.py:55-65, 223-247).
ListedAreNeeded ==
    program # NoProgram =>
        /\ Lacks[Main][ToSet(Listed)] = {}
        /\ IsInjective(Listed)
        /\ ArgumentsDiffer /\ ToSet(Listed) \cap Arguments = {} =>
              \A p \in ToSet(Listed) : p \in Lacks[Main][ToSet(Listed) \ {p}]
==============================================================================
