-------------------------------- MODULE Annotations --------------------------------
(***************************************************************************)
(* How inject() finds the type that a name in an annotation stands for:    *)
(* among the locals of all the frames on the stack, then the globals of    *)
(* the function.  One name; the annotation is its string, or an Annotated  *)
(* of it, which several functions may share.                               *)
(***************************************************************************)
EXTENDS Naturals, Sequences, SequencesExt

CONSTANTS
    Modules,
    Globals,    \* Globals[m]: the type the name has in module m, or Unbound
    Hidden,     \* modules with fast_depends in their file name
    Types,
    MaxFrames   \* bound: frames on the stack

Unbound == "unbound"

VARIABLES
    frames,     \* the stack: the module of each frame and its local of that name
    origin,     \* __origin__ of the shared Annotated: Unbound while it is a ForwardRef
    injected    \* the function injected last: its annotation, where it was defined, its type
typingVars == <<frames, origin, injected>>

NothingInjected == [annotation |-> "none", defined |-> 0, type |-> Unbound, before |-> Unbound]

TypingInit == frames = <<>> /\ origin = Unbound /\ injected = NothingInjected

\* FastDepends' own frames, and what it takes for one, are left out.
Own(f) == f.module \in Hidden

\* Mutant: the frames are gone through from the innermost.
OutermostWins(fs) ==
    FoldLeft(LAMBDA locals, f : IF Own(f) \/ f.local = Unbound THEN locals ELSE f.local,
             Unbound, Reverse(fs))

\* locals.update(), from the outermost to the innermost
Update(fs) ==
    FoldLeft(LAMBDA locals, f : IF Own(f) \/ f.local = Unbound THEN locals ELSE f.local,
             Unbound, fs)

CollectOuterStackLocals == Update(frames)

\* NameError is tolerated: what cannot be resolved stays a ForwardRef.
EvaluateForwardref(globalns) ==
    IF CollectOuterStackLocals # Unbound THEN CollectOuterStackLocals ELSE globalns

\* get_typed_annotation(): an Annotated is changed in place, hence for every function
\* that shares it, and is not a ForwardRef any more when it comes by again.
GetTypedAnnotation(annotation, globalns) ==
    IF annotation = "shared" /\ origin # Unbound THEN origin ELSE EvaluateForwardref(globalns)

\* A function is called, which has the name as a local or has not.
EnterFrame ==
    /\ Len(frames) < MaxFrames
    /\ \E m \in Modules, t \in Types \cup {Unbound} :
          frames' = Append(frames, [module |-> m, local |-> t])
    /\ injected' = NothingInjected
    /\ UNCHANGED origin

LeaveFrame ==
    /\ frames # <<>>
    /\ frames' = Front(frames)
    /\ injected' = NothingInjected
    /\ UNCHANGED origin

\* get_typed_signature() of a function defined in frame d
InjectTyped(annotation, d) ==
    /\ d \in DOMAIN frames
    /\ LET type == GetTypedAnnotation(annotation, Globals[frames[d].module])
       IN  /\ injected' = [annotation |-> annotation, defined |-> d, type |-> type,
                           before |-> origin]
           /\ origin' = IF annotation = "shared" THEN type ELSE origin
    /\ UNCHANGED frames

TypingNext ==
    \/ EnterFrame \/ LeaveFrame
    \/ \E annotation \in {"string", "shared"}, d \in 1 .. MaxFrames : InjectTyped(annotation, d)

TypingSpec == TypingInit /\ [][TypingNext]_typingVars

-----------------------------------------------------------------------------
(* Properties *)

\* What the name means where the function is written
Lexical(d) == IF frames[d].local # Unbound THEN frames[d].local ELSE Globals[frames[d].module]

Binds(i) == frames[i].local # Unbound /\ ~Own(frames[i])

\* A parameter has the type its annotation names where the function is written.  Not so if
\* a frame inside that one has a local of the name, or one around it and it has none; if
\* it has one in a module that is taken for FastDepends' own; or if the annotation is
\* shared and was resolved for another function (utils.py:119-163).
ResolvedIsLexical ==
    LET d == injected.defined
    IN  \/ injected.annotation = "none"
        \/ injected.type = Lexical(d)
        \/ \E i \in DOMAIN frames : Binds(i) /\ (i > d \/ (i < d /\ ~Binds(d)))
        \/ (frames[d].local # Unbound /\ Own(frames[d]))
        \/ (injected.annotation = "shared" /\ injected.before # Unbound)
==============================================================================
