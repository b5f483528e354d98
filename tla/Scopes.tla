--------------------------------- MODULE Scopes ---------------------------------
(***************************************************************************)
(* Provider.scope(): threads and tasks that override for the length of a   *)
(* with-block.  The blocks of one actor nest, those of several overlap,    *)
(* and a block may be left by an exception.  override() is one step here:  *)
(* module Builder has what it does on the way.                             *)
(***************************************************************************)
EXTENDS Provider, SequencesExt

CONSTANTS
    Actors,     \* the threads and tasks that use the provider
    MaxDepth    \* how deep the blocks of one actor nest (bound)
ASSUME DepthAssumption == MaxDepth \in Nat

VARIABLES
    blocks,     \* blocks[t]: the blocks t is in, the innermost last
    raising,    \* raising[t]: is an exception on its way out of t's blocks?
    escaped     \* history: did an exception ever leave a block?
scopeVars == <<registry, blocks, raising, escaped>>

\* alone is a history: nobody cleared, nor entered or left another block of the key,
\* since this one was entered.
Block == [key : Callables, override : Callables, alone : BOOLEAN]

Keys(t) == {blocks[t][i].key : i \in DOMAIN blocks[t]}

\* The blocks when someone has interfered with keys.
Disturbed(keys) ==
    [t \in Actors |->
        [i \in DOMAIN blocks[t] |->
            [blocks[t][i] EXCEPT !.alone = @ /\ blocks[t][i].key \notin keys]]]

ScopesInit ==
    /\ ProviderInit
    /\ blocks = [t \in Actors |-> <<>>]
    /\ raising = [t \in Actors |-> FALSE]
    /\ escaped = FALSE

\* inject() and override() elsewhere register what the blocks may override.
Declare ==
    /\ \/ \E m \in DeclaredModels : m.serializer = NoSerializer /\ AddDependant(m)
       \/ \E k \in Callables : Overriders[k] # {} /\ RegisterOriginal(k)
    /\ UNCHANGED <<blocks, raising, escaped>>

\* self.override(original, override) and the yield; the original is registered.
Enter(t) ==
    /\ ~raising[t]
    /\ Len(blocks[t]) < MaxDepth
    /\ \E k \in Callables : \E o \in Overriders[k] :
          /\ SetOverride(k, o, NoSerializer)
          /\ blocks' = [Disturbed({k}) EXCEPT ![t] =
                Append(@, [key |-> k, override |-> o,
                           alone |-> \A x \in Actors : k \notin Keys(x)])]
    /\ UNCHANGED <<raising, escaped>>

\* The block is left, its key's override popped or not.
Out(t, keys) == blocks' = [Disturbed(keys) EXCEPT ![t] = Front(@)]

\* Mutant: the override of the outermost block is popped.
LeaveOutermost(t) ==
    /\ blocks[t] # <<>>
    /\ ~raising[t]
    /\ PopOverride(Head(blocks[t]).key)
    /\ Out(t, {Last(blocks[t]).key})
    /\ UNCHANGED <<raising, escaped>>

\* The end of the block: self.overrides.pop(key, None).
Leave(t) ==
    /\ blocks[t] # <<>>
    /\ ~raising[t]
    /\ PopOverride(Last(blocks[t]).key)
    /\ Out(t, {Last(blocks[t]).key})
    /\ UNCHANGED <<raising, escaped>>

Raise(t) ==
    /\ blocks[t] # <<>>
    /\ ~raising[t]
    /\ raising' = [raising EXCEPT ![t] = TRUE]
    /\ UNCHANGED <<registry, blocks, escaped>>

\* The generator of the context manager is resumed with the exception, at its yield.
LeaveRaising(t) ==
    /\ blocks[t] # <<>>
    /\ raising[t]
    /\ Out(t, {Last(blocks[t]).key})
    /\ escaped' = TRUE
    /\ UNCHANGED <<registry, raising>>

\* Between two blocks, or outside all of them, the exception is caught.
Catch(t) ==
    /\ raising[t]
    /\ raising' = [raising EXCEPT ![t] = FALSE]
    /\ UNCHANGED <<registry, blocks, escaped>>

\* A fixture's clear(), outside the actor's own blocks.
ClearOverrides(t) ==
    /\ blocks[t] = <<>>
    /\ Clear
    /\ blocks' = Disturbed(Callables)
    /\ UNCHANGED <<raising, escaped>>

ScopesNext ==
    \/ Declare
    \/ \E t \in Actors :
          \/ Enter(t)
          \/ Leave(t)
          \/ Raise(t)
          \/ LeaveRaising(t)
          \/ Catch(t)
          \/ ClearOverrides(t)

ScopesSpec == ScopesInit /\ [][ScopesNext]_scopeVars

-----------------------------------------------------------------------------
(* Properties *)

\* While blocks are only left at their end, however they nest and overlap, a key none
\* of them overrides is served by its original: no block outlives itself (provider.py:82-84).
NothingLeft ==
    ~escaped => \A k \in Callables :
        overrides[k] # NoModel => \E t \in Actors : k \in Keys(t)

\* A block whose key nobody else touches is served by its override from its first
\* statement to its last, whatever other keys' blocks nest in it or overlap with it
\* (provider.py:76-84).
BlockServed ==
    \A t \in Actors : \A i \in DOMAIN blocks[t] :
        LET b == blocks[t][i]
        IN  b.alone => /\ overrides[b.key] # NoModel
                       /\ overrides[b.key].call = Unwrap[b.override]

-----------------------------------------------------------------------------
(* What the tests say, and does not hold. *)

\* "assert func() == 1" after the block: the override ends with it.
BlockEnds ==
    \A k \in Callables : overrides[k] # NoModel => \E t \in Actors : k \in Keys(t)
==============================================================================
