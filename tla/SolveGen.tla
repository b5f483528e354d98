-------------------------------- MODULE SolveGen --------------------------------
(***************************************************************************)
(* solve_gen and solve_async_gen, what calling an injected generator       *)
(* returns: an iterator that solves the dependencies at its first item and *)
(* keeps their contexts open, on an exit stack of its own, until its items *)
(* are exhausted.  One iterator and the code that iterates over it, which  *)
(* may call iter() and next() in any order, and go on after an exception.  *)
(***************************************************************************)
EXTENDS Naturals, Sequences, SequencesExt

CONSTANTS
    MaxContexts,    \* how many contexts solving opens at most, all attempts together (bound)
    Casts           \* is there a serializer, which may refuse an item?
ASSUME BoundsAssumption == MaxContexts \in Nat /\ Casts \in BOOLEAN

VARIABLES
    open,       \* the contexts on self.stack
    dropped,    \* contexts of replaced exit stacks that CPython has not torn down yet
    iter,       \* self._iter: none, live, or over
    at,         \* where __next__() is: out, solving, advancing or closing
    told,       \* what the caller was last told, or is about to be told when closing:
                \* nothing, item, stop or error
    entered,    \* how many contexts were entered, and the next one's name
    exited,     \* the contexts torn down, in order: by an exit stack or by CPython
    given,      \* history: the contexts the generator was called with
    late,       \* history: was iter() called after the first next()?
    failed      \* history: did a first next() fail to solve?
vars == <<open, dropped, iter, at, told, entered, exited, given, late, failed>>

Init ==
    /\ open = <<>>
    /\ dropped = {}
    /\ iter = "none"
    /\ at = "out"
    /\ told = "nothing"
    /\ entered = 0
    /\ exited = <<>>
    /\ given = {}
    /\ late = FALSE
    /\ failed = FALSE

\* self.stack = ExitStack(): self.stack was the only reference to the one it replaces.
NewStack ==
    /\ open' = <<>>
    /\ dropped' = dropped \cup ToSet(open)

\* CPython deallocates a replaced exit stack, and the generators of its contexts are
\* closed where they yield.  In a sync iterator that is at once, the oldest context
\* first, or when the traceback that holds the stack is dropped; in an async one each is
\* closed by a task of the event loop, in any order.  Their exceptions go nowhere.
Collect ==
    \E c \in dropped :
        /\ dropped' = dropped \ {c}
        /\ exited' = Append(exited, c)
        /\ UNCHANGED <<open, iter, at, told, entered, given, late, failed>>

\* __iter__() and __aiter__()
Iter ==
    /\ at = "out"
    /\ NewStack
    /\ late' = (late \/ iter # "none")
    /\ UNCHANGED <<iter, at, told, entered, exited, given, failed>>

-----------------------------------------------------------------------------
(* __next__() and __anext__() *)

FirstNext ==
    /\ at = "out"
    /\ iter = "none"
    /\ NewStack
    /\ at' = "solving"
    /\ UNCHANGED <<iter, told, entered, exited, given, late, failed>>

\* A generator dependency yields.
EnterContext ==
    /\ at = "solving"
    /\ entered < MaxContexts
    /\ open' = Append(open, entered + 1)
    /\ entered' = entered + 1
    /\ UNCHANGED <<dropped, iter, at, told, exited, given, late, failed>>

\* A dependency raises, or an argument is refused: outside the try block.
SolvingFails ==
    /\ at = "solving"
    /\ at' = "out"
    /\ told' = "error"
    /\ failed' = TRUE
    /\ UNCHANGED <<open, dropped, iter, entered, exited, given, late>>

\* The dependencies are solved and the generator function is called.
Solved ==
    /\ at = "solving"
    /\ iter' = "live"
    /\ at' = "advancing"
    /\ given' = ToSet(open)
    /\ UNCHANGED <<open, dropped, told, entered, exited, late, failed>>

NextAgain ==
    /\ at = "out"
    /\ iter # "none"
    /\ at' = "advancing"
    /\ UNCHANGED <<open, dropped, iter, told, entered, exited, given, late, failed>>

\* Mutant: a finally clause closes the contexts after each item.
YieldsAndExits ==
    /\ at = "advancing"
    /\ iter = "live"
    /\ at' = "closing"
    /\ told' = "item"
    /\ UNCHANGED <<open, dropped, iter, entered, exited, given, late, failed>>

Yields ==
    /\ at = "advancing"
    /\ iter = "live"
    /\ at' = "out"
    /\ told' = "item"
    /\ UNCHANGED <<open, dropped, iter, entered, exited, given, late, failed>>

\* The item yielded does not fit the annotation: map() can go on, async_map() cannot.
ItemRefused ==
    /\ Casts
    /\ at = "advancing"
    /\ iter = "live"
    /\ iter' \in {"live", "over"}
    /\ at' = "out"
    /\ told' = "error"
    /\ UNCHANGED <<open, dropped, entered, exited, given, late, failed>>

\* Any exception but StopIteration leaves __next__() as it is.
Raises ==
    /\ at = "advancing"
    /\ iter = "live"
    /\ iter' = "over"
    /\ at' = "out"
    /\ told' = "error"
    /\ UNCHANGED <<open, dropped, entered, exited, given, late, failed>>

\* Mutant: the next iteration starts over.
StopsAndRestarts ==
    /\ at = "advancing"
    /\ iter' = "none"
    /\ at' = "closing"
    /\ told' = "stop"
    /\ UNCHANGED <<open, dropped, entered, exited, given, late, failed>>

\* Mutant: the contexts are left to the garbage collector.
StopsOnly ==
    /\ at = "advancing"
    /\ iter' = "over"
    /\ at' = "out"
    /\ told' = "stop"
    /\ UNCHANGED <<open, dropped, entered, exited, given, late, failed>>

\* StopIteration, now or again.
Stops ==
    /\ at = "advancing"
    /\ iter' = "over"
    /\ at' = "closing"
    /\ told' = "stop"
    /\ UNCHANGED <<open, dropped, entered, exited, given, late, failed>>

\* self.stack.__exit__(None, None, None), one context at a time; one may raise, a
\* later one swallow that.
ExitContext ==
    /\ at = "closing"
    /\ open # <<>>
    /\ exited' = Append(exited, Last(open))
    /\ open' = Front(open)
    /\ told' \in {"stop", "error"}
    /\ UNCHANGED <<dropped, iter, at, entered, given, late, failed>>

\* raise: StopIteration, or what a context raised.
StopReraised ==
    /\ at = "closing"
    /\ open = <<>>
    /\ at' = "out"
    /\ UNCHANGED <<open, dropped, iter, told, entered, exited, given, late, failed>>

Advance ==
    \/ EnterContext
    \/ SolvingFails
    \/ Solved
    \/ Yields
    \/ ItemRefused
    \/ Raises
    \/ Stops
    \/ ExitContext
    \/ StopReraised

Next == Iter \/ FirstNext \/ NextAgain \/ Advance \/ Collect

Spec == Init /\ [][Next]_vars

-----------------------------------------------------------------------------
(* Properties *)

\* No dependency of the generator is torn down under it, by its exit stack or by CPython,
\* while it can still produce an item: unless its caller calls iter() in between, which
\* drops the exit stack they are on (use.py:263, 281-287).
OpenWhileLive == iter = "live" /\ ~late => given \cap ToSet(exited) = {}

\* No context is torn down twice, and they are torn down in the reverse of the order they
\* were opened in, unless an exit stack was replaced with contexts on it.
ReverseOrder ==
    /\ IsInjective(exited)
    /\ ~late /\ ~failed => \A i, j \in DOMAIN exited : i < j => exited[i] > exited[j]

\* When the items are exhausted, every context ever opened has been torn down, and before
\* the caller knows; what an exit stack replaced with contexts on it had is left to CPython.
ClosedWhenExhausted ==
    at = "out" /\ told = "stop" =>
        /\ 1 .. entered \subseteq ToSet(exited) \cup dropped
        /\ ~late /\ ~failed => dropped = {}

\* Exhausted once, exhausted for ever: iterating again gives no item, and opens
\* nothing, whether or not iter() is called again ("ref: issues/165").
StopIsForever ==
    [][told = "stop" => told' # "item" /\ entered' = entered]_vars
==============================================================================
