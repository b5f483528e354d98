--------------------------------- MODULE ThreadPool ---------------------------------
(***************************************************************************)
(* Calls of coroutine functions, each in a task of its own, whose sync     *)
(* dependencies run in anyio's thread pool: functions, and generators as   *)
(* context managers that contextmanager_in_threadpool() enters under the   *)
(* pool's limiter and leaves under a limiter of their own.  Some           *)
(* generators block their thread until a connection is free, which they    *)
(* hold until they are resumed.  A task may be cancelled where it awaits.  *)
(***************************************************************************)
EXTENDS Naturals, Sequences, FiniteSets, SequencesExt

CONSTANTS
    Tasks,
    Steps,          \* Steps[t]: its dependencies in order: plain, context or pooled
    Limit,          \* threads of the default limiter
    Connections,    \* how many connections there are
    Cancellable     \* tasks that may be cancelled

Kinds == {"plain", "context", "pooled"}

\* Exceptions: who raised one, and the place of its dependency.
Exceptions ==
    [by : {"nobody", "dependency", "function", "context", "canceller", "wrapper"}, at : Nat]

NoError == [by |-> "nobody", at |-> 0]
Cancelled == [by |-> "canceller", at |-> 0]
FromDependency(i) == [by |-> "dependency", at |-> i]
FromFunction == [by |-> "function", at |-> 0]
FromContext(i) == [by |-> "context", at |-> i]
Unreachable == [by |-> "wrapper", at |-> 0]

\* What makes calls end: a dependency that waits for a connection is the last one, so
\* that no task waits for a thread while it holds one; and it is not abandoned.
ASSUME PoolAssumption ==
    /\ Limit \in Nat \ {0} /\ Connections \in Nat \ {0}
    /\ Cancellable \subseteq Tasks
    /\ \A t \in Tasks :
          /\ Steps[t] \in Seq(Kinds)
          /\ \A i \in DOMAIN Steps[t] :
                Steps[t][i] = "pooled" => i = Len(Steps[t]) /\ t \notin Cancellable

VARIABLES
    pc,         \* pc[t]: idle, queued, thread, body, exiting, exit thread or done
    step,       \* step[t]: the dependency it is at
    queue,      \* tasks that wait for a thread, in the order they came
    open,       \* open[t]: its exit stack, of contexts named by their place
    raising,    \* raising[t]: the exception on its way, or NoError
    received,   \* received[t]: the exception its with-block ended with, or NoError
    holders,    \* tasks that hold a connection
    opened,     \* history: the contexts t opened, in order
    resumed     \* history: the contexts resumed, what they were given and what they did
poolVars == <<pc, step, queue, open, raising, received, holders, opened, resumed>>

Threads == {t \in Tasks : pc[t] = "thread"}

Kind(t) == Steps[t][step[t]]

\* Mutant: contexts are left under the default limiter.
DefaultLimiter(t) == Cardinality(Threads) < Limit

\* anyio.CapacityLimiter(1), one for each context
ExitLimiter(t) == TRUE

PoolInit ==
    /\ pc = [t \in Tasks |-> "idle"]
    /\ step = [t \in Tasks |-> 1]
    /\ queue = <<>>
    /\ open = [t \in Tasks |-> <<>>]
    /\ raising = [t \in Tasks |-> NoError]
    /\ received = raising
    /\ holders = {}
    /\ opened = open
    /\ resumed = open

\* On to the dependency at n, for which it asks for a thread, or to the function.
GoTo(t, n) ==
    /\ step' = [step EXCEPT ![t] = n]
    /\ IF n <= Len(Steps[t])
       THEN pc' = [pc EXCEPT ![t] = "queued"] /\ queue' = Append(queue, t)
       ELSE pc' = [pc EXCEPT ![t] = "body"] /\ UNCHANGED queue

\* async with AsyncExitStack()
StartCall(t) ==
    /\ pc[t] = "idle"
    /\ GoTo(t, 1)
    /\ UNCHANGED <<open, raising, received, holders, opened, resumed>>

GetThread(t) ==
    /\ queue # <<>> /\ Head(queue) = t
    /\ Cardinality(Threads) < Limit
    /\ queue' = Tail(queue)
    /\ pc' = [pc EXCEPT ![t] = "thread"]
    /\ UNCHANGED <<step, open, raising, received, holders, opened, resumed>>

\* run_in_threadpool(), of the function
FunctionReturns(t) ==
    /\ pc[t] = "thread" /\ Kind(t) = "plain"
    /\ GoTo(t, step[t] + 1)
    /\ UNCHANGED <<open, raising, received, holders, opened, resumed>>

\* Mutant: the context is put at the bottom of the stack.
PushFirst(s, i) == <<i>> \o s

Push(s, i) == Append(s, i)

\* run_in_threadpool(cm.__enter__), and its exit pushed on the stack
Enters(t) ==
    /\ pc[t] = "thread" /\ Kind(t) # "plain"
    /\ IF Kind(t) = "pooled"
       THEN Cardinality(holders) < Connections /\ holders' = holders \cup {t}
       ELSE UNCHANGED holders
    /\ open' = [open EXCEPT ![t] = Push(@, step[t])]
    /\ opened' = [opened EXCEPT ![t] = Append(@, step[t])]
    /\ GoTo(t, step[t] + 1)
    /\ UNCHANGED <<raising, received, resumed>>

\* A dependency raises.  A context that could not be entered is left at once, which a
\* generator that has ended does not notice.
Fails(t) ==
    /\ pc[t] = "thread"
    /\ pc' = [pc EXCEPT ![t] = "exiting"]
    /\ raising' = [raising EXCEPT ![t] = FromDependency(step[t])]
    /\ received' = [received EXCEPT ![t] = FromDependency(step[t])]
    /\ UNCHANGED <<step, queue, open, holders, opened, resumed>>

\* The function returns or raises.
BodyEnds(t) ==
    /\ pc[t] = "body"
    /\ pc' = [pc EXCEPT ![t] = "exiting"]
    /\ \E e \in {NoError, FromFunction} :
          /\ raising' = [raising EXCEPT ![t] = e]
          /\ received' = [received EXCEPT ![t] = e]
    /\ UNCHANGED <<step, queue, open, holders, opened, resumed>>

-----------------------------------------------------------------------------
(* The exit stack *)

\* "except Exception" or "else": cm.__exit__ is called in a thread.  CancelledError is no
\* Exception, and passes.
Exits(t) ==
    /\ pc[t] = "exiting" /\ open[t] # <<>> /\ raising[t] # Cancelled
    /\ ExitLimiter(t)
    /\ pc' = [pc EXCEPT ![t] = "exit thread"]
    /\ UNCHANGED <<step, queue, open, raising, received, holders, opened, resumed>>

\* What a generator does when it is resumed: it ends, lets the exception it was given
\* through, or raises another.
Answers(given) == IF given = NoError THEN {"ends", "raises"} ELSE {"ends", "same", "raises"}

\* cm.__exit__() of a context that does not raise: did the generator end with the
\* exception thrown into it?
Ok(given, answer) == given # NoError /\ answer = "ends"

\* Mutant: what __exit__ returns is not looked at.
AlwaysRaised(given, answer, i) == IF answer = "raises" THEN FromContext(i) ELSE given

\* What __exit__ raises itself, or "if not ok: raise e"; what it returns when no exception
\* was given is not looked at.
AfterExit(given, answer, i) ==
    IF answer = "raises" THEN FromContext(i) ELSE IF Ok(given, answer) THEN NoError ELSE given

Resumed(t) ==
    /\ pc[t] = "exit thread"
    /\ \E answer \in Answers(raising[t]) :
          /\ raising' = [raising EXCEPT ![t] = AfterExit(@, answer, Last(open[t]))]
          /\ resumed' = [resumed EXCEPT ![t] =
                Append(@, [context |-> Last(open[t]), given |-> raising[t], answer |-> answer])]
    /\ holders' = IF Steps[t][Last(open[t])] = "pooled" THEN holders \ {t} ELSE holders
    /\ open' = [open EXCEPT ![t] = Front(@)]
    /\ pc' = [pc EXCEPT ![t] = "exiting"]
    /\ UNCHANGED <<step, queue, received, opened>>

\* The coroutine ends with CancelledError, the generator is not resumed.
PassesBy(t) ==
    /\ pc[t] = "exiting" /\ open[t] # <<>> /\ raising[t] = Cancelled
    /\ open' = [open EXCEPT ![t] = Front(@)]
    /\ UNCHANGED <<pc, step, queue, raising, received, holders, opened, resumed>>

\* The with-block is left: with its value, with the exception on its way, or, when the
\* one it ended with was swallowed, with neither.
Ends(t) ==
    /\ pc[t] = "exiting" /\ open[t] = <<>>
    /\ pc' = [pc EXCEPT ![t] = "done"]
    /\ raising' = [raising EXCEPT ![t] =
          IF @ = NoError /\ received[t] # NoError THEN Unreachable ELSE @]
    /\ UNCHANGED <<step, queue, open, received, holders, opened, resumed>>

\* Where it awaits: a thread that has begun is waited for.
Cancel(t) ==
    /\ t \in Cancellable
    /\ pc[t] \in {"queued", "body"} \/ (pc[t] = "exiting" /\ open[t] # <<>>)
    /\ raising[t] # Cancelled
    /\ raising' = [raising EXCEPT ![t] = Cancelled]
    /\ pc' = [pc EXCEPT ![t] = "exiting"]
    /\ IF pc[t] = "queued"
       THEN \E i \in DOMAIN queue : queue[i] = t /\ queue' = RemoveAt(queue, i)
       ELSE UNCHANGED queue
    /\ UNCHANGED <<step, open, received, holders, opened, resumed>>

-----------------------------------------------------------------------------

Work(t) ==
    \/ GetThread(t) \/ FunctionReturns(t) \/ Enters(t) \/ Fails(t) \/ BodyEnds(t)
    \/ Exits(t) \/ Resumed(t) \/ PassesBy(t) \/ Ends(t)

PoolNext == \E t \in Tasks : StartCall(t) \/ Work(t) \/ Cancel(t)

\* Threads that can go on do, and so does the event loop.  Nothing need fail.
PoolFairness ==
    \A t \in Tasks :
        WF_poolVars(GetThread(t) \/ FunctionReturns(t) \/ Enters(t) \/ BodyEnds(t)
                    \/ Exits(t) \/ Resumed(t) \/ PassesBy(t) \/ Ends(t))

PoolSpec == PoolInit /\ [][PoolNext]_poolVars /\ PoolFairness

-----------------------------------------------------------------------------
(* Properties *)

\* Types; who waits for a thread waits once, and connections are not shared.
PoolTypeOK ==
    /\ pc \in [Tasks -> {"idle", "queued", "thread", "body", "exiting", "exit thread", "done"}]
    /\ step \in [Tasks -> Nat]
    /\ queue \in Seq({t \in Tasks : pc[t] = "queued"}) /\ IsInjective(queue)
    /\ raising \in [Tasks -> Exceptions] /\ received \in [Tasks -> Exceptions]
    /\ holders \subseteq Tasks /\ Cardinality(holders) <= Connections
    /\ \A t \in Tasks : open[t] \in Seq(DOMAIN Steps[t])
    /\ \A t \in Tasks : resumed[t] \in
          Seq([context : DOMAIN Steps[t], given : Exceptions, answer : {"ends", "same", "raises"}])

\* A call that is not cancelled has resumed every generator it opened when it ends, each
\* once and in reverse; one that is cancelled, some of them (utils.py:166-184).
ResumedInReverse ==
    \A t \in Tasks :
        LET order == [i \in DOMAIN resumed[t] |-> resumed[t][i].context]
        IN  /\ IsPrefix(order, Reverse(opened[t]))
            /\ pc[t] = "done" /\ raising[t] # Cancelled => order = Reverse(opened[t])

\* What should reach those around the first n generators resumed: what the last of them
\* did that did not let an exception through, or what the with-block ended with if all
\* did.
Reaches(t, n, e) ==
    LET r == resumed[t]
        Through(i) == \A j \in i + 1 .. n : r[j].answer = "same"
    IN  \/ Through(0) /\ e = received[t]
        \/ \E i \in 1 .. n : Through(i) /\ r[i].answer = "ends" /\ e = NoError
        \/ \E i \in 1 .. n : Through(i) /\ r[i].answer = "raises" /\ e = FromContext(r[i].context)

\* "All errors occurs at original function or another dependencies will be raised this
\* place" (docs/docs/tutorial/yield.md): the innermost generator is resumed with what the
\* function or a dependency raised, and every other one with what those inside it let
\* through or raised instead.  So is the caller, unless it cancelled the call, and it is
\* never given a value when the function or a dependency raised.
ErrorsArrive ==
    \A t \in Tasks :
        LET n == Len(resumed[t])
        IN  /\ \A i \in 1 .. n : Reaches(t, i - 1, resumed[t][i].given)
            /\ pc[t] = "done" /\ raising[t] \notin {Cancelled, Unreachable} =>
                  Reaches(t, n, raising[t])
            /\ pc[t] = "done" /\ raising[t] = Unreachable => Reaches(t, n, NoError)
            /\ pc[t] = "done" /\ raising[t] = NoError => received[t] = NoError

\* Every call ends, though calls that hold the connections wait for no one's thread and
\* those with the threads wait for connections: exits do not ask the default limiter.
CallsReturn == \A t \in Tasks : pc[t] # "idle" ~> pc[t] = "done"
==============================================================================
