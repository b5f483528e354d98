---------------------------------- MODULE Fields ----------------------------------
(***************************************************************************)
(* The custom fields of one CallModel, between its dependencies and its    *)
(* callable.  solve() asks them one after another; asolve() first asks all *)
(* those that fill the keyword arguments in place (field = True), at once, *)
(* in a task group, then the others one after another, each with a copy.   *)
(* A coroutine may be cancelled where it awaits; what runs in the thread   *)
(* pool cannot, and the task group waits for it.                           *)
(***************************************************************************)
EXTENDS Naturals, Sequences, SequencesExt

CONSTANTS
    Order,      \* custom_fields: the parameters that have one, in signature order
    InPlace,    \* those whose custom has field = True
    AsyncUse,   \* those whose use() is a coroutine function
    AsyncField  \* those whose use_field() is

Customs == ToSet(Order)

ASSUME OrderAssumption ==
    /\ Order \in Seq(Customs) /\ IsInjective(Order)
    /\ InPlace \subseteq Customs
    /\ AsyncUse \subseteq Customs
    /\ AsyncField \subseteq InPlace

VARIABLES
    mode,       \* which of solve() and asolve() runs
    phase,      \* idle, one by one, group, done or error
    todo,       \* the customs still to be asked one by one
    task,       \* task[p]: none, ready, running, ended, failed or cancelled
    kwargs,     \* kwargs[p]: filled by p's custom, or not (absent)
    copy,       \* the keyword arguments passed to the use() under way
    errors,     \* the exceptions of the task group, named by their parameters
    raised,     \* the one the caller gets, if any
    filled      \* history: the customs that found a value for their parameter
vars == <<mode, phase, todo, task, kwargs, copy, errors, raised, filled>>

Kwargs == [Customs -> {"absent", "filled"}]

Fill(kw, p) == [kw EXCEPT ![p] = "filled"]

\* What build_call_model() tests of a custom of a sync function.
Refused(p) == p \in AsyncUse

-----------------------------------------------------------------------------

Init ==
    /\ mode = "sync"
    /\ phase = "idle"
    /\ todo = {}
    /\ task = [p \in Customs |-> "none"]
    /\ kwargs = [p \in Customs |-> "absent"]
    /\ copy = kwargs
    /\ errors = <<>>
    /\ raised = {}
    /\ filled = {}

\* The dependencies are solved: the customs of this call are next.
Begin ==
    /\ phase \in {"idle", "done", "error"}
    /\ kwargs' = [p \in Customs |-> "absent"]
    /\ copy' = kwargs'
    /\ task' = [p \in Customs |-> "none"]
    /\ errors' = <<>>
    /\ raised' = {}
    /\ filled' = {}
    /\ \/ /\ \A p \in Customs : ~Refused(p)
          /\ mode' = "sync"
          /\ phase' = "one by one"
          /\ todo' = Customs
       \/ /\ mode' = "async"
          /\ phase' = "group"
          /\ todo' = {}

-----------------------------------------------------------------------------
(* solve() *)

\* p is the first of those left.
Asking(p) ==
    /\ phase = "one by one" /\ p \in todo
    /\ \E i \in DOMAIN Order : Order[i] = p /\ \A j \in 1 .. i - 1 : Order[j] \notin todo

\* use_field(kwargs), which may find nothing to fill in.
UseField(p) ==
    /\ Asking(p)
    /\ mode = "sync" /\ p \in InPlace \ AsyncField
    /\ \/ kwargs' = Fill(kwargs, p) /\ filled' = filled \cup {p}
       \/ UNCHANGED <<kwargs, filled>>
    /\ task' = [task EXCEPT ![p] = "ended"]
    /\ todo' = todo \ {p}
    /\ UNCHANGED <<mode, phase, copy, errors, raised>>

\* The coroutine use_field() returns is dropped.
UseFieldDropped(p) ==
    /\ Asking(p)
    /\ mode = "sync" /\ p \in AsyncField
    /\ todo' = todo \ {p}
    /\ UNCHANGED <<mode, phase, task, kwargs, copy, errors, raised, filled>>

-----------------------------------------------------------------------------
(* The task group of asolve() *)

\* start_soon() of all of them; nothing runs before the block is left.
StartSoon ==
    /\ phase = "group"
    /\ \A p \in Customs : task[p] = "none"
    /\ InPlace # {}
    /\ task' = [p \in Customs |-> IF p \in InPlace THEN "ready" ELSE "none"]
    /\ UNCHANGED <<mode, phase, todo, kwargs, copy, errors, raised, filled>>

TaskRuns(p) ==
    /\ task[p] = "ready"
    /\ task' = [task EXCEPT ![p] = "running"]
    /\ UNCHANGED <<mode, phase, todo, kwargs, copy, errors, raised, filled>>

TaskEnds(p) ==
    /\ task[p] = "running" /\ p \in InPlace
    /\ task' = [task EXCEPT ![p] = "ended"]
    /\ \/ kwargs' = Fill(kwargs, p) /\ filled' = filled \cup {p}
       \/ UNCHANGED <<kwargs, filled>>
    /\ UNCHANGED <<mode, phase, todo, copy, errors, raised>>

TaskFails(p) ==
    /\ task[p] = "running" /\ p \in InPlace
    /\ task' = [task EXCEPT ![p] = "failed"]
    /\ errors' = Append(errors, p)
    /\ UNCHANGED <<mode, phase, todo, kwargs, copy, raised, filled>>

\* Mutant: a cancelled custom is asked again.
TaskRestarted(p) ==
    /\ errors # <<>>
    /\ \/ task[p] = "ready"
       \/ task[p] = "running" /\ p \in AsyncField
    /\ task' = [task EXCEPT ![p] = "ready"]
    /\ UNCHANGED <<mode, phase, todo, kwargs, copy, errors, raised, filled>>

\* Another task failed: CancelledError, before it runs or where it awaits.
TaskCancelled(p) ==
    /\ errors # <<>>
    /\ \/ task[p] = "ready"
       \/ task[p] = "running" /\ p \in AsyncField
    /\ task' = [task EXCEPT ![p] = "cancelled"]
    /\ UNCHANGED <<mode, phase, todo, kwargs, copy, errors, raised, filled>>

\* Mutant: the tasks are not joined.
NoJoin == \A p \in InPlace : task[p] # "none"

\* All tasks of the group have come to their end.
Joined == \A p \in InPlace : task[p] \in {"ended", "failed", "cancelled"}

\* custom_to_solve
Others == Customs \ InPlace

\* Mutant: an exception of the group is taken for a value that was not found.
GroupForgives ==
    /\ phase = "group"
    /\ Joined
    /\ phase' = "one by one"
    /\ todo' = Others
    /\ UNCHANGED <<mode, task, kwargs, copy, errors, raised, filled>>

GroupEnds ==
    /\ phase = "group"
    /\ Joined
    /\ errors = <<>>
    /\ phase' = "one by one"
    /\ todo' = Others
    /\ UNCHANGED <<mode, task, kwargs, copy, errors, raised, filled>>

\* for ex in exgr.exceptions: raise ex from None
GroupFails ==
    /\ phase = "group"
    /\ Joined
    /\ errors # <<>>
    /\ phase' = "error"
    /\ raised' = {Head(errors)}
    /\ UNCHANGED <<mode, todo, task, kwargs, copy, errors, filled>>

-----------------------------------------------------------------------------
(* use(), of both: it is given a copy and returns a dictionary *)

UseRuns(p) ==
    /\ Asking(p)
    /\ p \notin InPlace
    /\ task[p] = "none"
    /\ task' = [task EXCEPT ![p] = "running"]
    /\ copy' = kwargs
    /\ UNCHANGED <<mode, phase, todo, kwargs, errors, raised, filled>>

\* Mutant: what use() returns is taken for the value of its own parameter only.
UseReturnsOwn(p) ==
    /\ Asking(p)
    /\ task[p] = "running"
    /\ \/ kwargs' = [q \in Customs |-> IF q = p THEN "filled" ELSE "absent"]
          /\ filled' = filled \cup {p}
       \/ kwargs' = copy /\ UNCHANGED filled
    /\ task' = [task EXCEPT ![p] = "ended"]
    /\ todo' = todo \ {p}
    /\ UNCHANGED <<mode, phase, copy, errors, raised>>

\* kwargs = what it returns.
UseReturns(p) ==
    /\ Asking(p)
    /\ task[p] = "running"
    /\ \/ kwargs' = Fill(copy, p) /\ filled' = filled \cup {p}
       \/ kwargs' = copy /\ UNCHANGED filled
    /\ task' = [task EXCEPT ![p] = "ended"]
    /\ todo' = todo \ {p}
    /\ UNCHANGED <<mode, phase, copy, errors, raised>>

\* use() raises, or the use_field() of a sync call.
AskingFails(p) ==
    /\ Asking(p)
    /\ IF p \in InPlace THEN p \notin AsyncField ELSE task[p] = "running"
    /\ phase' = "error"
    /\ raised' = {p}
    /\ task' = [task EXCEPT ![p] = "failed"]
    /\ UNCHANGED <<mode, todo, kwargs, copy, errors, filled>>

\* The callable gets the keyword arguments.
Done ==
    /\ phase = "one by one"
    /\ todo = {}
    /\ phase' = "done"
    /\ UNCHANGED <<mode, todo, task, kwargs, copy, errors, raised, filled>>

-----------------------------------------------------------------------------

\* One custom's own steps, and those of the model's.
Ask(p) ==
    \/ UseField(p) \/ UseFieldDropped(p)
    \/ TaskRuns(p) \/ TaskEnds(p) \/ TaskFails(p) \/ TaskCancelled(p)
    \/ UseRuns(p) \/ UseReturns(p) \/ AskingFails(p)

Control == StartSoon \/ GroupEnds \/ GroupFails \/ Done

Next == Begin \/ Control \/ \E p \in Customs : Ask(p)

\* Customs end, threads and tasks are scheduled.
Fairness == WF_vars(Control) /\ \A p \in Customs : WF_vars(Ask(p))

Spec == Init /\ [][Next]_vars /\ Fairness

-----------------------------------------------------------------------------
(* Properties *)

TypeOK ==
    /\ mode \in {"sync", "async"}
    /\ phase \in {"idle", "one by one", "group", "done", "error"}
    /\ todo \in SUBSET Customs
    /\ task \in [Customs -> {"none", "ready", "running", "ended", "failed", "cancelled"}]
    /\ kwargs \in Kwargs
    /\ copy \in Kwargs
    /\ errors \in Seq(Customs)
    /\ raised \in SUBSET Customs
    /\ filled \in SUBSET Customs

\* No value a custom found is lost: not to another custom filling the same dictionary
\* at the same time, and not to one that was handed a copy before (model.py:323-339).
NothingLost == phase = "done" => \A p \in filled : kwargs[p] = "filled"

\* No custom outlives the call: when the callable runs, or the caller has its exception,
\* none is still at work on the arguments, in a task or in a thread (model.py:326-336).
NobodyLeft ==
    phase \in {"done", "error"} => \A p \in Customs : task[p] \notin {"ready", "running"}

\* "the original error must be re-raised as is": the callable never runs when a custom
\* failed, the caller gets the exception of one that did, and if that was one of the
\* group, none of those asked after the group was asked (model.py:334-339).
ErrorIsReal ==
    /\ phase = "done" => \A p \in Customs : task[p] # "failed"
    /\ phase = "error" =>
          \E p \in Customs :
              /\ raised = {p}
              /\ task[p] = "failed"
              /\ mode = "async" /\ p \in InPlace =>
                    \A q \in Customs \ InPlace : task[q] = "none"

\* Every call comes to its callable or to an exception.
CustomsEnd == phase \in {"group", "one by one"} ~> phase \in {"done", "error"}

-----------------------------------------------------------------------------
(* What an assertion says, and does not hold. *)

\* "You cannot use async custom field at sync": a call that gets to its callable has
\* asked every custom.
EveryoneAsked == phase = "done" => \A p \in Customs : task[p] = "ended"
==============================================================================
