# Verification of FastDepends

TLA+ models of FastDepends (`fast_depends/`), the configurations that check them
with TLC, and theorems about them whose proofs TLAPS checks.

Two ways to read this: from "The system" down, or from the table of runs, each of
which answers one question about the library.

- Parse: `tlasany M.tla`. Check: `tlc -config X.cfg M`. Prove: `tlapm M.tla`.
- `PROJECT.json` lists the runs, the mutants, the hazards, the theorems, and for
  every definition the lines of the source it models.

## The system

`@inject` turns a function into one whose parameters are filled with the values of
the dependencies they declare with `Depends(...)`. Dependencies have dependencies of
their own, may be generators (`yield`), sync or async, and may be replaced through a
registry, the `Provider`. Arguments and results are cast and validated by a
serializer (pydantic or msgspec) when there is one.

### Components

**Provider registry** (`dependencies/provider.py`). State: two dictionaries,
`dependencies` (a model for every declared callable) and `overrides` (a model for
every overridden one); one object, shared by default by every injected function of a
process. Operations: `add_dependant`, `get_dependant` (override first), `override`
and `provider[key] = value`, `scope` (override for a with-block), `merge` (a new
provider), `clear` (overrides only). Correct when whatever is found in it can itself
be solved, an override serves what it overrides for as long as it is set, and nothing
a decorated function declared is lost.

**Model builder** (`core/builder.py`). No state: `build_call_model()` recurses over
the declarations of a callable and registers a model for each dependency it meets
(bottom-up), calls `Provider.override()` again for an override built for another
serializer, and asserts that a sync function has no async dependency; `override()`
calls it in turn. Correct when the registry is sound after each of its writes,
whatever other threads build meanwhile and wherever an assertion stops it.

**Solving** (`core/model.py`). `CallModel.solve()` and `asolve()` compute the
arguments and call. State of one call: the exit stack, the cache of dependency
values (`cache_dependencies`), and one frame per `solve()` under way, with its keyword
arguments. Both follow one course (`_solve()` is a generator the two drive); `asolve()`
awaits, and a thread may be preempted, anywhere between its steps. Correct when a
dependency is called once per call, generators are closed in reverse order and only
after everything that uses them, and the registry changing under a call breaks none
of that.

**The wrappers** (`use.py`, `utils.py`). `injected_wrapper()` makes the stack and the
cache of a call; `solve_gen` and `solve_async_gen` are the iterators that calling an
injected generator returns, with a stack of their own; `utils.py` enters generators on
the stack and runs sync code in a thread pool. Correct when what was opened is closed,
exactly once, and the caller gets the value or the exception.

**Arguments** (`CallModel._solve()` and the lists `build_call_model()` makes for it). What
the caller passes is distributed among the parameters, completed with what is injected,
cast, and passed on. No state beyond the call. Correct when the callable gets what Python
would have given it, everything cast.

**Thread pool helpers** (`utils.py`). Sync dependencies of async calls run in anyio's
threads, sync generators as contexts entered there and left under a limiter of their
own. Correct when contexts are left in reverse, exceptions reach them, and no exit waits
for a thread that others hold.

**Custom fields** (`library/model.py`). Stateless objects; in a call their `use()`
changes the keyword arguments, in `asolve()` concurrently, in a task group.

**Serializers** (`pydantic/serializer.py`, `msgspec/serializer.py`, `library/serializer.py`,
`exceptions.py`). Cast and validate: wrappers of external libraries, which turn their errors
into a `ValidationError` that names the options at fault. Correct when casts land in the
right parameters and the errors name who is at fault.

**Schema** (`pydantic/schema.py`, `CallModel.flat_params`). The parameters of a model and of
all it depends on, as a JSON schema with its references resolved. Correct when the
parameters are those solving looks for, and no reference is left without a definition.

**Annotation resolution** (`utils.py`, `_compat.py`). Finds, at injection, the type a string
in an annotation names. Correct when that is what it means where the function is written.

### How they interact

    inject(f) ──▶ build_call_model ──registers──▶ Provider ◀── override, scope, clear
                        ▲   │                       │  ▲
                        └───┴── override ◀──rebuild─┘  │ get_dependant, at each dependency
    f(...) ──▶ injected_wrapper ──▶ solve/asolve ──────┘
                   │ ExitStack, cache   └──▶ callables, generators, serializer
                   └──▶ solve_gen / solve_async_gen (generators)

Everything meets in the Provider. It is read at each dependency of each frame of each
call, without a lock, and written by whoever decorates, overrides or clears.

### What is hard about it

Threads and tasks overlap: a call sees the registry change between two of its lookups;
builds register bottom-up into dictionaries others read; blocks of `scope()` nest and
overlap. Exceptions arrive anywhere: in a dependency, in the function, in a teardown, in
the middle of a build. Teardown order, suppressed exceptions, and iterators whose
`iter()` and `next()` are called in an unexpected order are contracts with Python's own
protocols. `PROJECT.json` lists these hazards one by one, at their lines, with the
properties that catch each going wrong and a note where none does yet. There is no
persistence, no network and no clock, hence no crash recovery, lost message or timer;
cancellation is the one timeout-like event: `Fields` has the one a failing sibling
causes, `ThreadPool` the one from outside. Then there is what is computed alone, and
hard to test because of its cases: how five kinds of parameters from three sources meet
positional and keyword arguments, aliases, and a serializer or none.

## Modules

| Module | Models | Extends / uses |
|---|---|---|
| `Declarations` | what a program declares: signatures, `Depends()`, extras, wrappers, who may override whom; the assumption that there is no cycle | |
| `Provider` | the registry, one action per dictionary write | `Declarations` |
| `Solve` | overlapping calls: frames, cache, exit stack, failures, teardown, while `Provider`'s actions run in between | `Provider` |
| `CallScope` | abstract: what a call promises about the resources it opens | |
| `Builder` | threads in `inject()`, `override()`, `clear()`: stacks of builds and overrides | `Provider` |
| `Scopes` | actors in blocks of `scope()` | `Provider` |
| `SolveGen` | one injected generator and its caller | |
| `Fields` | the custom fields of one call: one by one, or in a task group | |
| `Serializers` | the casts, aliases and errors of the two serializers | |
| `Arguments` | one call of one callable, from the caller's arguments to the callable's | `Serializers` |
| `Flatten` | `flat_params`, and what solving looks up | |
| `Schema` | `get_schema()` and the rewriting of references | |
| `Annotations` | the stack of frames and the resolution of one name | |
| `ThreadPool` | tasks whose sync dependencies run in threads | |
| `System` | threads that build, override and clear step by step, while what `inject()` returned is called | `Solve`, `Builder` |
| `SolveInv` | the inductive invariant of `Solve` | `Solve` |
| `ProviderProof` | theorems about the registry, its lemmas used by the next four | `Provider` |
| `SolveProof` | theorems about calls | `Solve` |
| `BuilderProof`, `ScopesProof` | theorems about who writes the registry | `Builder`, `Scopes` |
| `SystemProof` | theorems about calls beside builds | `System`, `SolveProof`, `BuilderProof` |
| `GeneratorProof` | theorems about injected generators | `SolveGen` |
| `AsyncProof` | theorems about custom fields, the thread pool, and `MCAsync` itself | `MCAsync` |
| `FunctionsProof` | theorems about arguments, `flat_params`, schemas and annotations | `Arguments`, `Flatten`, `Schema`, `Annotations` |
| `MCAsync` | `Fields` and `ThreadPool`, one at a time | both |
| `MCContexts` | `Scopes` and `SolveGen`, one at a time | both |
| `MCFunctions` | `Arguments`, `Flatten`, `Schema` and `Annotations`, one at a time | all four |
| other `MC*` | instances for TLC | |

`MCAsync`, `MCContexts` and `MCFunctions` are sums of systems that share no variable: while one moves the
others are in their initial state, so each is checked alone, in one run.

Three refinements hold the modules together, all proved, and checked by TLC but for that of
`Scopes`. `Builder` and `Scopes` implement `ProviderSpec`: each of their dictionary writes is
one `Provider` allows. `System` implements `Solve`: a call that overlaps builds step by step, and
that begins because `inject()` returned and for no other reason, is a call of `Solve`, which
has `Provider`'s coarse actions for "someone builds or overrides" and asks for what the
function declares. `Solve` implements `CallScope`: seen from outside a call acquires, runs,
and releases in reverse. So what is proved of `CallScope`'s promise, of lookups and of the cache
holds of threads that decorate and call at once.

### From the code to the models

*Provider.* `dependencies` and `overrides` are functions from callables to models,
`NoModel` where the dictionary has no key. A model is its `call`, `use_cache`,
`serializer_cls` and `dependency_provider`; its lists of dependencies are those
declared for its call. A key is "the callable as given", `Unwrap` what
`_fastdepends_call_` leads to. Dictionary reads and writes are atomic in CPython, and
each is one action or part of one; `merge()` and the test-then-write of `override()`
are two dictionary operations that other threads may separate: `Builder` separates
the latter, `Solve` takes the two of the former as one.
`Built` is the guard `Builder` justifies: models are stored bottom-up.

*Solve.* `frames[c]` is the call stack of `solve()`; a frame has the model, the index
of the next dependency, and the keyword arguments, which are passed down whole
(`Enter`), as the code does. `Skip`, `Hit`, `Enter` are the cases of the loop at
`model.py:223-247`: the parameter is already given, the cache has the value, or the
dependency is solved. `DependencyReturns`, `MainReturns`, `Fails` and `ArgumentsRefused`
are the end of a `_solve()`: the callable is called, counted (`runs`), cached, and
its context pushed if it is a generator. `Close...` and `Finish` are `ExitStack.__exit__`
and what `injected_wrapper()` does after it; the exit stack is Python's own and
modelled from how it is used (external in the map), a generator being free to end,
to raise or to swallow. A value is abstracted to who made it and which open generators
it was made from: enough to say that nothing is used after its teardown.
`solve()` and `asolve()` differ in where they can be interrupted; the model allows an
interruption between any two steps, which covers both, and threads.

*Builder.* `work[t]` is a stack of `build_call_model()` and `override()` activations.
A build goes for each declaration through: build the dependency's model (`BuildDependency`,
refused by the assertion on its own call), `Register`, `Rebuild`
(`_rebuild_override_model`), `Check` (the assertion on what serves the dependency).

*System.* The variables of both, over one registry; nothing is added. `CallInjected` is
`injected_wrapper()` for a model in `injected`, which `inject()` returned; it has no other guard
than that the call is not under way. `Building` is any step of `Builder`.

*Scopes.* `blocks[t]` is the nesting of t's with-blocks; leaving one at its end pops,
leaving one by an exception does not reach the pop.

*SolveGen.* `open` is what `self.stack` holds, `iter` is `self._iter`: absent, live, or over.
`self.stack` is the only reference to its exit stack, so that one that is replaced (`NewStack`, in
`__iter__()` and the first `__next__()`) is deallocated, and CPython closes the generators of its
contexts where they yield: they are `dropped`, and `Collect` tears them down one by one, in whatever order
(in sync code at once and from the oldest, after a failure when the traceback goes, in async code when the
event loop gets to it). `exited` has all that was torn down, by a stack or by CPython.

*Fields.* `task[p]` is the custom of parameter p: in `asolve()` a task of the group, a
coroutine or a function in the thread pool, then `use()` one by one; in `solve()` all one
by one. A failure cancels what can be cancelled: a coroutine where it awaits, never a
function in a thread. It is the phase that `Solve` takes as part of the callable.

*Arguments.* `phase` goes once through the course of `_solve()`: `Call` distributes
(`Distribute`: the lists, *args and **kwargs as options of the serializer or not, and what
is left over), `SolveInjected` is what `solve()` does between the yields, `CastArguments` or
`RefuseArguments` the serializer, `Pass` the split into positional and keyword arguments,
with its `KeyError`, `Invoke` Python's binding. `PyBind` is that binding, taken twice: for
the call FastDepends makes, and, with the signature the user sees (`Visible`), for the call
it is meant to stand for. A value is who it comes from and what it was cast as; `wrong`
says which arguments do not fit. The name of the parameter `*args` is "args", of `**kwargs`
"kwargs".

*Serializers.* One operator per method that differs between the two libraries; the classes
with and without response, wrapped or not, are two flags. pydantic reports all errors, by
paths (`PydanticLocations`); msgspec one, of which the code finds the option if its
name has one character (`MsgSpecLocations`).

*Flatten.* A model is the names of its parameters, its dependencies (argument and key) and its
extras. `FlatParams[m]` is the property `flat_params` of model `m`; `Lacks[m][kw]` follows
`solve()`, given the keyword arguments `kw`, and collects the names none of them answers.

*Schema.* `Move` is `_move_pydantic_refs()` with its effects: the value it returns and the
lists it changed, which copies of a definition share. A value is the definitions that are copied
one in the dictionary of the other, and what the innermost refers to (`Items`); its lists are
those of the definitions. `MaxDepth` stands for the recursion limit of the interpreter.

*Annotations.* `frames` is the Python stack, reduced to the locals of one name; `origin` is what
an `Annotated` shared by several functions was changed into.

*ThreadPool.* `pc[t]` follows one call through its dependencies: queued for a thread of the
default limiter, in it, in the function, leaving contexts in threads of `exit_limiter`s.
`open[t]` is the `AsyncExitStack`. `holders` are the contexts that hold one of the user's
connections, for which a thread may have to wait. `Cancel` comes where a task awaits, except in a
thread that has begun, which anyio does not abandon. Exceptions have an identity, who raised them and
where: `raising[t]` is the one on its way, `received[t]` the one the with-block ended with.

Auxiliary history variables (`overridden`, `runs` in part, `filled`, `escaped`, `alone`, `late`,
`failed`, `opened`, `resumed`, and `given` of `SolveGen`) record what the properties speak of and guard
nothing.

## Runs

Passing runs:

| Run | Instance | Shows |
|---|---|---|
| `solve` | an endpoint with shared, nested, generator and extra dependencies, a generator override, a second provider; calls one after another | the inductive invariant, with the types, `HeldOpen` and `RunsOnce` in it; overrides, isolation, the cache; refinement of `CallScope`, termination |
| `solve_uncached` | `use_cache=False`, a serializer that refuses arguments, parameters that share a name | teardown order and termination in those cases |
| `solve_two` | two overlapping calls, one generator, one override of it | that the calls and the writer of the registry do not disturb each other: each implements `CallScope` |
| `build` | one thread, three decorated functions (two sync, a coroutine), an async generator, a wrapper, two overrides, two serializers | every write is one `Provider` allows, so that what is registered can be solved (`Closed`) and stays (`NothingForgotten`); `SyncAllTheWay`; what the parameters of an injected function lead to is served for its serializer (`ServedFor`); builds end |
| `system` | two threads that decorate two sync functions and a coroutine, override with a coroutine, and clear, while one call at a time goes on; shared and extra dependencies, an async generator two levels down | refinement of `Solve` (`CallsSpec`), so of `ProviderSpec` under interleaving; nothing async gets into sync calls by what is declared (`SyncRunsSync`) |
| `contexts` | two actors, blocks two deep, two overridable callables, exceptions, `clear()`; an injected generator with three contexts, over any number of attempts to solve and of exit stacks, items that may be refused | `NothingLeft`, `BlockServed`; no context is torn down under a live generator, none twice, in which order, and none is left when the items are exhausted; exhausted for ever |
| `asynchronous` | five customs: three in a task group, two coroutines and one in a thread, and two asked with a copy, one declared first; `solve()` and `asolve()`. Three calls, one thread, one connection, contexts around functions and connections, failures anywhere, one call that may be cancelled | no field's value is lost, nobody is left at work, the exception is one that was raised; contexts are resumed in reverse, each with the exception that is due to it (`ErrorsArrive`), no connection is kept, every call comes to an end |
| `functions` | 1268 signatures: all of up to two parameters, of every kind and source, and some of three, with and without `*args` and `**kwargs`, four serializers, up to three positional arguments and any set of keywords; 648 programs of four models with overrides, among them a nested dependency under the name of an outer one's argument; three definitions; three frames in three modules | arguments arrive as Python would have them (`Accepted`, `SameArguments`), cast (`CastBeforeCall`), never in a dependency's place; errors name the culprit; `flat_params` is enough and no more than needed; no dangling reference; names mean what they do where they are written |

Runs that end in a violation, each a disagreement of the code with what its
documentation, a test or an assertion of its own says (`findings` quotes the lines):

| Run | Says | Does |
|---|---|---|
| `solve_unreachable` | the statement after the with-block is unreachable | it is reached when a generator swallows the exception of the call |
| `fields_sync` | no async custom field at sync | a custom whose `use_field()` is a coroutine passes, and is not asked |
| `scopes_raising` | after the block it is not | a block left by an exception leaves it |
| `functions_docs` | `func(1)` for `func(user: CurrentUser, user_id: int \| None = None)` gives `user=1` and raises | it gives `user_id=1`, injects `user` and runs |

Behaviours the models have that a reader may not expect, and that no document
contradicts clearly enough to make a run of them: a nested dependency's parameter that
shares its name with one an outer dependency filled takes the outer value (`Enter` passes
the keyword arguments down, `Skip` keeps them); the registry has one model per callable, so the last
`Depends()` built decides `use_cache` for all; an async generator set as an override
passes the check for async dependencies, which tests for coroutine functions only, and an
override set after a sync function was injected is not checked at all; an override of the wrapper `inject()` returned
is stored under a key no `Depends()` looks up; a block of `scope()` nested in one of the
same key ends both (hence `alone` in `BlockServed`); an injected generator is not passed the
`call_extra` arguments a function is (`use.py:160-163`, `181-184`); an exception of an injected
generator, or of its dependencies, leaves no exit stack (hence `failed`, and `told = "stop"` in
`ClosedWhenExhausted`); `iter()` after the first `next()` of an injected generator replaces its stack,
whose contexts CPython then tears down, under the generator and from the oldest (hence `late` in
`OpenWhileLive` and `ReverseOrder`); a caller that stops iterating leaves all of them to CPython in the
same way.

The reference definitions of `functions` hold except in cases that the modules name, each
an operator with its lines:

- `Swallowed`: with a serializer and `**kwargs`, keywords of positional parameters, and aliases,
  go to `**kwargs`; the parameter is missing, or stays uncast (`model.py:136`).
- `Shifted`: with `*args`, an injected positional parameter before another one is skipped, and
  Python puts the next argument there: "multiple values" (`model.py:171-174`).
- `Misplaced`: with `*args` and no serializer, what is left over fills a parameter after
  `*args`; and a positional parameter left to its default is a `KeyError` (`model.py:153-172`).
- `PositionalOnly`: without `*args` everything is passed by keyword (`model.py:175-178`), and what
  is injected always is, so that an injected positional-only parameter is a `TypeError` with `*args` too;
  with `**kwargs` its value ends up there, and Python puts what comes next by position in its place, which
  `DependsNotPositional` excepts. A keyword named like a positional-only parameter is taken for it.
- `AliasByPosition`: an option with an alias is missing when passed by position.
- Calls Python would refuse for too many arguments or unknown keywords are accepted and
  these dropped: `Accepted` and `SameArguments` speak of calls Python accepts, of a function whose
  injected parameters are passed by keyword only (`Visible`). That is what the code does, and
  `DependsNotPositional` states; the tutorial says otherwise, which is run `functions_docs`.
- `ErrorNamesCulprit`: a step inside a value that is named like another option blames that one too
  (`pydantic/serializer.py:203`), an option with an alias may be missed, and msgspec's
  message is understood for names of one character (`msgspec/serializer.py:192`).
- `ListedAreNeeded`: a name that is a parameter here and injected there is listed, though it may
  be captured on the way; so is what a nested dependency looks for though it does not run, because the
  outer one has an argument of the same name (`ArgumentsDiffer`, `model.py:232-240`).
- `NoDanglingRefs`: models nested three deep leave a reference to the definitions that were
  dropped, one that leads to itself through a list ends in `RecursionError`, and `embed` without
  `resolve_refs` drops the definitions but no reference.
- `ResolvedIsLexical`: a local of any frame on the stack hides a global of that name; frames of files
  with "fast_depends" in their path are skipped, the user's included; an `Annotated` that is shared,
  which `typing` does to equal ones, keeps the first resolution.
- `ResumedInReverse`: `CancelledError` is no `Exception`, so a cancelled call resumes none of
  the sync generators it opened (`utils.py:173`).

### Bounds

- *Callables and parameters.* The programs of the instances have dependencies shared by
  two parameters, nested ones, extras, generators using generators, a wrapper, and an
  override of each sort the actions distinguish. Two levels of nesting exercise each
  pair of an outer and an inner frame; the theorems lift this bound.
- *Overlap.* Two calls or two threads: calls share the registry only, which other
  actions of the model change arbitrarily anyway, and no property relates more than two.
  The calls in `solve_two` are interchangeable, hence the symmetry, with no liveness
  checked under it. In `system` there is one call, beside two threads: `solve_two` has the
  overlap of calls, and `SystemProof` has any number of both.
- *`MaxDepth` = 2* (Scopes): the finding and the guarantees concern a block and one inside
  it or beside it; two actors two deep give four blocks at once over two keys.
- *`MaxContexts` = 3* (SolveGen): order needs two contexts, on one stack or two, beside one of an
  attempt that failed. How many exit stacks there are is not bounded.
- *`Ordinals`, of length 3* (Arguments): as many arguments by position, one more than most
  signatures take, so that something is left over; callers also use one keyword that names nothing.
  That there are at most three parameters besides `*args` and `**kwargs` is what the theorems lift.
- *`MaxDepth` = 8, three definitions* (Schema): all shapes of three definitions
  without a cycle are there, which nest three deep, and some with one; those without never reach
  the limit, as `NoDanglingRefs` says.
- *`MaxFrames` = 3* (Annotations): the function's frame, one around it, one inside it.
- *`Limit` = 1, `Connections` = 1* (ThreadPool): the tightest there is; two calls compete
  for both, and the third can only wait or be cancelled. The limiter counts threads alike.
- Counters are not otherwise bounded: `runs` and the ids of exits are finite because a
  call is, and they restart with the next one.

Deadlock is checked except for `asynchronous`, where calls end and are not repeated; one that hung
would violate `CustomsEnd` or `CallsReturn`.

### Fairness

`FairSpec` (Solve) is weak fairness of `Proceed(c)`, the steps of a call already begun;
`BuilderSpec` of `Continue(t)`, the steps of a thread inside `inject()` or `override()`;
`Fields` of the steps of each custom and
of the model that asks them; `PoolFairness` of the steps of each call in `ThreadPool`, failures and
cancellation apart, which nothing obliges. It says two things: the user's
callables end, and the interpreter or event loop eventually runs a thread or task that is
ready, as it does since the code holds no lock and waits for nobody. Weak fairness is
enough because no step of another actor disables these for good: threads are given in the
order of the queue, and a freed connection is waited for by one thread. Nobody is obliged to begin a
call, to build, to override, or to ask for another item. That a call ends needs one
more fact, that declarations have no cycle, overriding ones included
(`RankAssumption`); with a cycle the code recurses until the interpreter stops it.
`CallsReturn` needs `PoolAssumption`: a dependency that blocks its thread is the last of its
call. The exit limiters keep exits out of the queue, nothing does so for a further
dependency of a call that holds a connection.

## Theorems

All for every value of the constants that satisfies the assumptions named below: any
program, any number of overlapping calls or threads, any sequence of declarations and
overrides in between.

| Theorem | Statement |
|---|---|
| `ProviderProof!ProviderTypeCorrect`, `RegistryClosed`, `KeysStay` | `ProviderTypeOK`, `Closed`, `NothingForgotten` of `ProviderSpec` |
| `SolveProof!TypeCorrect` | `Spec => []TypeOK` |
| `SolveProof!LookupsCorrect` | `Spec => []Lookups`: every lookup of every frame finds a solvable model |
| `SolveProof!HeldCorrect` | `Spec => []HeldOpen`: nothing is used after its teardown |
| `SolveProof!RunsOnceCorrect`, `CacheCorrect` | `RunsOnce`: a cached dependency is called once; `CacheStable` |
| `SolveProof!InductiveInvariant` | `Spec => []IInv` |
| `SolveProof!OverriddenCorrect` | `Spec => []OverriddenNeverRuns`: what is overridden throughout a call does not run in it |
| `SolveProof!LocalCorrect` | `Spec => []LocalStaysLocal`: what only other providers name does not run |
| `SolveProof!ScopeCorrect` | `Spec => ScopeSpec`: `Solve` implements `CallScope` |
| `BuilderProof!BuilderInvariant` | `BuilderSpec => []BuildInv` |
| `BuilderProof!BuilderImplementsProvider` | `BuilderSpec => ProviderSpec`, with `BuilderClosed` and `BuilderForgetsNothing` as corollaries |
| `BuilderProof!SyncCorrect` | `BuilderSpec => []SyncAllTheWay` |
| `BuilderProof!ServedForCorrect` | `OneThread /\ BuilderSpec => ServedFor` |
| `ScopesProof!ScopesImplementProvider` | `ScopesSpec => ProviderSpec` |
| `ScopesProof!NothingLeftCorrect`, `BlockServedCorrect` | `NothingLeft`, `BlockServed` |
| `GeneratorProof!OpenWhileLiveCorrect`, `ReverseOrderCorrect`, `ClosedCorrect`, `StopCorrect` | `OpenWhileLive`, `ReverseOrder`, `ClosedWhenExhausted`, `StopIsForever` of `SolveGen` |
| `AsyncProof!NothingLostCorrect`, `NobodyLeftCorrect`, `ErrorIsRealCorrect` | `NothingLost`, `NobodyLeft`, `ErrorIsReal` of `Fields` |
| `AsyncProof!ResumedInReverseCorrect`, `ErrorsArriveCorrect` | `ResumedInReverse`, `ErrorsArrive` of `ThreadPool` |
| `SystemProof!SystemInvariant` | `SystemSpec => []SystemInv` |
| `SystemProof!SystemImplementsSolve` | `SystemSpec => CallsSpec`: calls beside threads that build are calls of `Solve`, so all of `SolveProof` holds of them |
| `SystemProof!SyncRunsCorrect` | `SystemSpec => []SyncRunsSync` |
| `FunctionsProof!AcceptedCorrect`, `ArgumentsCorrect`, `DependsCorrect`, `CastCorrect`, `CulpritCorrect` | `Accepted`, `SameArguments`, `DependsNotPositional`, `CastBeforeCall`, `ErrorNamesCulprit` of `Arguments` |
| `FunctionsProof!FlatParamsCorrect` | `FlattenSpec => []ListedAreNeeded` |
| `FunctionsProof!SchemaCorrect` | `SchemaSpec => []NoDanglingRefs` |
| `FunctionsProof!LexicalCorrect` | `TypingSpec => []ResolvedIsLexical` |
| `AsyncProof!AsyncTypeCorrect` | `AsyncSpec => []AsyncTypeOK`, since `AsyncSpec` implements both |

The assumptions: `DeclAssumption` (types of the declarations), `RankDecreases` (no cycle) and
`NoModelAssumption` for whatever has a registry; `CallsAssumption` for `Solve` (providers
given to a call are themselves built bottom-up); `AsyncAssumption` for `Builder` (what kinds of
callables there are); `DepthAssumption` and `BoundsAssumption`, which give the bounds of `Scopes`
and `SolveGen` their types; `OrderAssumption` for `Fields` (the parameters with a custom, in
order, without repetition); of `PoolAssumption` the types only, the rest of it is for liveness;
`SystemAssumption` for `System` (what is decorated is what may be called, generators aside, which
`SolveGen` has); `ArgumentsAssumption` for `Arguments`: parameters have names of their own, an alias
is not that of another parameter nor its name, only what the caller gives has one, `*args` and `**kwargs`
come from the caller, who uses neither their names nor those of parameters for what is `Unknown`;
`FlattenAssumption` for `Flatten` (types, no parameter listed twice by one model, and
no model that leads to itself, through overrides included: the property would recurse for
ever); `SchemaAssumption` for `Schema` (types, and that there are fewer definitions than the interpreter
recurses, about a thousand levels: a chain as long as that is out of scope). `Annotations` has none.
`ServedForCorrect` alone has a hypothesis of its own, that there is one thread: with two the
code does not do it, as its comment says. TLC evaluates the assumptions in the runs.

### Calls

`HeldOpen` and `RunsOnce` are not inductive alone; `IInv` (module `SolveInv`, checked by TLC in
run `solve` first) adds what they lean on:

1. `Lookups`: types; `RegistriesSound` (in the live dictionaries and in every merged
   view, what is found under a key calls one of its `Servers` and has its own
   dependencies registered where they will be looked up); `StackShape`;
   `FramesSolvable`. The registry only grows (`KeysStay`), so a frame that could look
   up all it needs still can, whatever others write.
2. `FramesDescend`: inner frames have lower rank, hence no callable is on the stack
   twice, and a cacheable callable on the stack is not in the cache yet.
3. `RunsCached`: a cacheable callable that ran is in the cache. With 2, a callable
   about to be counted has not been: `RunsOnce`, and what is stored was absent:
   `CacheStable`.
4. `ExitsNumbered` and `HeldOpen`: ids are positions, a new exit gets the next one, its
   generator was called with values that hold only open ones, and `PopExit` takes
   the last. When frames and cache are dropped at the start of the teardown nothing
   holds a value any more, and `uses` of what is left points below it.

The refinement follows: with `HeldOpen`, what an acquired context uses is held; with
`RunsCached` and `FramesDescend`, calling a dependency is never the run of the injected
function, so each action is one of `CallScope`'s or a stutter (`ScopeStep`).

`OverriddenNeverRuns` and `LocalStaysLocal` are about what is looked up where, and need an
invariant of their own over `Lookups`, `Avoiding`. A live model has the live provider
(`OwnModels`). What was overridden since a call began is overridden now, and a merged view is
a `Snapshot` of a moment when it was, so a lookup of it, in either, gives the override. Hence every
frame has an `Admitted` model: one that is none of the callables to avoid. To run, a callable
has to have had a frame.

Each module proves its part per action (`...Enter`, `...Return`, `...Step`), with a lemma
that calls the step does not touch keep their part.

### Builds

`BuildInv` says of each stack of activations what Python's stack knows: a build has registered
the dependencies it has gone through (`Behind`), an override that is about to write has its
original registered, and each activation is what the one below it called (`Called`). So when a build
returns to one that will register its model, or to `override()`, all that its model depends on is in
the dictionary, whoever else wrote there meanwhile: the guard `Built` of `Provider`'s
actions, and with it the refinement. The same induction carries `is_sync` down: a synchronous build
has gone through keys that are in `SyncOnly`, the largest set of synchronous callables that contains
what its members declare. When `inject()` returns, all that the function declares is in it,
and `Needed`, the smallest closed set, is within the largest: `SyncAllTheWay`. `ServedFor` needs
two invariants more. `SerializerInv`: all activations of a stack build for one serializer, rebuilds
included; the dependency a build has just registered is registered for it, and when it comes to
be checked any override of it was rebuilt for it too. Only another thread could write in between.
`ThroughInv` carries that to every depth: `AllServed` is the largest set of callables, closed under what
their parameters declare, whose members are served for one serializer. A dependency that a build has
registered declares members of it, since the build of its own model has gone through them; once checked it is
itself a member, unless it is an extra. Whatever is written for the serializer meanwhile makes the set no
smaller (`ThroughStays`). When `inject()` returns, `ParametersBelow`, the smallest closed set, is
within it.

### Calls beside builds

`SystemInv` is `BuildInv` with two parts. `Offers`: of every model in `injected`, all that its function
declares, extras included, is registered, and is in `SyncOnly` if the function is synchronous
(`Offered`); a build that is about to return its model has gone through all of it, which is what
`BuildInv` says of it, and the registry forgets nothing. `Standing`: what is recorded as overridden is. With
it `Call` of `Solve` may begin whenever `CallInjected` does: the guard `Solve` has instead of a
builder is justified, and no call of what `inject()` returned meets a `KeyError`. A build's step is
`Provider`'s, hence `Reconfigure`, or changes nothing calls see.

`SyncRunsSync` is about what a call looks up, long after the assertions of the build that let it.
`Tame` callables are those in `SyncOnly` and those some override names or leads to. Tame ones
declare tame ones (`TameDeclares`); the model found under a tame key calls the key's callable or one
that overrides it (`TameServed`, `FoundTame`), tame again. So all frames above the bottom one have
tame models (`SyncIn`), and what ran is the function itself or tame. That a sync function may come
to run coroutines at all is due to overrides set after it was injected, or under what it declares,
which no assertion looks at.

### Blocks

`ScopesInv` is inductive with the two properties in it. A step writes one key, or clears all;
blocks of other actors with that key stop being `alone`, those with others keep their override;
what a block pops it had set.

### Generators and what asolve() waits for

`GenInv`: where `__next__()` is, given what became of the iterator (`Position`); every context is in
exactly one place, on the exit stack, dropped with one, or torn down (`Places`); what the generator was
called with is on the exit stack while it is live, unless `iter()` came late (`Live`); as long as neither
`late` nor `failed`, nothing is dropped, and what was torn down was opened after what is open, the last
one first (`Usual`).

`FieldsInv`: outside the group at most the custom that is asked is at work, and on what there is
(`Busy`); a group with a failed custom knows it, and nothing goes on after one (`Failures`); what
was found is filled in, at every moment (`Kept`).

`PoolInv`: each task waits in the queue once, and only those that are queued (`Waiting`); what is
open of a call is a prefix of what it opened, and what was resumed the rest, backwards, unless it
was cancelled (`StackOK`); nothing is resumed before the exits begin (`PlaceOK`); each context was given
what reaches it, and the exception on its way is what reaches those not resumed yet (`GivenOK`).
`Reaches` speaks of the with-block's exception and of what each generator did, not of how
`contextmanager_in_threadpool()` passes it on, so that a step, one more generator resumed, has to be
shown to keep it (`OneMore`).

### Arguments, parameters, schemas and annotations

`CallInv` says what `kw`, `left`, `dict`, `args_` and `kwargs_` are at each phase, as functions of the
signature, the serializer, what was given and what was found: a call is one computation, and the
properties are facts about its intermediate values. Those come from folds over lists (`Picked`,
`Take`, `Update`). A fold is recursive over the length; the library's theorems do not reach it
here (they take an operator as a parameter), so `Induction` states induction as a fact about sets, from
the theorem on the least element of a set of numbers, and `FoldExists`, `FoldSteps` give, for any fold,
the sequence of its stages. All else goes by stages: `PickedElements` and `PickedPrefix` (a
picked list has the elements, in the order of the signature), `TakeSteps`, `TakeKeeps` (nothing is
overwritten or invented), `TakeStraight` (with enough arguments, the nth of the list gets the nth).

`BindMeans` turns Python's binding into statements on each parameter; `InOneList`, `KeywordsMean` and
`ArgsMean` say the same of what `Pass` hands over, `InPlace` that parameters before a position passed
have their own argument, and `BoundIs` joins them: outside the named cases, each parameter is bound to
what `_solve()` had for it. `VisiblePositions` and `ExpectedMeans` do that for the signature the
caller sees, `CallerGets`, `SameRest` and `SameExtra` compare the two. `CulpritCorrect` needs only `CallInv` and
what `AtFault` says of the two libraries' locations.

`FlatParams` and `Lacks` call themselves on the dependencies of a model, and `Move` on what is inside a
value. They are recursive functions, and that these have the values they are written to have is
itself a lemma: `RankedExists`, for any definition that looks at what has a lower rank only (a model
below, by `FlattenAssumption`; one level less of depth), proved with `ByRank`, induction over
ranks. `FlatParamsMean` and `LacksMeans`, `MoveMeans` are its instances. Then
`AppendNewMeans` and `FlatWithMeans` say what the fold of `flat_params` gathers; `ListedSuffice`,
that who is given it lacks nothing, holds of every model by induction over ranks, for
more keyword arguments than those listed too, since a dependency is handed down what its caller
got and what was injected so far. `ListedAreLacked` is the converse, for names that are nobody's
argument and where no argument answers for another (`Clear`).

A value of the rewriting *stands for* the definition it is a copy of (`StandsFor`), however much of
it has been replaced (`Stand`). What stands for a definition is no deeper than the definition's
rank, so `MoveEnds`: `Move` ends within that many levels and its result stands for the
same, and `PassEnds`: so do both passes. `FirstMove` is where `Shallow` is used: one pass replaces the
reference in each dictionary. `MoveCleans`: where the definitions have none left, no value keeps one, and
each list that is come across loses its own; the second pass comes across all (`PassCleansLists`).
What `ResolveMeans` says of the two is the property, whichever parts the answer has.

`UpdateFinds` is the fact under `LexicalCorrect`: the fold over the frames gives the local of
the innermost frame that has the name and counts, or none.

### What the proofs changed

Six places where a proof could not be found because the model, or the property, was not right:

- `Provider!RegisterOriginal` was guarded by the test `override()` makes. The write comes after a
  build, and another thread may have registered the callable meanwhile: then `Builder` writes
  what `Provider` did not allow, and `Solve` did not have a registry that changes that way.
  The guard is gone, and `Solve`'s theorems are proved with the weaker `Provider`.
- `OverriddenNeverRuns` is false of a callable that overrides itself: `override(k, k)` is legal,
  and `k` runs. `Original` excludes it.
- `Fields!todo` was a sequence cut at its head, though the code goes through what is left of the
  dictionary; it is the set of those left, asked in the order of `Order`. `Needed` of `Builder`
  was recursive and is the smallest closed set.
- `PositionalOnly` named too few signatures: its proof stopped at injected parameters that are positional
  only, and TLC, given all signatures of two parameters, found them: a `TypeError` with `*args`, and
  with `**kwargs` a positional argument in the place of the dependency, against
  `DependsNotPositional`. Both properties now name the case, and the instance contains it.
- `Arguments` built what a caller passes out of numerals and strings, which no proof could tell from
  names; it is the constant `Ordinals`, and what makes a signature is `SignatureOK`, an assumption
  that is stated and evaluated.
- `ListedAreNeeded` was false outside the instance TLC had: where a nested dependency's argument
  has the name of an outer one's, the outer value is passed down in its place, it never runs, and what
  it alone would look for is listed in vain. `ArgumentsDiffer` names the case and the instance has it.
  `FlatFrom`, `LacksFrom` and `Move` were recursive operators over trees, beyond the prover; they are
  the functions `FlatParams`, `Lacks` and `Move`.

## What is only model-checked

- Liveness (`CallsEnd`, `BuildsEnd`, `CustomsEnd`, `CallsReturn`): fairness is out of
  the prover's reach.
- The four statements the code does not keep, each refuted by a run: they are no theorems.
- Nothing else: every invariant and action property of a passing run is stated by a theorem.

## What is not modelled

- The casts themselves: pydantic and msgspec are external libraries, of which the models have
  that a value fits or not, where, and which error is reported.
- Left over positional arguments that `solve()` hands on to dependencies (`model.py:224-240`):
  `Solve` passes keyword arguments only, `Arguments` has one model.
- Strings among the metadata of an `Annotated`, which are evaluated as forward references
  (`utils.py:153-156`): `Annotated[int, "the user id"]` is a `SyntaxError` of `inject()`.
- Cancellation of async generators, which contextlib alone handles, and of a call inside
  `Solve`: `ThreadPool` has calls with sync dependencies.
- A caller that drops the iterator of an injected generator before it is exhausted (`use.py:285`):
  its contexts and the generator are deallocated, in CPython's order.
- The instances of customs, copied from `Annotated` and not from defaults (`builder.py:201`).
- `encode()`, version switches, `wrap_model`, `exclude` of `get_schema()`, type parameters, protocol
  classes and the formatting of messages: no state, and nothing a property is about.

## Plan

Written in this order, the most shared first, the most used next:

1. `Declarations`, `Provider`, `Solve`, `CallScope`, with `SolveInv` and the proofs about
   them; `Builder`, `Scopes`, `Fields`, `SolveGen`. Done.
2. `Serializers` and `Arguments`, `ThreadPool`, `Flatten`, `Schema`, `Annotations`. Done.
3. The safety properties of every module with concurrency or callbacks, as theorems. Done.
4. That a stack, a binding and a declaration lead to what the reference definitions of
   `Arguments` and `Annotations` say, whatever the signature and the frames; the same of the
   parameters and the schema of a model (`Flatten`, `Schema`). Done.
5. `System`: `Builder` and `Solve` over one registry, so that a call overlaps a build step by
   step, with the theorem that it implements `Solve`. Done.
6. Open: positional arguments in `Solve`, which every dependency of a call gets; the instances of
   customs; async generators of a call under cancellation.
