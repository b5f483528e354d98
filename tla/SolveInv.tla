--------------------------------- MODULE SolveInv ---------------------------------
(***************************************************************************)
(* The inductive invariant behind Solve's safety properties.               *)
(***************************************************************************)
EXTENDS Solve

\* The dictionary a model's own dependencies are looked up in; dict is Shared's.
OwnDictionary(dict, q) == IF q = Shared THEN dict ELSE Local[q].dependencies

\* A model that get_dependant() may answer key k with, and that can be solved.
Serves(dict, m, k) ==
    /\ m \in CallModel
    /\ m.call \in Servers(k)
    /\ Cached(m.call) => m.use_cache
    /\ Built(OwnDictionary(dict, m.provider), m)

\* Both dictionaries of r hold such models.
Sound(dict, r) ==
    /\ r \in Registry
    /\ \A k \in Callables :
          /\ r.dependencies[k] # NoModel => Serves(dict, r.dependencies[k], k)
          /\ r.overrides[k] # NoModel => Serves(dict, r.overrides[k], k)

RegistriesSound ==
    /\ Sound(dependencies, Live)
    /\ \A c \in Calls : view[c] # NoProvider => Sound(dependencies, view[c])

\* A call under way is a nonempty stack of frames, the injected function's first.
StackShape ==
    \A c \in Calls :
        stage[c] = "open" =>
            /\ frames[c] # <<>>
            /\ main[c] \in Callables
            /\ frames[c][1].model.call = main[c]
            /\ frames[c][1].model.use_cache
            /\ frames[c][1].model.provider = Shared

\* Each frame can look up all it needs, and all but the innermost wait for a value.
FramesSolvable ==
    \A c \in Calls : stage[c] = "open" =>
        \A n \in DOMAIN frames[c] :
            /\ \A i \in DOMAIN Todo(c, n) :
                  Dictionary(c, n).dependencies[Key(Todo(c, n)[i])] # NoModel
            /\ n < Len(frames[c]) => frames[c][n].next <= Len(Todo(c, n))

\* Inner frames have lower rank, and none of a cacheable model whose value is cached.
FramesDescend ==
    \A c \in Calls : stage[c] = "open" =>
        \A n \in DOMAIN frames[c] :
            LET m == frames[c][n].model
            IN  /\ \A j \in 1 .. n - 1 : Rank[m.call] < Rank[frames[c][j].model.call]
                /\ Cached(m.call) => m.use_cache
                /\ m.use_cache => cache[c][m.call] = Absent

\* What ran and may be cached is cached; the injected function runs last.
RunsCached ==
    \A c \in Calls :
        /\ stage[c] = "open" => runs[c][main[c]] = 0
        /\ \A f \in Callables : stage[c] = "open" /\ Cached(f) =>
              runs[c][f] <= IF cache[c][f] = Absent THEN 0 ELSE 1

\* The ids on an exit stack are its positions.
ExitsNumbered == \A c \in Calls : \A i \in DOMAIN exits[c] : exits[c][i].id = i

\* Types, and what makes every lookup of a call find a model.
Lookups == TypeOK /\ RegistriesSound /\ StackShape /\ FramesSolvable

IInv ==
    /\ Lookups
    /\ FramesDescend
    /\ RunsCached
    /\ RunsOnce
    /\ ExitsNumbered
    /\ HeldOpen
==============================================================================
