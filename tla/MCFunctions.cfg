SPECIFICATION Spec
CONSTANTS
    Signatures <- MCSignatures
    Classes <- MCClasses
    Ordinals <- MCOrdinals
    Unknown = {"z"}
    Faults <- MCFaults
    main = main
    user = user
    token = token
    fake = fake
    Models <- MCModels
    Programs <- MCPrograms
    Main = main
    Overrides <- MCOverrides
    Definitions <- MCDefinitions
    Shapes <- MCShapes
    MaxDepth = 8
    Modules = {"app", "models", "fast_depends_app"}
    Globals <- MCGlobals
    Hidden = {"fast_depends_app"}
    Types = {"User", "Other"}
    MaxFrames = 3
INVARIANTS
    Accepted SameArguments DependsNotPositional CastBeforeCall ErrorNamesCulprit
    ListedAreNeeded NoDanglingRefs ResolvedIsLexical
