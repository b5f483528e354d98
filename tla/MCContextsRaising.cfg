SPECIFICATION ContextsSpec
CONSTANTS
    endpoint = endpoint
    service = service
    session = session
    fake = fake
    stub = stub
    par = par
    t1 = t1
    t2 = t2
    NoParam = NoParam
    NoSerializer = NoSerializer
    NoModel = NoModel
    Shared = Shared
    Callables = {endpoint, service, session, fake, stub}
    Params = {par}
    Serializers = {NoSerializer}
    Generators = {}
    Providers = {Shared}
    Actors = {t1}
    MaxDepth = 1
    MaxContexts = 1
    Casts = TRUE
    Signature <- MCSignature
    Depends <- MCDepends
    Extras <- MCExtras
    Unwrap <- MCUnwrap
    Overriders <- MCOverriders
    LocalOverriders <- MCLocalOverriders
    Rank <- MCRank
INVARIANTS BlockEnds
