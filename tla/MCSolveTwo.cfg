SPECIFICATION Spec
CONSTANTS
    endpoint = endpoint
    service = service
    repo = repo
    session = session
    fake = fake
    stub = stub
    svc = svc
    rep = rep
    ses = ses
    pydantic = pydantic
    c1 = c1
    c2 = c2
    NoParam = NoParam
    NoSerializer = NoSerializer
    NoModel = NoModel
    NoProvider = NoProvider
    Caller = Caller
    Nobody = Nobody
    Shared = Shared
    Other = Other
    Callables = {endpoint, service, session, fake}
    Params = {svc, rep, ses}
    RepoParam = ses
    Injected = {endpoint}
    Generators = {session, fake}
    Calls = {c1, c2}
    Uncacheable = {}
    Serializers = {NoSerializer}
    Providers = {Shared}
    Signature <- MCSignature
    Depends <- MCDepends
    Extras <- MCExtras
    Unwrap <- MCUnwrap
    Overriders <- MCOverriders
    LocalOverriders <- MCLocalOverriders
    Local <- MCLocal
    Rank <- MCRank
PROPERTIES ScopeSpec
SYMMETRY Symmetry
