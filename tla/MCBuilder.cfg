SPECIFICATION BuilderSpec
CONSTANTS
    endpoint = endpoint
    report = report
    worker = worker
    wrappedService = wrappedService
    service = service
    fetch = fetch
    session = session
    fake = fake
    coroSession = coroSession
    feed = feed
    par = par
    par2 = par2
    pydantic = pydantic
    t1 = t1
    t2 = t2
    NoParam = NoParam
    NoSerializer = NoSerializer
    NoModel = NoModel
    Shared = Shared
    Callables = {endpoint, report, worker, wrappedService, service, fetch, session, fake, coroSession, feed}
    Params = {par, par2}
    Serializers = {NoSerializer, pydantic}
    Generators = {feed}
    AsyncGenerators = {feed}
    Coroutines = {worker, coroSession}
    Decorated = {endpoint, report, worker}
    Threads = {t1}
    SessionOverriders = {coroSession}
    Providers = {Shared}
    Signature <- MCSignature
    Depends <- MCDepends
    Extras <- MCExtras
    Unwrap <- MCUnwrap
    Overriders <- MCOverriders
    LocalOverriders <- MCLocalOverriders
    Rank <- MCRank
INVARIANTS SyncAllTheWay Closed
PROPERTIES ProviderSpec NothingForgotten ServedFor BuildsEnd
