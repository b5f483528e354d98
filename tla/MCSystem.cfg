SPECIFICATION SystemSpec
CONSTANTS
    endpoint = endpoint
    report = report
    worker = worker
    service = service
    fetch = fetch
    session = session
    fake = fake
    feed = feed
    token = token
    par = par
    t1 = t1
    t2 = t2
    c1 = c1
    NoParam = NoParam
    NoSerializer = NoSerializer
    NoModel = NoModel
    Shared = Shared
    NoProvider = NoProvider
    Caller = Caller
    Nobody = Nobody
    Callables = {endpoint, report, worker, service, fetch, session, fake, token, feed}
    Params = {par}
    Serializers = {NoSerializer}
    Generators = {feed}
    AsyncGenerators = {feed}
    Coroutines = {worker, fake, token}
    Decorated = {endpoint, report, worker}
    Injected = {endpoint, report, worker}
    Threads = {t1, t2}
    Calls = {c1}
    Providers = {Shared}
    Signature <- MCSignature
    Depends <- MCDepends
    Extras <- MCExtras
    Unwrap <- MCUnwrap
    Overriders <- MCOverriders
    LocalOverriders <- MCLocalOverriders
    Local <- MCLocal
    Rank <- MCRank
INVARIANTS SyncRunsSync
PROPERTIES CallsSpec
