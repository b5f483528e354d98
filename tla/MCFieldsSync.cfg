SPECIFICATION Spec
CONSTANTS
    header = header
    query = query
    token = token
    body = body
    Order <- SyncOrder
    InPlace = {header, query}
    AsyncUse = {}
    AsyncField = {header}
INVARIANTS EveryoneAsked
