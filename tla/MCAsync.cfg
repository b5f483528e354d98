SPECIFICATION AsyncSpec
CONSTANTS
    header = header
    path = path
    query = query
    token = token
    body = body
    Order <- MCOrder
    InPlace = {header, path, query}
    AsyncUse = {}
    AsyncField = {header, path}
    reader = reader
    writer = writer
    guest = guest
    Tasks = {reader, writer, guest}
    Steps <- MCSteps
    Limit = 1
    Connections = 1
    Cancellable = {guest}
INVARIANTS
    NothingLost NobodyLeft ErrorIsReal ResumedInReverse ErrorsArrive
PROPERTIES CustomsEnd CallsReturn
\* Calls end, and then there is nothing left to do; one that hangs violates CustomsEnd or
\* CallsReturn.
CHECK_DEADLOCK FALSE
