CONSTANTS
    r1 = r1
    r2 = r2
    s1 = s1
    s2 = s2
    h1 = h1
    h2 = h2
    d1 = d1
    d2 = d2
    Repos = {r1}
    NoRepo = NoRepo
    MaxId = 1
    MaxRetries = 1
    Slots = {s1}
    NoSlot = NoSlot
    Remote = {}
    Deleters = {d1}
    IOFaults = FALSE
    VerifyDownloads = FALSE
    StallWatch = FALSE
    SlowStorage = FALSE
    MaxTasks = 1
    Handlers = {h1}
    Requests = {"add", "cancel"}
    MaxRestarts = 0

SPECIFICATION Spec
INVARIANTS NoDeleteUnderWriter
