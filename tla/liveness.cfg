CONSTANTS
    r1 = r1
    r2 = r2
    s1 = s1
    s2 = s2
    h1 = h1
    h2 = h2
    d1 = d1
    d2 = d2
    Repos = {r1, r2}
    NoRepo = NoRepo
    MaxId = 2
    MaxRetries = 0
    Slots = {s1}
    NoSlot = NoSlot
    Remote = {}
    Deleters = {d1}
    IOFaults = FALSE
    VerifyDownloads = FALSE
    StallWatch = TRUE
    SlowStorage = FALSE
    MaxTasks = 2
    Handlers = {h1}
    Requests = {"add", "retry", "verify", "pauseAll", "resumeAll"}
    MaxRestarts = 0

SPECIFICATION FairSpec
INVARIANTS VerifyingIsWorkedOn
PROPERTIES QueuedIsStarted VerifyingIsNeverRequeued
