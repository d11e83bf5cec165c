CONSTANTS
    r1 = r1
    r2 = r2
    s1 = s1
    s2 = s2
    h1 = h1
    h2 = h2
    d1 = d1
    d2 = d2
    Repos = {r1}
    NoRepo = NoRepo
    MaxId = 1
    MaxRetries = 1
    Slots = {s1}
    NoSlot = NoSlot
    Remote = {}
    Deleters = {d1}
    IOFaults = FALSE
    VerifyDownloads = TRUE
    StallWatch = FALSE
    SlowStorage = FALSE
    MaxTasks = 1
    Handlers = {h1, h2}
    Requests = {"add", "addAgain", "verify", "pauseAll", "resumeAll"}
    MaxRestarts = 0

SPECIFICATION Spec
INVARIANTS ValveStopsEveryDownload VerifiedIsGood
