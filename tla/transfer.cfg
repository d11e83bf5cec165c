CONSTANTS
    f1 = f1
    f2 = f2
    Files = {f1, f2}
    Hashed = {f1, f2}
    Size = 2
    StallTimeout = 1

SPECIFICATION FairSpec
INVARIANTS TypeOK VerdictIsRight StallIsFair
PROPERTIES HungIsStopped
