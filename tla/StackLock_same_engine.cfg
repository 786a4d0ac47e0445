SPECIFICATION Spec
CONSTANTS
    e1 = e1
    e2 = e2
    e3 = e3
    r1 = r1
    r2 = r2
    r3 = r3
    NoEngine = NoEngine
    Engines <- OneEngine
    Reqs <- TwoReqs
    Ops <- LockingOps
    LateReplies = FALSE
    Exclusive = FALSE
PROPERTY LockKeptWhileWorking
