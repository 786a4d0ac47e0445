SPECIFICATION Spec
CONSTANTS
    e1 = e1
    e2 = e2
    e3 = e3
    r1 = r1
    r2 = r2
    r3 = r3
    NoEngine = NoEngine
    Engines <- ThreeEngines
    Reqs <- ThreeReqs
    Ops <- AllOps
    LateReplies = FALSE
    Exclusive = TRUE
SYMMETRY Symmetry3x3
INVARIANTS TypeOK MutualExclusion
PROPERTIES StealsFromDeadOnly SerialSpec
