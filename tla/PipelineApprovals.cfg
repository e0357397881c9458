\* Two Managers who approve for each other, two Resolvers and a connection to spare.
SPECIFICATION FairSpec
CONSTANTS
    ann = ann
    bob = bob
    r1 = r1
    r2 = r2
    a1 = a1
    a2 = a2
    a3 = a3
    x = x
    y = y
    Staff = {ann, bob}
    Requests = {r1, r2}
    Attempts = {a1, a2, a3}
    ActorOf <- ByAnnAndBob
    RequestOf <- TwoRequests
    InputOf <- SameInput
    ApproverOf <- Crosswise
    Resolvers = {a1, a2}
    PoolSize = 4
    NoStaff = NoStaff
    Nothing = Nothing
INVARIANTS
    ApprovalStands
PROPERTIES
    EveryAttemptEnds
CHECK_DEADLOCK FALSE
