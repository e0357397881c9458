\* Three attempts of one request, two connections.
SPECIFICATION FairSpec
CONSTANTS
    ann = ann
    bob = bob
    r1 = r1
    r2 = r2
    a1 = a1
    a2 = a2
    a3 = a3
    x = x
    y = y
    Staff = {ann, bob}
    Requests = {r1, r2}
    Attempts = {a1, a2, a3}
    ActorOf <- ByAnnAndBob
    RequestOf <- OneRequest
    InputOf <- InputsDiffer
    ApproverOf <- ApprovalsDiffer
    Resolvers = {}
    PoolSize = 2
    NoStaff = NoStaff
    Nothing = Nothing
PROPERTIES
    ImplementsExactlyOnce
CHECK_DEADLOCK FALSE
