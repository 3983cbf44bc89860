CONSTANTS
    leader = leader
    left = left
    Arms <- MCArms
    Recordings = {r1, r2}
    Loops = {i1}
    Leader <- MCLeader
    Follower <- MCFollower
    LoopArm <- MCLoopArm
    Nonces = {n1}
    SetupScopes <- MCScopes
CHECK_DEADLOCK FALSE
SPECIFICATION FairSpec
INVARIANTS StreamIsOwned HandsOffStreams
PROPERTIES ImplementsOwnership LeaseComesBack
