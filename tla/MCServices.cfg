SPECIFICATION ServicesSpec
CONSTANTS
    Refreshable = {r1, r2}
    Pool = 1
    Mishaps = 2
    SourceModel = {u1}
    Downs = 1
    Roles = 2
    Faults = 3
    Printed = {m1, m2}
    Plate = {i1}
    DailyLimit = 1
    LastDay = 2
    Kills = 1
    Refreshes = 1
    Platform = {cn}
    Authors = {a1}
    Collections = {c1}
    Wishes = 1
    Follows = 1
    Unanswered = 1
    BatchModel = {k1}
    Parent = {p1, p2}
    Thread = {w1, w2}
    Lost = 2
    Passing = 3
    Upsets = 1
    Files = {f1, f2}
    Packages = {k}
    Moved = {f1}
    Troubles = 1
    Writer = {w1, w2}
    Page = {b1}
    Events = 3
    Cuts = 2
INVARIANTS
    ServicesTypeOK
    RefreshedAll
    
    NothingLost
PROPERTIES
    RequestServed
    SyncServed
    FollowedIsSubscribed
    LinkReused
    
    HonestEnd
    BatchEnds
    
    StreamCatchesUp
CHECK_DEADLOCK FALSE
