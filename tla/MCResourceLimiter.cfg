SPECIFICATION FairSpec
CONSTANTS
    p1 = p1
    p2 = p2
    a = a
    b = b
    c = c
    Process = {p1, p2}
    Thread = {a, b, c}
    ProcessOf <- ProcessOfThree
    Priority <- PriorityOfThree
    Nobody = Nobody
    Largest = 2
    Default = 1
    Depth = 2
INVARIANTS
    TypeOK
    SlotsOwned
PROPERTIES
    GrantsWithinCapacity
    PublishedIsConfigured
    NoStall
