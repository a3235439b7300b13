SPECIFICATION LibrarySpec
CONSTANTS
    Indexed = {x1}
    Versions = 2
    IndexFails = 1
    Listable = {k1, k2, k3}
    Limit = 1
    MaxPages = 3
    MinTracked = 20
    Changes = 4
    Misses = 1
    Threads = {t1, t2}
    PerThread = 2
    CommentPage = 2
    Edits = 2
    Slips = 1
    Model = {m1, m2}
    Image = {i1}
    File = {f1, f2, f3}
    Renderable = {f1, f2}
    Wanted = 4
    Deaths = 1
INVARIANT LibraryTypeOK
PROPERTIES
    
    ScanSettles
    CommentsKept
    NewCommentsArrive
    EditsKept
    PreviewsSettle
CHECK_DEADLOCK FALSE
