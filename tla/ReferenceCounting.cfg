SPECIFICATION FairSpec
CONSTANTS
    Threads = {t1, t2}
    Objects = {o1, o2}
    Handles = {h1, h2, h3, h4}
    None = None
    Queue = Queue
CHECK_DEADLOCK FALSE
INVARIANT CountIsExact
INVARIANT NoDanglingHandle
PROPERTY RefinesSharedObjects
PROPERTY UnreferencedIsDeleted
