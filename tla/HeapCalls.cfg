SPECIFICATION FairSpec
CONSTANTS
    old = old
    parent = parent
    child = child
    Task = {old, parent, child}
    Script <- Scripts
    former = old
    PAGE = 16
INVARIANTS CallsTiled CallsInvariant
PROPERTY CallsEnd
CHECK_DEADLOCK FALSE
