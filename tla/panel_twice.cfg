\* Two windows, one action picked in the context menu.
CONSTANTS
    Panel = {p1, p2}
    Id = {1, 2}
    None = None
    Pending = Pending
    MaxReads = 0
    MaxEvents = 1
SPECIFICATION Spec
INVARIANT ActionFiresOnce
CHECK_DEADLOCK FALSE
