\* One panel, closed and opened at will; two requests, one suspended sendChat or
\* summarize; the worker dies, the socket drops or an action is picked, once; the
\* worker may die as well while it stashes the action.
\* Liveness is checked: no symmetry.
CONSTANTS
    Panel = {p1}
    Id = {1, 2}
    None = None
    Pending = Pending
    MaxReads = 1
    MaxEvents = 1
SPECIFICATION FairSpec
INVARIANTS ActiveIsWatched InterruptedIsLost ErasedStaysErased ActionIsHeard
PROPERTY PanelUnlocks
\* The requests are bounded.
CHECK_DEADLOCK FALSE
