\* Two browsers; two starter prompts; two changes, one fault.
CONSTANTS
    Name = {"first", "second"}
    Text = {"old", "new"}
    Default <- MCDefault
    Conn = {c1, c2}
    None = None
    NoFile = NoFile
    Damaged = Damaged
    MaxOps = 2
    MaxFaults = 1
SPECIFICATION FairSpec
INVARIANTS AnsweredIsKept PanelShowsLibrary
PROPERTIES LibraryKept TurnsEnd
\* The changes are bounded.
CHECK_DEADLOCK FALSE
