\* Every page of MCPages: up to nine elements, a layer, a list, facts, a draft.
CONSTANTS
    Node <- MCNode
    Body = "body"
    None = "none"
    Page <- MCPage
    Limit <- MCLimit
SPECIFICATION PagesSpec
INVARIANTS SentIsAccepted InstructionFits DraftStays LayersStayOut
\* A request ends.
CHECK_DEADLOCK FALSE
