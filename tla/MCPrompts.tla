------------------------------ MODULE MCPrompts ------------------------------
EXTENDS Prompts

MCDefault == [n \in {"first", "second"} |-> "old"]
=============================================================================
