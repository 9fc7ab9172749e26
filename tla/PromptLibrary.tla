---------------------------- MODULE PromptLibrary ----------------------------
(***************************************************************************)
(* What the prompt library promises: it changes one prompt at a time, and  *)
(* only a file spoilt from outside ever empties it.                        *)
(***************************************************************************)
EXTENDS Naturals

CONSTANTS
    Name,   \* the names of prompts
    Text,   \* their bodies
    Default \* DEFAULT_PROMPTS, a function from some names to bodies

VARIABLES
    items,  \* from the names of the library to their bodies
    spoils  \* how often its file was spoilt

vars == <<items, spoils>>

Put(f, n, t) == [m \in DOMAIN f \cup {n} |-> IF m = n THEN t ELSE f[m]]
Without(f, n) == [m \in DOMAIN f \ {n} |-> f[m]]
Nothing == [n \in {} |-> n]

Init == items = Default /\ spoils = 0

Save == \E n \in Name, t \in Text : items' = Put(items, n, t) /\ UNCHANGED spoils
Delete == \E n \in Name : items' = Without(items, n) /\ UNCHANGED spoils
Spoil == items' = Nothing /\ spoils' = spoils + 1

Next == Save \/ Delete \/ Spoil

Spec == Init /\ [][Next]_vars
=============================================================================
