--------------------------- MODULE RequestContract ---------------------------
(***************************************************************************)
(* What the broker promises a client about the ids it sends, independently *)
(* of how requests are served (docs/PROTOCOL.md, "Regles invariantes"): an *)
(* id that was asked gets its chunks first and then exactly one terminal;  *)
(* nothing is ever sent for an id that is not owed an answer; and the end  *)
(* of a connection settles every id still owed on it.                      *)
(*                                                                         *)
(* owed[c][i] is TRUE while connection c still owes id i its terminal.     *)
(* chunks and terminals count the frames the client received for an id.    *)
(***************************************************************************)
EXTENDS Naturals

CONSTANTS Conn, Id

VARIABLES live, owed, chunks, terminals

contractVars == <<live, owed, chunks, terminals>>

ContractInit ==
    /\ live = {}
    /\ owed = [c \in Conn |-> [i \in Id |-> FALSE]]
    /\ chunks = [c \in Conn |-> [i \in Id |-> 0]]
    /\ terminals = [c \in Conn |-> [i \in Id |-> 0]]

Connect(c) ==
    /\ c \notin live
    /\ live' = live \cup {c}
    /\ UNCHANGED <<owed, chunks, terminals>>

Ask(c, i) ==
    /\ c \in live
    /\ ~owed[c][i]
    /\ owed' = [owed EXCEPT ![c][i] = TRUE]
    /\ UNCHANGED <<live, chunks, terminals>>

\* The handler refuses, or answers without waiting for anything.
AskAndAnswer(c, i) ==
    /\ c \in live
    /\ ~owed[c][i]
    /\ terminals' = [terminals EXCEPT ![c][i] = @ + 1]
    /\ UNCHANGED <<live, owed, chunks>>

Chunk(c, i) ==
    /\ owed[c][i]
    /\ chunks' = [chunks EXCEPT ![c][i] = @ + 1]
    /\ UNCHANGED <<live, owed, terminals>>

Answer(c, i) ==
    /\ owed[c][i]
    /\ owed' = [owed EXCEPT ![c][i] = FALSE]
    /\ terminals' = [terminals EXCEPT ![c][i] = @ + 1]
    /\ UNCHANGED <<live, chunks>>

\* One connection ends, or all of them do when the process dies.
Disconnect(gone) ==
    /\ gone # {}
    /\ gone \subseteq live
    /\ live' = live \ gone
    /\ owed' = [c \in Conn |-> IF c \in gone THEN [i \in Id |-> FALSE] ELSE owed[c]]
    /\ UNCHANGED <<chunks, terminals>>

ContractNext ==
    \/ \E c \in Conn : Connect(c)
    \/ \E c \in Conn, i \in Id :
          Ask(c, i) \/ AskAndAnswer(c, i) \/ Chunk(c, i) \/ Answer(c, i)
    \/ \E gone \in SUBSET Conn : Disconnect(gone)

ContractSpec == ContractInit /\ [][ContractNext]_contractVars
=============================================================================
