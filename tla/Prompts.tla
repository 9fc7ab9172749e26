------------------------------- MODULE Prompts -------------------------------
(***************************************************************************)
(* The prompt library (broker/src/prompts.ts), the handlers of server.ts   *)
(* that call it, and the panel's use of it.                                *)
(*                                                                         *)
(* A save or a delete waits for its turn (withDirLock), then reads the     *)
(* file, writes a temporary one and renames it without letting anything    *)
(* else of the broker run; the broker may die between two of these steps.  *)
(* A connection is one browser, its worker and its panel; its messages     *)
(* arrive in order, or not at all when it drops.                           *)
(***************************************************************************)
EXTENDS Naturals, Sequences

CONSTANTS
    Name, Text, Default, \* see PromptLibrary
    Conn,       \* the connections
    None,       \* "not shown yet", "nothing runs", "no reply yet"
    NoFile,     \* prompts.json does not exist
    Damaged,    \* it cannot be read, parsed, or is not an array
    MaxOps,     \* bound: saves and deletes asked for
    MaxFaults   \* bound: crashes, drops, failed writes, damages

ASSUME PromptsAssumption ==
    /\ \E D \in SUBSET Name : Default \in [D -> Text]
    /\ MaxOps \in Nat /\ MaxFaults \in Nat

VARIABLES
    file,     \* prompts.json
    queue,    \* dirLocks: the saves and deletes that wait, and the one that runs
    running,  \* that one's items, once read: [items, stage], or None
    received, \* [Conn -> messages on their way to the broker]
    replies,  \* [Conn -> lists on their way to the panel]
    shown,    \* [Conn -> what the panel lists]
    told,     \* what the last change was answered with, None before that
    author,   \* the connection that asked for the last change of the file
    ops,      \* saves and deletes asked for
    damages,  \* how often someone else spoilt the file
    faults    \* crashes, drops, failed writes, damages

vars == <<file, queue, running, received, replies, shown, told, author, ops, damages, faults>>

Library == UNION {[D -> Text] : D \in SUBSET Name}
\* conn: where the reply goes, or None when that connection has dropped.
Op == [kind : {"save"}, conn : Conn \cup {None}, name : Name, text : Text]
        \cup [kind : {"delete"}, conn : Conn \cup {None}, name : Name]
List == [kind |-> "list"]
Stage == {"read", "written", "renamed"}

\* None, NoFile and Damaged are none of the things they stand beside.
ASSUME MarkersAssumption ==
    /\ {None, NoFile, Damaged} \cap Library = {}
    /\ NoFile # Damaged
    /\ None \notin Conn \cup [items : Library, stage : Stage]

-----------------------------------------------------------------------------
(* prompts.ts                                                              *)

ReadAll(f) == IF f \in {NoFile, Damaged} THEN [n \in {} |-> n] ELSE f
ListPrompts(f) == IF f = NoFile THEN Default ELSE ReadAll(f)

Promised == INSTANCE PromptLibrary WITH items <- ListPrompts(file), spoils <- damages

\* What savePrompt and deletePrompt write.  (Mutant: a delete reads the file
\* alone, and wipes the defaults.)
ChangedAlone(op) ==
    IF op.kind = "save" THEN Promised!Put(ListPrompts(file), op.name, op.text)
    ELSE Promised!Without(ReadAll(file), op.name)
Changed(op) ==
    IF op.kind = "save" THEN Promised!Put(ListPrompts(file), op.name, op.text)
    ELSE Promised!Without(ListPrompts(file), op.name)

\* Its turn has come: readAll.
Start ==
    /\ queue # <<>> /\ running = None
    /\ running' = [items |-> Changed(Head(queue)), stage |-> "read"]
    /\ UNCHANGED <<file, queue, received, replies, shown, told, author, ops, damages, faults>>

\* writeAllAtomic: the temporary file; then the rename.
WriteTemp ==
    /\ running # None /\ running.stage = "read"
    /\ running' = [running EXCEPT !.stage = "written"]
    /\ UNCHANGED <<file, queue, received, replies, shown, told, author, ops, damages, faults>>
Rename ==
    /\ running # None /\ running.stage = "written"
    /\ running' = [running EXCEPT !.stage = "renamed"]
    /\ file' = running.items
    /\ author' = Head(queue).conn
    /\ told' = None
    /\ UNCHANGED <<queue, received, replies, shown, ops, damages, faults>>

\* The promise settles: the reply goes to the connection that asked, if it is
\* still there, before the next one's turn.  (Mutant: that is left to the
\* panel's own prompts.list.)
Answer(op, items) ==
    replies' = [c \in Conn |-> IF c = op.conn THEN Append(replies[c], items) ELSE replies[c]]
RepliesNothing ==
    /\ running # None /\ running.stage = "renamed"
    /\ told' = running.items
    /\ queue' = Tail(queue) /\ running' = None
    /\ UNCHANGED <<file, received, replies, shown, author, ops, damages, faults>>
Replies ==
    /\ running # None /\ running.stage = "renamed"
    /\ Answer(Head(queue), running.items)
    /\ told' = running.items
    /\ queue' = Tail(queue) /\ running' = None
    /\ UNCHANGED <<file, received, shown, author, ops, damages, faults>>

\* The write or the rename throws: no reply; the next one has its turn.
\* (Mutants: the rejection wedges the queue; the failure is swallowed.)
FailsForAll ==
    /\ running # None /\ running.stage = "read"
    /\ faults < MaxFaults /\ faults' = faults + 1
    /\ running' = [running EXCEPT !.stage = "failed"]
    /\ UNCHANGED <<file, queue, received, replies, shown, told, author, ops, damages>>
FailsSilently ==
    /\ running # None /\ running.stage \in {"read", "written"}
    /\ faults < MaxFaults /\ faults' = faults + 1
    /\ Answer(Head(queue), running.items)
    /\ told' = running.items
    /\ queue' = Tail(queue) /\ running' = None
    /\ UNCHANGED <<file, received, shown, author, ops, damages>>
Fails ==
    /\ running # None /\ running.stage \in {"read", "written"}
    /\ faults < MaxFaults /\ faults' = faults + 1
    /\ queue' = Tail(queue) /\ running' = None
    /\ UNCHANGED <<file, received, replies, shown, told, author, ops, damages>>

-----------------------------------------------------------------------------
(* server.ts: a message is handled between two turns, or while some wait.  *)

Receive(c) ==
    /\ received[c] # <<>> /\ running = None
    /\ received' = [received EXCEPT ![c] = Tail(@)]
    /\ IF Head(received[c]) = List
       THEN replies' = [replies EXCEPT ![c] = Append(@, ListPrompts(file))] /\ UNCHANGED queue
       ELSE queue' = Append(queue, Head(received[c])) /\ UNCHANGED replies
    /\ UNCHANGED <<file, running, shown, told, author, ops, damages, faults>>

-----------------------------------------------------------------------------
(* panel.js                                                                *)

\* confirmPromptName: a save, then requestPrompts.  No panel deletes
\* (docs/design/inventaire.md:494): the protocol's clients may.
Asks(c, messages) ==
    /\ ops < MaxOps /\ ops' = ops + 1
    /\ received' = [received EXCEPT ![c] = @ \o messages]
    /\ UNCHANGED <<file, queue, running, replies, shown, told, author, damages, faults>>
ConfirmPromptName(c) ==
    \E n \in Name, t \in Text : Asks(c, <<[kind |-> "save", conn |-> c, name |-> n, text |-> t], List>>)
DeleteName(c) ==
    \E n \in Name : Asks(c, <<[kind |-> "delete", conn |-> c, name |-> n]>>)

\* A list arrives: the panel shows it, whatever it answers.
Shows(c) ==
    /\ replies[c] # <<>>
    /\ shown' = [shown EXCEPT ![c] = Head(replies[c])]
    /\ replies' = [replies EXCEPT ![c] = Tail(@)]
    /\ UNCHANGED <<file, queue, running, received, told, author, ops, damages, faults>>

-----------------------------------------------------------------------------
(* What goes wrong.                                                        *)

\* A connection drops and is made again; the panel asks for the list.
Drop(c) ==
    /\ faults < MaxFaults /\ faults' = faults + 1
    /\ received' = [received EXCEPT ![c] = <<List>>]
    /\ replies' = [replies EXCEPT ![c] = <<>>]
    /\ queue' = [n \in 1..Len(queue) |->
                   IF queue[n].conn = c THEN [queue[n] EXCEPT !.conn = None] ELSE queue[n]]
    /\ UNCHANGED <<file, running, shown, told, author, ops, damages>>

\* The broker dies, whatever it was doing, and is restarted.
Crash ==
    /\ faults < MaxFaults /\ faults' = faults + 1
    /\ queue' = <<>> /\ running' = None
    /\ received' = [c \in Conn |-> <<List>>]
    /\ replies' = [c \in Conn |-> <<>>]
    /\ UNCHANGED <<file, shown, told, author, ops, damages>>

\* Someone else spoils the file, between two turns.
Damage ==
    /\ faults < MaxFaults /\ faults' = faults + 1
    /\ running = None /\ file # Damaged
    /\ file' = Damaged /\ told' = None /\ author' = None /\ damages' = damages + 1
    /\ UNCHANGED <<queue, running, received, replies, shown, ops>>

-----------------------------------------------------------------------------
Init ==
    /\ file = NoFile
    /\ queue = <<>> /\ running = None
    /\ received = [c \in Conn |-> <<List>>]
    /\ replies = [c \in Conn |-> <<>>]
    /\ shown = [c \in Conn |-> None]
    /\ told = None /\ author = None
    /\ ops = 0 /\ damages = 0 /\ faults = 0

Turn == Start \/ WriteTemp \/ Rename \/ Replies

Next ==
    \/ Start \/ WriteTemp \/ Rename \/ Replies \/ Fails
    \/ Crash \/ Damage
    \/ \E c \in Conn : ConfirmPromptName(c) \/ DeleteName(c) \/ Receive(c) \/ Shows(c) \/ Drop(c)

Spec == Init /\ [][Next]_vars

\* The broker handles what it has received and gives each its turn.
FairSpec ==
    /\ Spec
    /\ WF_vars(Turn) /\ \A c \in Conn : WF_vars(Receive(c)) /\ WF_vars(Shows(c))

-----------------------------------------------------------------------------
(* Properties.                                                             *)

TypeOK ==
    /\ file \in Library \cup {NoFile, Damaged}
    /\ queue \in Seq(Op)
    /\ running \in [items : Library, stage : Stage] \cup {None}
    /\ received \in [Conn -> Seq(Op \cup {List})]
    /\ replies \in [Conn -> Seq(Library)]
    /\ shown \in [Conn -> Library \cup {None}]
    /\ told \in Library \cup {None}
    /\ author \in Conn \cup {None}
    /\ ops \in 0..MaxOps /\ {damages, faults} \subseteq 0..MaxFaults

\* Whoever saves and deletes at once, and whenever the broker dies, the library
\* only ever changes by one whole save or delete (prompts.ts:89-95): nothing is
\* lost to another's change, to a crash or to the defaults being forgotten.
LibraryKept == Promised!Spec

\* What a save or a delete answered is what the file holds, from then on, until
\* the next change is in place: no crash and no failed write takes it back.
AnsweredIsKept == told # None => file = told

\* Once the traffic is over, the panel that changed the library last shows it,
\* whether its list or its save came first.
PanelShowsLibrary ==
    \A c \in Conn :
        author = c /\ queue = <<>> /\ received[c] = <<>> /\ replies[c] = <<>>
        => shown[c] = ListPrompts(file)

\* No failed write keeps those behind it waiting (prompts.ts:102).
TurnsEnd == queue # <<>> ~> queue = <<>>
=============================================================================
