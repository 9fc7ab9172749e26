---------------------------- MODULE PromptsProofs ----------------------------
(***************************************************************************)
(* Proofs about Prompts, for any names, bodies, defaults and connections:  *)
(* it implements PromptLibrary, an answered change is kept, and the panel  *)
(* that made the last change ends up showing the library.                  *)
(***************************************************************************)
EXTENDS Prompts, TLAPS

Running == [items : Library, stage : Stage]

Typed ==
    /\ file \in Library \cup {NoFile, Damaged}
    /\ queue \in Seq(Op)
    /\ running \in Running \cup {None}
    /\ received \in [Conn -> Seq(Op \cup {List})]
    /\ replies \in [Conn -> Seq(Library)]
    /\ shown \in [Conn -> Library \cup {None}]
    /\ told \in Library \cup {None}
    /\ author \in Conn \cup {None}
    /\ damages \in Nat

\* What the turn that runs is about to write, or has just written.
TurnIsCurrent ==
    running # None =>
        /\ queue # <<>>
        /\ running.stage # "renamed" => running.items = Changed(Head(queue))
        /\ running.stage = "renamed" => file = running.items /\ told = None

\* What the panel of c will show once it has shown every list sent to it.
Final(c) == IF replies[c] = <<>> THEN shown[c] ELSE replies[c][Len(replies[c])]

\* The author of the last change has the library, or a list is due to it: it
\* has asked for one, or its answer is about to leave.
Asked(c) == \E n \in 1..Len(received[c]) : received[c][n] = List
AnswerDue(c) == running # None /\ running.stage = "renamed" /\ Head(queue).conn = c
AuthorIsServed ==
    \A c \in Conn : author = c => Asked(c) \/ AnswerDue(c) \/ Final(c) = ListPrompts(file)

IInv == Typed /\ TurnIsCurrent /\ AnsweredIsKept /\ AuthorIsServed

USE PromptsAssumption, MarkersAssumption

-----------------------------------------------------------------------------
\* Functions from some names to bodies.
LEMMA InLibrary ==
    ASSUME NEW D \in SUBSET Name, NEW f \in [D -> Text]
    PROVE  f \in Library
BY DEF Library

LEMMA LibraryIs ==
    ASSUME NEW f \in Library
    PROVE  DOMAIN f \in SUBSET Name /\ f \in [DOMAIN f -> Text]
BY DEF Library

LEMMA EmptyInLibrary == [n \in {} |-> n] \in Library
<1>1. [n \in {} |-> n] \in [{} -> Text] OBVIOUS
<1>2. QED BY <1>1 DEF Library

\* A list is a library, whatever the file.
LEMMA ListInLibrary ==
    ASSUME NEW f \in Library \cup {NoFile, Damaged}
    PROVE  /\ ListPrompts(f) \in Library
           /\ f \in Library => ListPrompts(f) = f
<1>1. Default \in Library BY DEF Library
<1>2. QED BY <1>1, EmptyInLibrary DEF ListPrompts, ReadAll

\* A save or a delete of a library is a library.
LEMMA ChangedInLibrary ==
    ASSUME NEW op \in Op, file \in Library \cup {NoFile, Damaged}
    PROVE  Changed(op) \in Library
<1> DEFINE f == ListPrompts(file)
<1>1. DOMAIN f \in SUBSET Name /\ f \in [DOMAIN f -> Text] BY ListInLibrary, LibraryIs
<1>2. CASE op.kind = "save"
  <2>1. op.name \in Name /\ op.text \in Text BY <1>2 DEF Op
  <2>2. Promised!Put(f, op.name, op.text) \in [DOMAIN f \cup {op.name} -> Text]
    BY <1>1, <2>1 DEF Promised!Put
  <2>3. QED BY <1>1, <1>2, <2>1, <2>2, InLibrary DEF Changed
<1>3. CASE op.kind # "save"
  <2>1. op.name \in Name BY <1>3 DEF Op
  <2>2. Promised!Without(f, op.name) \in [DOMAIN f \ {op.name} -> Text]
    BY <1>1 DEF Promised!Without
  <2>3. QED BY <1>1, <1>3, <2>2, InLibrary DEF Changed
<1>4. QED BY <1>2, <1>3

\* A change whose connection has dropped is the same change.
Orphan(op) == [op EXCEPT !.conn = None]
LEMMA OrphanIsSame ==
    ASSUME NEW op \in Op
    PROVE  Orphan(op) \in Op /\ Changed(Orphan(op)) = Changed(op)
<1>1. CASE op \in [kind : {"save"}, conn : Conn \cup {None}, name : Name, text : Text]
  <2>1. /\ Orphan(op) \in [kind : {"save"}, conn : Conn \cup {None}, name : Name, text : Text]
        /\ Orphan(op).kind = op.kind /\ Orphan(op).name = op.name /\ Orphan(op).text = op.text
    BY <1>1 DEF Orphan
  <2>2. QED BY <2>1 DEF Op, Changed
<1>2. CASE op \in [kind : {"delete"}, conn : Conn \cup {None}, name : Name]
  <2>1. /\ Orphan(op) \in [kind : {"delete"}, conn : Conn \cup {None}, name : Name]
        /\ Orphan(op).kind = op.kind /\ Orphan(op).name = op.name
        /\ op.kind # "save"
    BY <1>2 DEF Orphan
  <2>2. QED BY <2>1 DEF Op, Changed
<1>3. QED BY <1>1, <1>2 DEF Op

\* What follows when the file and the turn are left alone.
LEMMA SameTurn ==
    ASSUME TurnIsCurrent, AnsweredIsKept,
           UNCHANGED <<file, told, running>>,
           queue # <<>> => queue' # <<>> /\ Changed(Head(queue))' = Changed(Head(queue))
    PROVE  TurnIsCurrent' /\ AnsweredIsKept'
BY DEF TurnIsCurrent, AnsweredIsKept

\* An author whose pipe only grew by what was due is served still.
LEMMA SameService ==
    ASSUME AuthorIsServed, UNCHANGED <<file, author>>,
           \A c \in Conn : author = c =>
              /\ Asked(c) => Asked(c)' \/ Final(c)' = ListPrompts(file)
              /\ AnswerDue(c) => Asked(c)' \/ AnswerDue(c)' \/ Final(c)' = ListPrompts(file)
              /\ Final(c) = ListPrompts(file) => Asked(c)' \/ Final(c)' = Final(c)
    PROVE  AuthorIsServed'
<1> SUFFICES ASSUME NEW c \in Conn, author = c
             PROVE  Asked(c)' \/ AnswerDue(c)' \/ Final(c)' = ListPrompts(file)'
  BY DEF AuthorIsServed
<1>1. ListPrompts(file)' = ListPrompts(file) BY DEF ListPrompts, ReadAll
<1>2. QED BY <1>1 DEF AuthorIsServed

LEMMA InitInvariant == Init => IInv
<1> SUFFICES ASSUME Init PROVE IInv OBVIOUS
<1>1. Typed BY DEF Init, Typed
<1>2. TurnIsCurrent /\ AnsweredIsKept BY DEF Init, TurnIsCurrent, AnsweredIsKept
<1>3. AuthorIsServed BY DEF Init, AuthorIsServed
<1>4. QED BY <1>1, <1>2, <1>3 DEF IInv

-----------------------------------------------------------------------------
(* The turn of a change.                                                   *)

LEMMA StartKeeps == ASSUME IInv, Start PROVE IInv'
<1> USE DEF IInv, Start
<1>1. Head(queue) \in Op BY DEF Typed
<1>2. Typed' BY <1>1, ChangedInLibrary DEF Typed, Running, Stage
<1>3. TurnIsCurrent' BY DEF TurnIsCurrent, Changed, ListPrompts, ReadAll
<1>4. AnsweredIsKept' BY DEF AnsweredIsKept
<1>5. AuthorIsServed'
  BY SameService DEF Asked, AnswerDue, Final
<1>6. QED BY <1>2, <1>3, <1>4, <1>5

LEMMA WriteTempKeeps == ASSUME IInv, WriteTemp PROVE IInv'
<1> USE DEF IInv, WriteTemp
<1>1. running \in Running BY DEF Typed
<1>2. running' \in Running /\ running'.items = running.items /\ running'.stage = "written"
  BY <1>1 DEF Running, Stage
<1>3. Typed' BY <1>2 DEF Typed
<1>4. TurnIsCurrent' BY <1>1, <1>2 DEF TurnIsCurrent, Changed, ListPrompts, ReadAll
<1>5. AnsweredIsKept' BY DEF AnsweredIsKept
<1>6. AuthorIsServed' BY SameService DEF Asked, AnswerDue, Final
<1>7. QED BY <1>3, <1>4, <1>5, <1>6

LEMMA RenameKeeps == ASSUME IInv, Rename PROVE IInv'
<1> USE DEF IInv, Rename
<1>1. running \in Running BY DEF Typed
<1>2. running' \in Running /\ running'.items = running.items /\ running'.stage = "renamed"
  BY <1>1 DEF Running, Stage
<1>3. queue # <<>> /\ Head(queue) \in Op BY DEF TurnIsCurrent, Typed
<1>4. Head(queue).conn \in Conn \cup {None} BY <1>3 DEF Op
<1>5. Typed' BY <1>1, <1>2, <1>4 DEF Typed, Running
<1>6. TurnIsCurrent' BY <1>2, <1>3 DEF TurnIsCurrent
<1>7. AnsweredIsKept' BY DEF AnsweredIsKept
<1>8. running' # None BY <1>2 DEF Running
<1>9. AuthorIsServed' BY <1>2, <1>8 DEF AuthorIsServed, AnswerDue
<1>10. QED BY <1>5, <1>6, <1>7, <1>9

LEMMA RepliesKeeps == ASSUME IInv, Replies PROVE IInv'
<1> USE DEF IInv, Replies
<1>1. running \in Running /\ running.items \in Library BY DEF Typed, Running
<1>2. queue # <<>> BY DEF TurnIsCurrent
<1>3. queue' \in Seq(Op) BY <1>2 DEF Typed
<1>4. replies' \in [Conn -> Seq(Library)] BY <1>1 DEF Answer, Typed
<1>5. Typed' BY <1>1, <1>3, <1>4 DEF Typed
<1>6. file = running.items BY DEF TurnIsCurrent
<1>7. TurnIsCurrent' /\ AnsweredIsKept' BY <1>6 DEF TurnIsCurrent, AnsweredIsKept
<1>8. ASSUME NEW c \in Conn, Head(queue).conn = c PROVE Final(c)' = ListPrompts(file)
  <2>1. replies[c] \in Seq(Library) BY DEF Typed
  <2>2. replies'[c] = Append(replies[c], running.items) BY <1>8 DEF Answer
  <2>3. replies'[c] # <<>> /\ replies'[c][Len(replies'[c])] = running.items
    BY <1>1, <2>1, <2>2
  <2>4. QED BY <1>1, <1>6, <2>3, ListInLibrary DEF Final
<1>9. ASSUME NEW c \in Conn, Head(queue).conn # c PROVE Final(c)' = Final(c)
  BY <1>9 DEF Answer, Final
<1>10. AuthorIsServed' BY <1>8, <1>9, SameService DEF Asked, AnswerDue
<1>11. QED BY <1>5, <1>7, <1>10

LEMMA FailsKeeps == ASSUME IInv, Fails PROVE IInv'
<1> USE DEF IInv, Fails
<1>1. queue # <<>> BY DEF TurnIsCurrent
<1>2. Typed' BY <1>1 DEF Typed
<1>3. TurnIsCurrent' /\ AnsweredIsKept' BY DEF TurnIsCurrent, AnsweredIsKept
<1>4. AuthorIsServed' BY SameService DEF Asked, AnswerDue, Final
<1>5. QED BY <1>2, <1>3, <1>4

-----------------------------------------------------------------------------
(* The connections.                                                        *)

\* What was asked for is asked for still when more messages come.
LEMMA AsksKeeps ==
    ASSUME IInv, NEW c \in Conn, NEW messages \in Seq(Op \cup {List}), Asks(c, messages)
    PROVE  IInv'
<1> USE DEF IInv, Asks
<1>1. received' \in [Conn -> Seq(Op \cup {List})] BY DEF Typed
<1>2. Typed' BY <1>1 DEF Typed
<1>3. TurnIsCurrent' /\ AnsweredIsKept'
  BY DEF TurnIsCurrent, AnsweredIsKept, Changed, ListPrompts, ReadAll
<1>4. ASSUME NEW d \in Conn, Asked(d) PROVE Asked(d)'
  <2>1. PICK n \in 1..Len(received[d]) : received[d][n] = List BY <1>4 DEF Asked
  <2>2. n \in 1..Len(received'[d]) /\ received'[d][n] = List BY <2>1 DEF Typed
  <2>3. QED BY <2>2 DEF Asked
<1>5. AuthorIsServed' BY <1>4, SameService DEF AnswerDue, Final
<1>6. QED BY <1>2, <1>3, <1>5

LEMMA ConfirmKeeps ==
    ASSUME IInv, NEW c \in Conn, ConfirmPromptName(c) \/ DeleteName(c)
    PROVE  IInv'
<1>1. CASE ConfirmPromptName(c)
  <2>1. PICK n \in Name, t \in Text :
            Asks(c, <<[kind |-> "save", conn |-> c, name |-> n, text |-> t], List>>)
    BY <1>1 DEF ConfirmPromptName
  <2>2. <<[kind |-> "save", conn |-> c, name |-> n, text |-> t], List>> \in Seq(Op \cup {List})
    BY DEF Op
  <2>3. QED BY <2>1, <2>2, AsksKeeps
<1>2. CASE DeleteName(c)
  <2>1. PICK n \in Name : Asks(c, <<[kind |-> "delete", conn |-> c, name |-> n]>>)
    BY <1>2 DEF DeleteName
  <2>2. <<[kind |-> "delete", conn |-> c, name |-> n]>> \in Seq(Op \cup {List}) BY DEF Op
  <2>3. QED BY <2>1, <2>2, AsksKeeps
<1>3. QED BY <1>1, <1>2

LEMMA ReceiveKeeps == ASSUME IInv, NEW c \in Conn, Receive(c) PROVE IInv'
<1> USE DEF IInv, Receive
<1>1. received[c] \in Seq(Op \cup {List}) /\ received[c] # <<>> BY DEF Typed
<1>2. Head(received[c]) \in Op \cup {List} /\ Tail(received[c]) \in Seq(Op \cup {List})
  BY <1>1
<1>3. received' \in [Conn -> Seq(Op \cup {List})] BY <1>2 DEF Typed
<1>4. TurnIsCurrent' /\ AnsweredIsKept' BY DEF TurnIsCurrent, AnsweredIsKept
<1>5. ASSUME NEW d \in Conn, d # c PROVE Asked(d)' = Asked(d) /\ Final(d)' = Final(d)
  <2>1. received'[d] = received[d] /\ replies'[d] = replies[d] BY <1>5 DEF Typed
  <2>2. QED BY <2>1 DEF Asked, Final
<1>6. CASE Head(received[c]) = List
  <2>1. replies[c] \in Seq(Library) /\ ListPrompts(file) \in Library
    BY ListInLibrary DEF Typed
  <2>2. replies'[c] = Append(replies[c], ListPrompts(file)) BY <1>6 DEF Typed
  <2>3. Typed'
    <3>1. Append(replies[c], ListPrompts(file)) \in Seq(Library) BY <2>1
    <3>2. replies' = [replies EXCEPT ![c] = Append(replies[c], ListPrompts(file))] BY <1>6
    <3>3. replies' \in [Conn -> Seq(Library)] BY <3>1, <3>2 DEF Typed
    <3>4. QED BY <1>3, <1>6, <3>3 DEF Typed
  <2>4. Final(c)' = ListPrompts(file) BY <2>1, <2>2, SMTT(30) DEF Final
  <2>5. AuthorIsServed' BY <1>5, <2>4, SameService DEF AnswerDue
  <2>6. QED BY <1>4, <2>3, <2>5
<1>7. CASE Head(received[c]) # List
  <2>1. Typed'
    <3>1. queue' = Append(queue, Head(received[c])) /\ Head(received[c]) \in Op
      BY <1>2, <1>7
    <3>2. queue' \in Seq(Op) BY <3>1 DEF Typed
    <3>3. QED BY <1>3, <1>7, <3>2 DEF Typed
  <2>2. ASSUME Asked(c) PROVE Asked(c)'
    <3>1. PICK n \in 1..Len(received[c]) : received[c][n] = List BY <2>2 DEF Asked
    <3>2. received'[c] = Tail(received[c]) /\ n # 1 BY <1>1, <1>7, <3>1 DEF Typed
    <3>3. n - 1 \in 1..Len(received'[c]) /\ received'[c][n - 1] = List
      <4>1. Len(received'[c]) = Len(received[c]) - 1 BY ONLY <1>1, <3>2
      <4>2. n \in Nat /\ n - 1 \in 1..(Len(received[c]) - 1) BY <1>1, <3>1, <3>2
      <4>3. Tail(received[c])[n - 1] = received[c][n] BY <1>1, <4>2
      <4>4. QED BY <3>1, <3>2, <4>1, <4>2, <4>3
    <3>4. QED BY <3>3 DEF Asked
  <2>3. Final(c)' = Final(c) BY <1>7 DEF Final
  <2>4. AuthorIsServed' BY <1>5, <2>2, <2>3, SameService DEF AnswerDue
  <2>5. QED BY <1>4, <2>1, <2>4
<1>8. QED BY <1>6, <1>7

LEMMA ShowsKeeps == ASSUME IInv, NEW c \in Conn, Shows(c) PROVE IInv'
<1> USE DEF IInv, Shows
<1>1. replies[c] \in Seq(Library) /\ replies[c] # <<>> BY DEF Typed
<1>2. Head(replies[c]) \in Library /\ Tail(replies[c]) \in Seq(Library) BY <1>1
<1>3. Typed' BY <1>2 DEF Typed
<1>4. TurnIsCurrent' /\ AnsweredIsKept'
  BY DEF TurnIsCurrent, AnsweredIsKept, Changed, ListPrompts, ReadAll
<1>5. Final(c)' = Final(c)
  <2>1. replies'[c] = Tail(replies[c]) /\ shown'[c] = Head(replies[c]) BY DEF Typed
  <2>2. QED BY <1>1, <2>1, SMTT(30) DEF Final
<1>6. ASSUME NEW d \in Conn PROVE Final(d)' = Final(d)
  <2>1. CASE d # c
    <3>1. replies'[d] = replies[d] /\ shown'[d] = shown[d] BY <2>1 DEF Typed
    <3>2. Final(d) = IF replies[d] = <<>> THEN shown[d] ELSE replies[d][Len(replies[d])]
      BY DEF Final
    <3>3. Final(d)' = IF replies'[d] = <<>> THEN shown'[d] ELSE replies'[d][Len(replies'[d])]
      BY DEF Final
    <3>4. QED BY ONLY <3>1, <3>2, <3>3
  <2>2. QED BY <1>5, <2>1
<1>7. AuthorIsServed' BY <1>6, SameService DEF Asked, AnswerDue
<1>8. QED BY <1>3, <1>4, <1>7

LEMMA DropKeeps == ASSUME IInv, NEW c \in Conn, Drop(c) PROVE IInv'
<1> USE DEF IInv, Drop
<1>1. received' \in [Conn -> Seq(Op \cup {List})] /\ replies' \in [Conn -> Seq(Library)]
  BY DEF Typed
<1>2. Len(queue) \in Nat /\ \A n \in 1..Len(queue) : queue[n] \in Op BY DEF Typed
<1>3. \A n \in 1..Len(queue) : queue'[n] \in Op BY <1>2, OrphanIsSame DEF Orphan
<1>4. queue' \in Seq(Op) /\ Len(queue') = Len(queue) BY <1>2, <1>3
<1>5. Typed' BY <1>1, <1>4 DEF Typed
<1>6. ASSUME queue # <<>>
      PROVE  /\ queue' # <<>> /\ Changed(Head(queue))' = Changed(Head(queue))
             /\ Head(queue').conn = (IF Head(queue).conn = c THEN None ELSE Head(queue).conn)
  <2>1. 1 \in 1..Len(queue) /\ Head(queue) = queue[1] /\ Head(queue') = queue'[1] /\ queue' # <<>>
    BY <1>4, <1>6 DEF Typed
  <2>2. queue'[1] = IF queue[1].conn = c THEN Orphan(queue[1]) ELSE queue[1]
    BY <2>1 DEF Orphan
  <2>3. Changed(queue'[1]) = Changed(queue[1]) BY <1>2, <2>1, <2>2, OrphanIsSame
  <2>4. Changed(Head(queue))' = Changed(queue'[1]) BY <2>1 DEF Changed, ListPrompts, ReadAll
  <2>5. Orphan(queue[1]).conn = None BY <1>2, <2>1 DEF Orphan, Op
  <2>6. QED BY <2>1, <2>2, <2>3, <2>4, <2>5
<1>7. TurnIsCurrent' /\ AnsweredIsKept' BY <1>6, SameTurn
<1>8. Asked(c)'
  <2>1. received'[c] = <<List>> BY DEF Typed
  <2>2. 1 \in 1..Len(received'[c]) /\ received'[c][1] = List BY <2>1
  <2>3. QED BY <2>2 DEF Asked
<1>9. ASSUME NEW d \in Conn, d # c
      PROVE  Asked(d)' = Asked(d) /\ Final(d)' = Final(d) /\ (AnswerDue(d) => AnswerDue(d)')
  <2>1. received'[d] = received[d] /\ replies'[d] = replies[d] BY <1>9 DEF Typed
  <2>2. AnswerDue(d) => AnswerDue(d)' BY <1>6, <1>9 DEF AnswerDue, TurnIsCurrent
  <2>3. QED BY <2>1, <2>2 DEF Asked, Final
<1>10. AuthorIsServed' BY <1>8, <1>9, SameService
<1>11. QED BY <1>5, <1>7, <1>10

LEMMA CrashKeeps == ASSUME IInv, Crash PROVE IInv'
<1> USE DEF IInv, Crash
<1>1. Typed' BY DEF Typed
<1>2. TurnIsCurrent' /\ AnsweredIsKept' BY DEF TurnIsCurrent, AnsweredIsKept
<1>3. ASSUME NEW c \in Conn PROVE Asked(c)'
  <2>1. 1 \in 1..Len(received'[c]) /\ received'[c][1] = List OBVIOUS
  <2>2. QED BY <2>1 DEF Asked
<1>4. AuthorIsServed' BY <1>3 DEF AuthorIsServed
<1>5. QED BY <1>1, <1>2, <1>4

LEMMA DamageKeeps == ASSUME IInv, Damage PROVE IInv'
<1> USE DEF IInv, Damage
<1>1. Typed' BY DEF Typed
<1>2. TurnIsCurrent' /\ AnsweredIsKept' BY DEF TurnIsCurrent, AnsweredIsKept
<1>3. AuthorIsServed' BY DEF AuthorIsServed
<1>4. QED BY <1>1, <1>2, <1>3

-----------------------------------------------------------------------------
LEMMA NextInvariant == ASSUME IInv, [Next]_vars PROVE IInv'
<1>1. CASE Start BY <1>1, StartKeeps
<1>2. CASE WriteTemp BY <1>2, WriteTempKeeps
<1>3. CASE Rename BY <1>3, RenameKeeps
<1>4. CASE Replies BY <1>4, RepliesKeeps
<1>5. CASE Fails BY <1>5, FailsKeeps
<1>6. CASE Crash BY <1>6, CrashKeeps
<1>7. CASE Damage BY <1>7, DamageKeeps
<1>8. ASSUME NEW c \in Conn, ConfirmPromptName(c) \/ DeleteName(c) PROVE IInv'
  BY <1>8, ConfirmKeeps
<1>9. ASSUME NEW c \in Conn, Receive(c) PROVE IInv' BY <1>9, ReceiveKeeps
<1>10. ASSUME NEW c \in Conn, Shows(c) PROVE IInv' BY <1>10, ShowsKeeps
<1>11. ASSUME NEW c \in Conn, Drop(c) PROVE IInv' BY <1>11, DropKeeps
<1>12. CASE UNCHANGED vars
  <2> USE <1>12 DEF vars, IInv
  <2>1. Typed' BY DEF Typed
  <2>2. TurnIsCurrent' /\ AnsweredIsKept'
    BY DEF TurnIsCurrent, AnsweredIsKept, Changed, ListPrompts, ReadAll
  <2>3. AuthorIsServed' BY SameService DEF Asked, AnswerDue, Final
  <2>4. QED BY <2>1, <2>2, <2>3
<1>13. QED
  BY <1>1, <1>2, <1>3, <1>4, <1>5, <1>6, <1>7, <1>8, <1>9, <1>10, <1>11, <1>12 DEF Next

\* The inductive invariant, for any library and any number of connections.
THEOREM Invariant == Spec => []IInv
BY InitInvariant, NextInvariant, PTL DEF Spec

\* What is asked for, and what goes wrong, is counted and bounded.
Counted == ops \in 0..MaxOps /\ faults \in 0..MaxFaults /\ damages \in 0..faults

LEMMA StepCounts == Counted /\ [Next]_vars => Counted'
<1> SUFFICES ASSUME Counted, [Next]_vars PROVE Counted' OBVIOUS
<1>1. CASE Start \/ WriteTemp \/ Rename \/ Replies
  BY <1>1 DEF Counted, Start, WriteTemp, Rename, Replies
<1>2. CASE Fails \/ Crash \/ Damage BY <1>2 DEF Counted, Fails, Crash, Damage
<1>3. ASSUME NEW c \in Conn, ConfirmPromptName(c) \/ DeleteName(c) PROVE Counted'
  <2>1. \A m : Asks(c, m) => ops < MaxOps /\ ops' = ops + 1 /\ UNCHANGED <<damages, faults>>
    BY DEF Asks
  <2>2. ops < MaxOps /\ ops' = ops + 1 /\ UNCHANGED <<damages, faults>>
    BY <1>3, <2>1 DEF ConfirmPromptName, DeleteName
  <2>3. QED BY <2>2 DEF Counted
<1>4. ASSUME NEW c \in Conn, Receive(c) \/ Shows(c) \/ Drop(c) PROVE Counted'
  BY <1>4 DEF Counted, Receive, Shows, Drop
<1>5. CASE UNCHANGED vars BY <1>5 DEF Counted, vars
<1>6. QED BY <1>1, <1>2, <1>3, <1>4, <1>5 DEF Next

\* Every variable keeps its type.
THEOREM TypeCorrect == Spec => []TypeOK
<1>1. Init => Counted BY DEF Init, Counted
<1>2. IInv /\ Counted => TypeOK BY DEF IInv, Typed, Counted, Running, TypeOK
<1>3. QED BY Invariant, StepCounts, <1>1, <1>2, PTL DEF Spec

\* An answered change is in the file until the next one.
THEOREM AnsweredIsKeptHolds == Spec => []AnsweredIsKept
<1>1. IInv => AnsweredIsKept BY DEF IInv
<1>2. QED BY Invariant, <1>1, PTL

\* The panel that changed the library last shows it once the traffic is over.
THEOREM PanelShowsLibraryHolds == Spec => []PanelShowsLibrary
<1>1. IInv => PanelShowsLibrary
  <2> SUFFICES ASSUME IInv, NEW c \in Conn, author = c, queue = <<>>,
                      received[c] = <<>>, replies[c] = <<>>
               PROVE  shown[c] = ListPrompts(file)
    BY DEF PanelShowsLibrary
  <2>1. ~Asked(c) BY DEF Asked
  <2>2. ~AnswerDue(c) BY DEF IInv, TurnIsCurrent, AnswerDue
  <2>3. QED BY <2>1, <2>2 DEF IInv, AuthorIsServed, Final
<1>2. QED BY Invariant, <1>1, PTL

\* The rename is the one step of the library; a spoilt file is the other.
LEMMA RenameIsPromised == ASSUME IInv, Rename PROVE Promised!Next
<1> DEFINE op == Head(queue)
<1>1. op \in Op /\ running.items = Changed(op)
  BY DEF IInv, Typed, TurnIsCurrent, Rename
<1>2. file' = Changed(op) /\ damages' = damages BY <1>1 DEF Rename
<1>3. ListPrompts(file)' = Changed(op)
  <2>1. Changed(op) \in Library BY <1>1, ChangedInLibrary DEF IInv, Typed
  <2>2. ListPrompts(file') = file' BY <1>2, <2>1, ListInLibrary
  <2>3. QED BY <1>2, <2>2 DEF ListPrompts, ReadAll
<1>4. CASE op.kind = "save"
  <2>1. op.name \in Name /\ op.text \in Text BY <1>1, <1>4 DEF Op
  <2>2. Promised!Save BY <1>2, <1>3, <1>4, <2>1 DEF Promised!Save, Changed
  <2>3. QED BY <2>2 DEF Promised!Next
<1>5. CASE op.kind # "save"
  <2>1. op.name \in Name BY <1>1, <1>5 DEF Op
  <2>2. Promised!Delete BY <1>2, <1>3, <1>5, <2>1 DEF Promised!Delete, Changed
  <2>3. QED BY <2>2 DEF Promised!Next
<1>6. QED BY <1>4, <1>5

LEMMA DamageIsPromised == ASSUME Damage PROVE Promised!Next
<1>1. ListPrompts(file)' = [n \in {} |-> n] BY DEF Damage, ListPrompts, ReadAll
<1>2. Promised!Spoil
  BY <1>1 DEF Damage, Promised!Spoil, Promised!Nothing
<1>3. QED BY <1>2 DEF Promised!Next

\* Through every interleaving of saves, deletes, failures, drops and crashes,
\* the library changes by one whole save or delete at a time.
THEOREM LibraryKeptHolds == Spec => LibraryKept
<1>1. Init => Promised!Init BY DEF Init, Promised!Init, ListPrompts
<1>2. ASSUME IInv, [Next]_vars PROVE [Promised!Next]_(Promised!vars)
  <2>1. CASE Rename BY <2>1, <1>2, RenameIsPromised
  <2>2. CASE Damage BY <2>2, DamageIsPromised
  <2>3. CASE UNCHANGED <<file, damages>>
    BY <2>3 DEF Promised!vars, ListPrompts, ReadAll
  <2>4. QED
    BY <1>2, <2>1, <2>2, <2>3
    DEF Next, vars, Start, WriteTemp, Replies, Fails, Crash, ConfirmPromptName, DeleteName,
        Asks, Receive, Shows, Drop
<1>3. QED BY Invariant, <1>1, <1>2, PTL DEF Spec, LibraryKept, Promised!Spec
=============================================================================
