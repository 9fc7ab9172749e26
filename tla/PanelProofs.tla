----------------------------- MODULE PanelProofs -----------------------------
(***************************************************************************)
(* Proofs about Panel, for any number of panels and requests and any       *)
(* bounds: the active request is the watched one, a request given up for a *)
(* change of worker is lost, a replay reuses no id that is under way, what *)
(* was erased stays erased, and no action of the menu is left unheard.     *)
(*                                                                         *)
(* The argument: the acknowledgements of a panel settle in the order of    *)
(* its requests, and an id belongs to the one panel that drew it.          *)
(***************************************************************************)
EXTENDS Panel, SequenceTheorems, TLAPS

USE PanelAssumption DEF reading

Entry == [id : Id \cup {None}, worker : Nat \cup {None}]
Answer == [id : Id, worker : Nat \cup {None}]

Typed ==
    /\ phase \in [Panel -> Phase]
    /\ active \in [Panel -> Id \cup {None, Pending}]
    /\ shown \in [Panel -> [Id -> Message]]
    /\ watch \in [Panel -> Entry]
    /\ acks \in [Panel -> Seq(Answer)]
    /\ retries \in [Panel -> SUBSET Id]
    /\ chats \in [Panel -> Nat] /\ summaries \in [Panel -> Nat] /\ transcripts \in [Panel -> Nat]
    /\ gets \in [Panel -> Nat] /\ taken \in [Panel -> Seq(Nat)]
    /\ disk \in [Id -> Message]
    /\ stash \in Nat /\ clicks \in Nat /\ stashed \in Nat
    /\ worker \in Nat
    /\ flight \in [Id -> Flight]

\* A panel that does not listen yet has sent nothing and waits for nothing.
Quiet(p) ==
    /\ active[p] = None /\ acks[p] = <<>> /\ retries[p] = {}
    /\ chats[p] = 0 /\ summaries[p] = 0 /\ transcripts[p] = 0
    /\ gets[p] = 0 /\ taken[p] = <<>>
Silent == \A p \in Panel : ~Listens(p) => Quiet(p)

\* The last acknowledgement to come, or the watch once all have come, is of the
\* active request.
LastIsActive ==
    \A p \in Panel : active[p] \in Id =>
        IF acks[p] = <<>> THEN watch[p].id = active[p]
        ELSE acks[p][Len(acks[p])].id = active[p]

\* A panel may replay, watch or await an id that it has drawn, and no other.
Mine(p, i) == i \in retries[p] \/ watch[p].id = i \/ AckDue(p, i)
Owned ==
    \A p \in Panel, i \in Id : Mine(p, i) =>
        /\ flight[i] # "unsent"
        /\ \A q \in Panel : Mine(q, i) => q = p

\* A request whose acknowledgement is due has got no answer yet.
DueIsUnanswered == \A p \in Panel, i \in Id : AckDue(p, i) => ~shown[p][i].auth

\* What a panel knows of the worker that has a request under way is true, once
\* the acknowledgement of its last try has come.
WorkerKnown ==
    \A p \in Panel :
        /\ \A n \in 1..Len(acks[p]) : UnderWay(acks[p][n].id) => acks[p][n].worker = worker
        /\ \A i \in Id : watch[p].id = i /\ ~AckDue(p, i) /\ UnderWay(i) => watch[p].worker = worker

IInv ==
    /\ Typed /\ Silent
    /\ LastIsActive /\ Owned /\ DueIsUnanswered /\ WorkerKnown /\ ReplayedIsIdle

-----------------------------------------------------------------------------
(* What a step that sends nothing leaves alone.                            *)

\* Panel p gives up what it watches or awaits, or keeps all of it.
Recedes(p) ==
    /\ active'[p] \in Id =>
          active'[p] = active[p] /\ watch'[p] = watch[p] /\ acks'[p] = acks[p]
    /\ \/ watch'[p] = watch[p] /\ acks'[p] = acks[p]
       \/ watch'[p] = NoWatch /\ acks'[p] \in {acks[p], <<>>}
    /\ retries'[p] \subseteq retries[p]

\* No request sets off, and those under way are with the same worker.
NoTakeOff ==
    \A i \in Id :
        /\ flight[i] # "unsent" => flight'[i] # "unsent"
        /\ UnderWay(i)' => UnderWay(i) /\ worker' = worker

\* A message asks for a replay if it did, if its request is over, or if it was
\* loaded by a panel that cannot replay it.
AuthHasCause(p, i) ==
    shown'[p][i].auth =>
        \/ shown[p][i].auth
        \/ ~UnderWay(i)' /\ ~AckDue(p, i)'
        \/ retries'[p] = {} /\ acks'[p] = <<>>

LEMMA SameAcks ==
    ASSUME NEW p \in Panel, NEW i \in Id, acks'[p] = acks[p]
    PROVE  AckDue(p, i)' <=> AckDue(p, i)
BY DEF AckDue

LEMMA NoAcks ==
    ASSUME NEW p \in Panel, NEW i \in Id, acks'[p] = <<>>
    PROVE  ~AckDue(p, i)'
BY DEF AckDue

\* A step that sends nothing keeps what the invariant says of the requests.
LEMMA RecedeKeeps ==
    ASSUME IInv, \A p \in Panel : Recedes(p), NoTakeOff,
           \A p \in Panel, i \in Id : AuthHasCause(p, i)
    PROVE  (LastIsActive /\ Owned /\ DueIsUnanswered /\ WorkerKnown /\ ReplayedIsIdle)'
<1> USE DEF IInv
<1>1. ASSUME NEW p \in Panel, NEW i \in Id, AckDue(p, i)'
      PROVE  AckDue(p, i) /\ acks'[p] = acks[p]
  BY <1>1, NoAcks, SameAcks DEF Recedes
<1>2. ASSUME NEW p \in Panel, NEW i \in Id, Mine(p, i)' PROVE Mine(p, i)
  <2>1. CASE i \in retries'[p] BY <2>1 DEF Recedes, Mine
  <2>2. CASE watch'[p].id = i
    <3>1. watch'[p] = watch[p] BY <2>2 DEF Recedes, NoWatch
    <3>2. QED BY <2>2, <3>1 DEF Mine
  <2>3. CASE AckDue(p, i)' BY <2>3, <1>1 DEF Mine
  <2>4. QED BY <1>2, <2>1, <2>2, <2>3 DEF Mine
<1>3. LastIsActive' BY DEF LastIsActive, Recedes
<1>4. Owned' BY <1>2 DEF Owned, NoTakeOff
<1>5. DueIsUnanswered'
  <2> SUFFICES ASSUME NEW p \in Panel, NEW i \in Id, AckDue(p, i)' PROVE ~shown'[p][i].auth
    BY DEF DueIsUnanswered
  <2>1. AckDue(p, i) BY <1>1
  <2>2. acks'[p] # <<>> BY NoAcks
  <2>3. QED BY <2>1, <2>2 DEF DueIsUnanswered, AuthHasCause
<1>6. WorkerKnown'
  <2> SUFFICES ASSUME NEW p \in Panel
               PROVE  /\ \A n \in 1..Len(acks'[p]) :
                            UnderWay(acks[p][n].id)' => acks'[p][n].worker = worker'
                      /\ \A i \in Id : watch'[p].id = i /\ ~AckDue(p, i)' /\ UnderWay(i)'
                            => watch'[p].worker = worker'
    BY DEF WorkerKnown
  <2>1. ASSUME NEW n \in 1..Len(acks'[p]), UnderWay(acks[p][n].id)'
        PROVE  acks'[p][n].worker = worker'
    <3>1. acks'[p] = acks[p] BY <2>1 DEF Recedes
    <3>2. acks[p][n] \in Answer BY <2>1, <3>1 DEF Typed
    <3>3. acks[p][n].id \in Id BY <3>2 DEF Answer
    <3>4. UnderWay(acks[p][n].id) /\ worker' = worker
      BY <2>1, <3>1, <3>3 DEF NoTakeOff, UnderWay
    <3>5. QED BY <2>1, <3>1, <3>4 DEF WorkerKnown
  <2>2. ASSUME NEW i \in Id, watch'[p].id = i, ~AckDue(p, i)', UnderWay(i)'
        PROVE  watch'[p].worker = worker'
    <3>1. watch'[p] = watch[p] /\ acks'[p] = acks[p] BY <2>2 DEF Recedes, NoWatch
    <3>2. ~AckDue(p, i) BY <2>2, <3>1, SameAcks
    <3>3. QED BY <2>2, <3>1, <3>2 DEF WorkerKnown, NoTakeOff
  <2>3. QED BY <2>1, <2>2
<1>7. ReplayedIsIdle'
  <2> SUFFICES ASSUME NEW p \in Panel, NEW i \in retries'[p], shown'[p][i].auth
               PROVE  ~UnderWay(i)'
    BY DEF ReplayedIsIdle
  <2>1. i \in retries[p] BY DEF Recedes
  <2>2. i \in Id BY <2>1 DEF Typed
  <2>3. QED BY <2>1, <2>2 DEF ReplayedIsIdle, AuthHasCause, NoTakeOff
<1>8. QED BY <1>3, <1>4, <1>5, <1>6, <1>7

-----------------------------------------------------------------------------
(* A step that sends: a new id, or the replay of one's own.                *)

MaySend(p, i) == NewId(i) \/ (i \in retries[p] /\ shown[p][i].auth)

\* What sending does to the acknowledgements and the flight of the request.
LEMMA HandsIs ==
    ASSUME IInv, NEW p \in Panel, NEW i \in Id, Hands(p, i)
    PROVE  \E a \in Answer, f \in Flight \ {"unsent"} :
              /\ acks' = [acks EXCEPT ![p] = Append(@, a)]
              /\ flight' = [flight EXCEPT ![i] = f]
              /\ a.id = i
              /\ f \in {"held", "flying"} => a.worker = worker
<1> USE DEF IInv, Typed
<1>1. CASE /\ acks' = [acks EXCEPT ![p] = Append(@, [id |-> i, worker |-> worker])]
           /\ flight' = [flight EXCEPT ![i] = IF link = "connected" THEN "flying" ELSE "held"]
  <2>1. [id |-> i, worker |-> worker] \in Answer BY DEF Answer
  <2>2. (IF link = "connected" THEN "flying" ELSE "held") \in Flight \ {"unsent"} BY DEF Flight
  <2>3. QED BY <1>1, <2>1, <2>2
<1>2. CASE /\ acks' = [acks EXCEPT ![p] = Append(@, [id |-> i, worker |-> None])]
           /\ flight' = [flight EXCEPT ![i] = "lost"]
  <2>1. [id |-> i, worker |-> None] \in Answer BY DEF Answer
  <2>2. "lost" \in Flight \ {"unsent"} BY DEF Flight
  <2>3. QED BY <1>2, <2>1, <2>2
<1>3. QED BY <1>1, <1>2 DEF Hands

\* What it does to the variables of every panel.
LEMMA SendTypes ==
    ASSUME IInv, NEW p \in Panel, NEW i \in Id, Sends(p, i)
    PROVE  /\ active' \in [Panel -> Id \cup {None, Pending}]
           /\ shown' \in [Panel -> [Id -> Message]]
           /\ acks' \in [Panel -> Seq(Answer)]
           /\ retries' \in [Panel -> SUBSET Id]
           /\ disk' \in [Id -> Message]
           /\ flight' \in [Id -> Flight]
           /\ \A q \in Panel : q # p =>
                 /\ active'[q] = active[q] /\ acks'[q] = acks[q] /\ retries'[q] = retries[q]
                 /\ shown'[q] = shown[q]
<1> USE DEF IInv, Typed, Sends
<1>1. Hands(p, i) OBVIOUS
<1>2. PICK a \in Answer, f \in Flight \ {"unsent"} :
          /\ acks' = [acks EXCEPT ![p] = Append(@, a)]
          /\ flight' = [flight EXCEPT ![i] = f]
  BY <1>1, HandsIs, SMTT(30)
<1>3. acks' \in [Panel -> Seq(Answer)] /\ flight' \in [Id -> Flight] BY <1>2
<1>4. Awaited \in Message BY DEF Awaited, Message
<1>5. shown' \in [Panel -> [Id -> Message]] BY <1>4
<1>6. disk' \in [Id -> Message] BY <1>5
<1>7. active' \in [Panel -> Id \cup {None, Pending}] /\ retries' \in [Panel -> SUBSET Id]
  OBVIOUS
<1>8. QED BY <1>2, <1>3, <1>5, <1>6, <1>7

LEMMA SendKeeps ==
    ASSUME IInv, NEW p \in Panel, NEW i \in Id, Sends(p, i), MaySend(p, i),
           UNCHANGED <<watch, worker>>
    PROVE  (LastIsActive /\ Owned /\ DueIsUnanswered /\ WorkerKnown /\ ReplayedIsIdle)'
<1>1. PICK a \in Answer, f \in Flight \ {"unsent"} :
          /\ acks' = [acks EXCEPT ![p] = Append(@, a)]
          /\ flight' = [flight EXCEPT ![i] = f]
          /\ a.id = i
          /\ f \in {"held", "flying"} => a.worker = worker
  BY HandsIs DEF Sends
<1>2. /\ acks[p] \in Seq(Answer) /\ acks'[p] = Append(acks[p], a)
      /\ Len(acks'[p]) = Len(acks[p]) + 1 /\ Len(acks[p]) \in Nat
      /\ acks'[p][Len(acks[p]) + 1] = a
      /\ \A n \in 1..Len(acks[p]) : acks'[p][n] = acks[p][n]
  BY <1>1 DEF IInv, Typed
<1>3. \A q \in Panel : q # p =>
         /\ active'[q] = active[q] /\ acks'[q] = acks[q] /\ retries'[q] = retries[q]
         /\ shown'[q] = shown[q]
  BY SendTypes
<1>4. /\ active'[p] = i /\ retries'[p] = retries[p] \cup {i}
      /\ ~shown'[p][i].auth
      /\ \A j \in Id : j # i => shown'[p][j] = shown[p][j]
  BY DEF Sends, IInv, Typed, Awaited
<1>5. flight'[i] = f /\ (\A j \in Id : j # i => flight'[j] = flight[j])
  BY <1>1 DEF IInv, Typed
<1>6. ASSUME NEW j \in Id PROVE AckDue(p, j)' <=> (AckDue(p, j) \/ j = i)
  <2>1. ASSUME AckDue(p, j)' PROVE AckDue(p, j) \/ j = i
    <3>1. PICK n \in 1..Len(acks'[p]) : acks'[p][n].id = j BY <2>1 DEF AckDue
    <3>2. CASE n = Len(acks[p]) + 1 BY <1>1, <1>2, <3>1, <3>2
    <3>3. CASE n # Len(acks[p]) + 1
      <4>1. n \in 1..Len(acks[p]) BY <1>2, <3>3
      <4>2. QED BY <1>2, <3>1, <4>1 DEF AckDue
    <3>4. QED BY <3>2, <3>3
  <2>2. ASSUME AckDue(p, j) PROVE AckDue(p, j)'
    <3>1. PICK n \in 1..Len(acks[p]) : acks[p][n].id = j BY <2>2 DEF AckDue
    <3>2. n \in 1..Len(acks'[p]) /\ acks'[p][n].id = j BY <1>2, <3>1
    <3>3. QED BY <3>2 DEF AckDue
  <2>3. ASSUME j = i PROVE AckDue(p, j)'
    <3>1. Len(acks[p]) + 1 \in 1..Len(acks'[p]) BY <1>2
    <3>2. QED BY <1>1, <1>2, <2>3, <3>1 DEF AckDue
  <2>4. QED BY <2>1, <2>2, <2>3
<1>7. ASSUME NEW q \in Panel, q # p PROVE ~Mine(q, i)
  BY <1>7 DEF MaySend, NewId, IInv, Owned, Mine
<1>8. ~AckDue(p, i)
  BY DEF MaySend, NewId, IInv, Owned, Mine, DueIsUnanswered
<1>9. ASSUME NEW q \in Panel, q # p, NEW j \in Id
      PROVE  (AckDue(q, j)' <=> AckDue(q, j)) /\ (Mine(q, j)' <=> Mine(q, j))
  <2>1. AckDue(q, j)' <=> AckDue(q, j) BY <1>3, <1>9, SameAcks
  <2>2. QED BY <1>3, <1>9, <2>1 DEF Mine
<1>10. ASSUME NEW j \in Id PROVE Mine(p, j)' <=> (Mine(p, j) \/ j = i)
  BY <1>4, <1>6 DEF Mine
<1>11. LastIsActive'
  <2> SUFFICES ASSUME NEW q \in Panel, active'[q] \in Id
               PROVE  IF acks'[q] = <<>> THEN watch'[q].id = active'[q]
                      ELSE acks'[q][Len(acks'[q])].id = active'[q]
    BY DEF LastIsActive
  <2>1. CASE q = p BY <1>1, <1>2, <1>4, <2>1
  <2>2. CASE q # p BY <1>3, <2>2 DEF IInv, LastIsActive
  <2>3. QED BY <2>1, <2>2
<1>12. Owned'
  <2> SUFFICES ASSUME NEW q \in Panel, NEW j \in Id, Mine(q, j)'
               PROVE  flight'[j] # "unsent" /\ \A r \in Panel : Mine(r, j)' => r = q
    BY DEF Owned
  <2>1. CASE j = i BY <1>5, <1>7, <1>9, <2>1
  <2>2. CASE j # i
    <3>1. \A r \in Panel : Mine(r, j)' => Mine(r, j) BY <1>9, <1>10, <2>2
    <3>2. QED BY <1>5, <2>2, <3>1 DEF IInv, Owned
  <2>3. QED BY <2>1, <2>2
<1>13. DueIsUnanswered'
  <2> SUFFICES ASSUME NEW q \in Panel, NEW j \in Id, AckDue(q, j)' PROVE ~shown'[q][j].auth
    BY DEF DueIsUnanswered
  <2>1. CASE q = p /\ j = i BY <1>4, <2>1
  <2>2. CASE q = p /\ j # i BY <1>4, <1>6, <2>2 DEF IInv, DueIsUnanswered
  <2>3. CASE q # p BY <1>3, <1>9, <2>3 DEF IInv, DueIsUnanswered
  <2>4. QED BY <2>1, <2>2, <2>3
<1>14. ASSUME NEW q \in Panel, NEW n \in 1..Len(acks'[q]), UnderWay(acks[q][n].id)'
       PROVE  acks'[q][n].worker = worker'
  <2>1. CASE q = p
    <3>1. CASE n = Len(acks[p]) + 1
      BY <1>1, <1>2, <1>5, <1>14, <2>1, <3>1 DEF UnderWay
    <3>2. CASE n # Len(acks[p]) + 1
      <4>1. n \in 1..Len(acks[p]) BY <1>2, <2>1, <3>2
      <4>2. acks[p][n].id \in Id
        <5>1. acks[p][n] \in Answer BY <1>2, <4>1
        <5>2. QED BY <5>1 DEF Answer
      <4>3. AckDue(p, acks[p][n].id) BY <4>1 DEF AckDue
      <4>4. acks[p][n].id # i BY <1>8, <4>3
      <4>5. acks'[p][n] = acks[p][n] BY <1>2, <4>1
      <4>6. UnderWay(acks[p][n].id) BY <1>5, <1>14, <2>1, <4>2, <4>4, <4>5 DEF UnderWay
      <4>7. QED BY <2>1, <4>1, <4>5, <4>6 DEF IInv, WorkerKnown
    <3>3. QED BY <3>1, <3>2
  <2>2. CASE q # p
    <3>1. acks'[q] = acks[q] BY <1>3, <2>2
    <3>2. acks[q][n].id \in Id
      <4>1. acks[q][n] \in Answer BY <3>1, SMTT(30) DEF IInv, Typed
      <4>2. QED BY <4>1 DEF Answer
    <3>3. AckDue(q, acks[q][n].id) BY <1>14, <3>1 DEF AckDue
    <3>4. acks[q][n].id # i BY <1>7, <2>2, <3>3 DEF Mine
    <3>5. UnderWay(acks[q][n].id) BY <1>5, <1>14, <3>1, <3>2, <3>4 DEF UnderWay
    <3>6. QED BY <1>14, <3>1, <3>5 DEF IInv, WorkerKnown
  <2>3. QED BY <2>1, <2>2
<1>15. ASSUME NEW q \in Panel, NEW j \in Id, watch'[q].id = j, ~AckDue(q, j)', UnderWay(j)'
       PROVE  watch'[q].worker = worker'
  <2>1. j # i BY <1>6, <1>7, <1>15 DEF Mine
  <2>2. ~AckDue(q, j) BY <1>6, <1>9, <1>15
  <2>3. UnderWay(j) BY <1>5, <1>15, <2>1 DEF UnderWay
  <2>4. QED BY <1>15, <2>2, <2>3 DEF IInv, WorkerKnown
<1>16. WorkerKnown' BY <1>14, <1>15 DEF WorkerKnown
<1>17. ReplayedIsIdle'
  <2> SUFFICES ASSUME NEW q \in Panel, NEW j \in retries'[q], shown'[q][j].auth
               PROVE  ~UnderWay(j)'
    BY DEF ReplayedIsIdle
  <2>1. j \in Id
    BY SendTypes
  <2>2. j # i /\ j \in retries[q] /\ shown[q][j].auth
    <3>1. CASE q = p BY <1>4, <2>1, <3>1
    <3>2. CASE q # p BY <1>3, <1>7, <3>2 DEF Mine
    <3>3. QED BY <3>1, <3>2
  <2>3. QED BY <1>5, <2>1, <2>2 DEF IInv, ReplayedIsIdle, UnderWay
<1>18. QED BY <1>11, <1>12, <1>13, <1>16, <1>17

-----------------------------------------------------------------------------
(* The acknowledgement: its request is watched from here on.               *)

LEMMA AckKeeps ==
    ASSUME IInv, NEW p \in Panel, Ack(p)
    PROVE  (LastIsActive /\ Owned /\ DueIsUnanswered /\ WorkerKnown /\ ReplayedIsIdle)'
<1> DEFINE h == Head(acks[p])
<1> USE DEF IInv
<1>1. /\ acks[p] \in Seq(Answer) /\ acks[p] # <<>>
      /\ acks'[p] = Tail(acks[p]) /\ watch'[p] = h
      /\ \A q \in Panel : q # p => acks'[q] = acks[q] /\ watch'[q] = watch[q]
  BY DEF Typed, Ack, StartRequestWatch
<1>2. /\ Len(acks[p]) \in Nat \ {0} /\ Len(acks'[p]) = Len(acks[p]) - 1
      /\ h = acks[p][1] /\ h \in Answer
      /\ \A n \in 1..Len(acks'[p]) : n + 1 \in 1..Len(acks[p]) /\ acks'[p][n] = acks[p][n + 1]
  BY <1>1
<1>3. UNCHANGED <<active, shown, retries, worker, flight>> BY DEF Ack, net
<1>4. ASSUME NEW j \in Id PROVE AckDue(p, j) <=> (h.id = j \/ AckDue(p, j)')
  <2>1. ASSUME AckDue(p, j) PROVE h.id = j \/ AckDue(p, j)'
    <3>1. PICK n \in 1..Len(acks[p]) : acks[p][n].id = j BY <2>1 DEF AckDue
    <3>2. CASE n = 1 BY <1>2, <3>1, <3>2
    <3>3. CASE n # 1
      <4>1. n - 1 \in 1..Len(acks'[p]) /\ (n - 1) + 1 = n BY <1>2, <3>3
      <4>2. acks'[p][n - 1].id = j BY <1>2, <3>1, <4>1
      <4>3. QED BY <4>1, <4>2 DEF AckDue
    <3>4. QED BY <3>2, <3>3
  <2>2. ASSUME h.id = j PROVE AckDue(p, j)
    <3>1. 1 \in 1..Len(acks[p]) BY <1>2
    <3>2. QED BY <1>2, <2>2, <3>1 DEF AckDue
  <2>3. ASSUME AckDue(p, j)' PROVE AckDue(p, j)
    <3>1. PICK n \in 1..Len(acks'[p]) : acks'[p][n].id = j BY <2>3 DEF AckDue
    <3>2. n + 1 \in 1..Len(acks[p]) /\ acks[p][n + 1].id = j BY <1>2, <3>1
    <3>3. QED BY <3>2 DEF AckDue
  <2>4. QED BY <2>1, <2>2, <2>3
<1>5. ASSUME NEW q \in Panel, q # p, NEW j \in Id PROVE AckDue(q, j)' <=> AckDue(q, j)
  BY <1>1, <1>5, SameAcks
<1>6. ASSUME NEW q \in Panel, NEW j \in Id, Mine(q, j)' PROVE Mine(q, j)
  <2>1. CASE q = p BY <1>1, <1>3, <1>4, <1>6, <2>1 DEF Mine
  <2>2. CASE q # p BY <1>1, <1>3, <1>5, <1>6, <2>2 DEF Mine
  <2>3. QED BY <2>1, <2>2
<1>7. LastIsActive'
  <2> SUFFICES ASSUME NEW q \in Panel, active[q] \in Id
               PROVE  IF acks'[q] = <<>> THEN watch'[q].id = active[q]
                      ELSE acks'[q][Len(acks'[q])].id = active[q]
    BY <1>3 DEF LastIsActive
  <2>1. CASE q # p BY <1>1, <2>1 DEF LastIsActive
  <2>2. CASE q = p
    <3>1. acks[p][Len(acks[p])].id = active[p] BY <1>1, <2>2 DEF LastIsActive
    <3>2. CASE acks'[p] = <<>>
      <4>1. Len(acks[p]) = 1 BY <1>2, <3>2
      <4>2. QED BY <1>1, <1>2, <2>2, <3>1, <3>2, <4>1
    <3>3. CASE acks'[p] # <<>>
      <4>1. acks'[p] \in Seq(Answer) BY <1>1
      <4>2. Len(acks'[p]) \in 1..Len(acks'[p]) BY <3>3, <4>1
      <4>3. acks'[p][Len(acks'[p])] = acks[p][Len(acks'[p]) + 1] BY <1>2, <4>2
      <4>4. Len(acks'[p]) + 1 = Len(acks[p]) BY <1>2
      <4>5. QED BY <2>2, <3>1, <3>3, <4>3, <4>4
    <3>4. QED BY <3>2, <3>3
  <2>3. QED BY <2>1, <2>2
<1>8. Owned' BY <1>3, <1>6 DEF Owned
<1>9. DueIsUnanswered' BY <1>3, <1>4, <1>5 DEF DueIsUnanswered
<1>10. WorkerKnown'
  <2> SUFFICES ASSUME NEW q \in Panel
               PROVE  /\ \A n \in 1..Len(acks'[q]) :
                            UnderWay(acks'[q][n].id) => acks'[q][n].worker = worker
                      /\ \A j \in Id : watch'[q].id = j /\ ~AckDue(q, j)' /\ UnderWay(j)
                            => watch'[q].worker = worker
    BY <1>3 DEF WorkerKnown, UnderWay
  <2>1. CASE q # p BY <1>1, <1>5, <2>1 DEF WorkerKnown
  <2>2. CASE q = p
    <3>1. \A n \in 1..Len(acks'[p]) : UnderWay(acks'[p][n].id) => acks'[p][n].worker = worker
      BY <1>2, SMTT(30) DEF WorkerKnown
    <3>2. 1 \in 1..Len(acks[p]) BY <1>2
    <3>3. UnderWay(h.id) => h.worker = worker BY <1>2, <3>2 DEF WorkerKnown
    <3>4. QED BY <1>1, <2>2, <3>1, <3>3
  <2>3. QED BY <2>1, <2>2
<1>11. ReplayedIsIdle' BY <1>3 DEF ReplayedIsIdle, UnderWay
<1>12. QED BY <1>7, <1>8, <1>9, <1>10, <1>11

-----------------------------------------------------------------------------
(* Types, and the panels that do not listen.                               *)

LEMMA MessageTypes ==
    ASSUME NEW m \in Message
    PROVE  /\ Settled(m) \in Message /\ Settled(m).auth = m.auth
           /\ Extended(m) \in Message /\ Extended(m).auth = m.auth
           /\ Failed(m) \in Message /\ ~Failed(m).auth
           /\ Expired(m) \in Message
           /\ Absent \in Message /\ ~Absent.auth
<1>1. Failed(m) \in Message /\ ~Failed(m).auth BY DEF Failed, Message
<1>2. Expired(m) \in Message BY <1>1 DEF Expired, Message
<1>3. Settled(m) \in Message /\ Settled(m).auth = m.auth BY DEF Settled, Message
<1>4. Extended(m) \in Message /\ Extended(m).auth = m.auth BY DEF Extended, Message
<1>5. Absent \in Message /\ ~Absent.auth BY DEF Absent, Message
<1>6. QED BY <1>1, <1>2, <1>3, <1>4, <1>5

LEMMA UnlockTypes ==
    ASSUME Typed, NEW P \in SUBSET Panel, Unlock(P)
    PROVE  /\ active' \in [Panel -> Id \cup {None, Pending}]
           /\ watch' \in [Panel -> Entry]
           /\ \A p \in Panel :
                 /\ p \in P => active'[p] = None /\ watch'[p] = NoWatch
                 /\ p \notin P => active'[p] = active[p] /\ watch'[p] = watch[p]
<1>1. NoWatch \in Entry BY DEF NoWatch, Entry
<1>2. QED BY <1>1 DEF Typed, Unlock

\* The request of a panel, abandoned.
LEMMA AbandonTypes ==
    ASSUME Typed, NEW p \in Panel, shown' = AbandonShown(p)
    PROVE  /\ shown' \in [Panel -> [Id -> Message]]
           /\ \A q \in Panel, i \in Id : shown'[q][i].auth = shown[q][i].auth
<1>1. \A i \in Id : /\ shown[p][i] \in Message /\ Settled(shown[p][i]) \in Message
                    /\ Settled(shown[p][i]).auth = shown[p][i].auth
  BY MessageTypes DEF Typed
<1>2. QED BY <1>1 DEF Typed, AbandonShown

-----------------------------------------------------------------------------
(* The steps that send nothing, one lemma for each kind of step.           *)

LEMMA Documents ==
    ASSUME IInv, NEW p \in Panel, Open(p) \/ Close(p) \/ Load(p) \/ PanelReady(p)
    PROVE  IInv'
<1> USE DEF IInv
<1>1. CASE Open(p)
  <2>1. Typed' BY <1>1 DEF Open, Typed, Phase, menu, net
  <2>2. Silent' BY <1>1 DEF Open, Typed, Silent, Quiet, Listens
  <2>3. (\A q \in Panel : Recedes(q)) /\ NoTakeOff /\ \A q \in Panel, i \in Id : AuthHasCause(q, i)
    BY <1>1 DEF Open, Recedes, NoTakeOff, AuthHasCause, UnderWay, net
  <2>4. QED BY <2>1, <2>2, <2>3, RecedeKeeps
<1>2. CASE Close(p)
  <2> USE <1>2 DEF Close, Fresh
  <2>1. Absent \in Message /\ NoWatch \in Entry /\ ~Absent.auth
    BY DEF Absent, Message, NoWatch, Entry
  <2>2. Typed' BY <2>1 DEF Typed, Phase, menu, net
  <2>3. Silent' BY DEF Typed, Silent, Quiet, Listens
  <2>4. (\A q \in Panel : Recedes(q)) /\ NoTakeOff BY DEF Typed, Recedes, NoTakeOff, UnderWay, net
  <2>5. \A q \in Panel, i \in Id : AuthHasCause(q, i) BY <2>1 DEF Typed, AuthHasCause
  <2>6. QED BY <2>2, <2>3, <2>4, <2>5, RecedeKeeps
<1>3. CASE Load(p)
  <2> USE <1>3 DEF Load
  <2>1. Typed' BY DEF Typed, Phase, menu, net
  <2>2. Silent' BY DEF Typed, Silent, Quiet, Listens
  <2>3. (\A q \in Panel : Recedes(q)) /\ NoTakeOff BY DEF Recedes, NoTakeOff, UnderWay, net
  <2>4. \A q \in Panel, i \in Id : AuthHasCause(q, i)
    <3>1. retries[p] = {} /\ acks[p] = <<>> BY DEF Silent, Quiet, Listens
    <3>2. QED BY <3>1 DEF Typed, AuthHasCause
  <2>5. QED BY <2>1, <2>2, <2>3, <2>4, RecedeKeeps
<1>4. CASE PanelReady(p)
  <2> USE <1>4 DEF PanelReady
  <2>1. Unlock({p}) \/ UNCHANGED <<active, watch>> BY DEF ApplyStatus
  <2>2. /\ active' \in [Panel -> Id \cup {None, Pending}] /\ watch' \in [Panel -> Entry]
        /\ \A q \in Panel : \/ active'[q] = active[q] /\ watch'[q] = watch[q]
                            \/ q = p /\ active'[q] = None /\ watch'[q] = NoWatch
    <3>1. CASE Unlock({p}) BY <3>1, UnlockTypes
    <3>2. CASE UNCHANGED <<active, watch>> BY <3>2 DEF Typed
    <3>3. QED BY <2>1, <3>1, <3>2
  <2>3. phase' \in [Panel -> Phase] /\ gets' \in [Panel -> Nat] BY DEF Typed, Phase
  <2>4. Typed' BY <2>2, <2>3 DEF Typed, menu, net
  <2>5. Silent' BY <2>2 DEF Typed, Silent, Quiet, Listens
  <2>6. (\A q \in Panel : Recedes(q)) /\ NoTakeOff /\ \A q \in Panel, i \in Id : AuthHasCause(q, i)
    BY <2>2 DEF Recedes, NoTakeOff, AuthHasCause, UnderWay, net
  <2>7. QED BY <2>4, <2>5, <2>6, RecedeKeeps
<1>5. QED BY <1>1, <1>2, <1>3, <1>4

\* An await, an action of the menu or a stash read: no request is touched.
LEMMA Waits ==
    ASSUME IInv,
           \/ StashWritten
           \/ \E p \in Panel : SendChatReads(p) \/ ClickMenu(p) \/ DrainReads(p)
    PROVE  IInv'
<1> USE DEF IInv
<1>1. UNCHANGED <<active, shown, watch, acks, retries, net, flight>>
  BY DEF SendChatReads, ClickMenu, StashWritten, DrainReads
<1>2. (\A q \in Panel : Recedes(q)) /\ NoTakeOff /\ \A q \in Panel, i \in Id : AuthHasCause(q, i)
  BY <1>1 DEF Recedes, NoTakeOff, AuthHasCause, UnderWay, net
<1>3. Typed' /\ Silent'
  <2>1. CASE \E p \in Panel : SendChatReads(p)
    BY <2>1, SMTT(30) DEF SendChatReads, Typed, Silent, Quiet, Listens, menu, net
  <2>2. ASSUME NEW p \in Panel, ClickMenu(p) PROVE Typed' /\ Silent'
    <3>1. /\ phase' \in [Panel -> Phase] /\ clicks' \in Nat
          /\ \A q \in Panel : phase'[q] = phase[q] \/ (~Listens(q) /\ ~Listens(q)')
      BY <2>2 DEF ClickMenu, Typed, Phase, Listens
    <3>2. Typed' BY <2>2, <3>1 DEF ClickMenu, Typed, net
    <3>3. Silent' BY <2>2, <3>1 DEF ClickMenu, Silent, Quiet, Listens
    <3>4. QED BY <3>2, <3>3
  <2>3. CASE StashWritten
    BY <2>3 DEF StashWritten, Typed, Silent, Quiet, Listens, Hearers, net
  <2>4. ASSUME NEW p \in Panel, DrainReads(p) PROVE Typed' /\ Silent'
    <3>1. Listens(p) BY <2>4 DEF DrainReads, Silent, Quiet, Typed
    <3>2. taken' \in [Panel -> Seq(Nat)] /\ gets' \in [Panel -> Nat] BY <2>4 DEF DrainReads, Typed
    <3>3. \A q \in Panel : q # p => taken'[q] = taken[q] /\ gets'[q] = gets[q]
      BY <2>4 DEF DrainReads, Typed
    <3>4. Typed' BY <2>4, <3>2 DEF DrainReads, Typed, menu, net
    <3>5. QED BY <2>4, <3>1, <3>3, <3>4 DEF DrainReads, Silent, Quiet, Listens
  <2>5. QED BY <2>1, <2>2, <2>3, <2>4
<1>4. QED BY <1>2, <1>3, RecedeKeeps

LEMMA GivesUp ==
    ASSUME IInv, NEW p \in Panel,
           CancelActive(p) \/ EraseConversation(p) \/ Deadline(p) \/ HeartbeatFails(p)
    PROVE  IInv'
<1> USE DEF IInv
<1>1. /\ Unlock({p}) /\ disk' = shown'[p]
      /\ UNCHANGED <<phase, acks, reading, gets, taken, menu, net, flight>>
  BY DEF CancelActive, EraseConversation, Deadline, HeartbeatFails, FailActiveRequest
<1>2. /\ active' \in [Panel -> Id \cup {None, Pending}] /\ watch' \in [Panel -> Entry]
      /\ active'[p] = None /\ watch'[p] = NoWatch
      /\ \A q \in Panel : q # p => active'[q] = active[q] /\ watch'[q] = watch[q]
  BY <1>1, UnlockTypes
<1>3. /\ retries' \in [Panel -> SUBSET Id] /\ retries'[p] \subseteq retries[p]
      /\ \A q \in Panel : q # p => retries'[q] = retries[q]
  <2>1. CASE CancelActive(p) BY <2>1 DEF CancelActive, Typed
  <2>2. CASE EraseConversation(p) BY <2>2 DEF EraseConversation, Typed
  <2>3. CASE Deadline(p) \/ HeartbeatFails(p)
    BY <2>3 DEF Deadline, HeartbeatFails, FailActiveRequest, Typed
  <2>4. QED BY <2>1, <2>2, <2>3
<1>4. /\ shown' \in [Panel -> [Id -> Message]]
      /\ \A q \in Panel, i \in Id : shown'[q][i].auth => shown[q][i].auth
  <2>1. CASE EraseConversation(p)
    <3>1. Absent \in Message /\ ~Absent.auth BY DEF Absent, Message
    <3>2. QED BY <2>1, <3>1 DEF EraseConversation, Typed
  <2>2. CASE ~EraseConversation(p)
    <3>1. shown' = AbandonShown(p)
      BY <2>2 DEF CancelActive, Deadline, HeartbeatFails, FailActiveRequest
    <3>2. QED BY <3>1, AbandonTypes
  <2>3. QED BY <2>1, <2>2
<1>5. Typed' BY <1>1, <1>2, <1>3, <1>4 DEF Typed, menu, net
<1>6. Silent' BY <1>1, <1>2, <1>3 DEF Silent, Quiet, Listens
<1>7. (\A q \in Panel : Recedes(q)) /\ NoTakeOff
  BY <1>1, <1>2, <1>3 DEF Recedes, NoTakeOff, UnderWay, net
<1>8. \A q \in Panel, i \in Id : AuthHasCause(q, i) BY <1>4 DEF AuthHasCause
<1>9. QED BY <1>5, <1>6, <1>7, <1>8, RecedeKeeps

\* A chunk or a terminal, at all the panels that listen.
LEMMA Heard ==
    ASSUME IInv, NEW i \in Id, Chunk(i) \/ Done(i) \/ Error(i) \/ AuthRequired(i)
    PROVE  IInv'
<1> USE DEF IInv
<1>1. \A q \in Panel, j \in Id :
         /\ Settled(shown[q][j]) \in Message /\ Settled(shown[q][j]).auth = shown[q][j].auth
         /\ Extended(shown[q][j]) \in Message /\ Extended(shown[q][j]).auth = shown[q][j].auth
         /\ Failed(shown[q][j]) \in Message /\ ~Failed(shown[q][j]).auth
         /\ Expired(shown[q][j]) \in Message
  <2> TAKE q \in Panel, j \in Id
  <2>1. shown[q][j] \in Message BY DEF Typed
  <2>2. QED BY <2>1, MessageTypes
<1>2. CASE Chunk(i)
  <2> USE <1>2 DEF Chunk
  <2>1. /\ shown' \in [Panel -> [Id -> Message]]
        /\ \A q \in Panel, j \in Id : shown'[q][j].auth = shown[q][j].auth
    BY <1>1 DEF Shows, Typed
  <2>2. Typed' BY <2>1 DEF Typed, menu, net
  <2>3. Silent' BY DEF Silent, Quiet, Listens
  <2>4. (\A q \in Panel : Recedes(q)) /\ NoTakeOff /\ \A q \in Panel, j \in Id : AuthHasCause(q, j)
    BY <2>1 DEF Recedes, NoTakeOff, AuthHasCause, UnderWay, net
  <2>5. QED BY <2>2, <2>3, <2>4, RecedeKeeps
<1>3. CASE Done(i) \/ Error(i) \/ AuthRequired(i)
  <2>1. /\ Ends(i) /\ UnderWay(i) /\ Acked(i)
        /\ UNCHANGED <<phase, acks, reading, gets, taken, menu, net>>
    BY <1>3 DEF Done, Error, AuthRequired, UnderWay
  <2>2. /\ active' \in [Panel -> Id \cup {None, Pending}] /\ watch' \in [Panel -> Entry]
        /\ \A q \in Panel :
              \/ active'[q] = active[q] /\ watch'[q] = watch[q]
              \/ Listens(q) /\ active'[q] = None /\ watch'[q] = NoWatch
    <3>1. {q \in Panel : Listens(q) /\ active[q] = i} \in SUBSET Panel OBVIOUS
    <3>2. Unlock({q \in Hearers : active[q] = i}) BY <2>1 DEF Ends
    <3>3. {q \in Hearers : active[q] = i} \in SUBSET Panel BY DEF Hearers
    <3>4. QED BY <3>2, <3>3, UnlockTypes DEF Hearers
  <2>3. /\ retries' \in [Panel -> SUBSET Id]
        /\ \A q \in Panel : retries'[q] \subseteq retries[q]
    <3>1. CASE AuthRequired(i) BY <3>1 DEF AuthRequired, Typed
    <3>2. CASE Done(i) \/ Error(i)
      <4>1. retries' = [q \in Panel |-> IF q \in Hearers THEN retries[q] \ {i} ELSE retries[q]]
        BY <3>2 DEF Done, Error
      <4>2. QED BY <4>1 DEF Typed
    <3>3. QED BY <1>3, <3>1, <3>2
  <2>4. /\ shown' \in [Panel -> [Id -> Message]]
        /\ \A q \in Panel, j \in Id : shown'[q][j].auth => shown[q][j].auth \/ j = i
    <3>1. CASE Done(i)
      <4>1. Shows(i, Settled) BY <3>1 DEF Done
      <4>2. QED BY <1>1, <4>1 DEF Shows, Typed
    <3>2. CASE Error(i)
      <4>1. Shows(i, Failed) BY <3>2 DEF Error
      <4>2. QED BY <1>1, <4>1 DEF Shows, Typed
    <3>3. CASE AuthRequired(i)
      <4>1. Shows(i, Expired) BY <3>3 DEF AuthRequired
      <4>2. QED BY <1>1, <4>1 DEF Shows, Typed
    <3>4. QED BY <1>3, <3>1, <3>2, <3>3
  <2>5. disk' \in [Id -> Message]
    <3>1. CASE disk' = disk BY <3>1 DEF Typed
    <3>2. CASE \E q \in Hearers : disk' = shown'[q] BY <2>4, <3>2 DEF Hearers
    <3>3. QED BY <2>1, <3>1, <3>2 DEF Ends
  <2>6. /\ flight' \in [Id -> Flight] /\ flight'[i] = "over"
        /\ \A j \in Id : j # i => flight'[j] = flight[j]
    BY <2>1 DEF Ends, Typed, Flight
  <2>7. Typed' BY <2>1, <2>2, <2>3, <2>4, <2>5, <2>6 DEF Typed, menu, net
  <2>8. Silent' BY <2>1, <2>2, <2>3 DEF Silent, Quiet, Listens
  <2>9. \A q \in Panel : Recedes(q) BY <2>1, <2>2, <2>3 DEF Recedes
  <2>10. NoTakeOff BY <2>1, <2>6 DEF NoTakeOff, UnderWay, net
  <2>11. \A q \in Panel, j \in Id : AuthHasCause(q, j)
    <3>1. ~UnderWay(i)' BY <2>6 DEF UnderWay
    <3>2. \A q \in Panel : ~AckDue(q, i)' BY <2>1 DEF Acked, AckDue
    <3>3. QED BY <2>4, <3>1, <3>2 DEF AuthHasCause
  <2>12. QED BY <2>7, <2>8, <2>9, <2>10, <2>11, RecedeKeeps
<1>4. QED BY <1>2, <1>3

LEMMA Network ==
    ASSUME IInv, Drop \/ StillDown \/ Reconnect \/ KillWorker
    PROVE  IInv'
<1> USE DEF IInv
<1>1. CASE Drop \/ StillDown
  <2>1. /\ Unlock(Hearers)
        /\ UNCHANGED <<phase, shown, acks, retries, reading, gets, taken, disk, menu, worker>>
        /\ \/ flight' = [i \in Id |-> IF flight[i] = "flying" THEN "lost" ELSE flight[i]]
           \/ flight' = flight
    BY <1>1 DEF Drop, StillDown, ApplyStatus, net
  <2>2. /\ active' \in [Panel -> Id \cup {None, Pending}] /\ watch' \in [Panel -> Entry]
        /\ \A q \in Panel :
              \/ active'[q] = active[q] /\ watch'[q] = watch[q]
              \/ Listens(q) /\ active'[q] = None /\ watch'[q] = NoWatch
    <3>1. Hearers \in SUBSET Panel BY DEF Hearers
    <3>2. QED BY <2>1, <3>1, UnlockTypes DEF Hearers
  <2>3. /\ flight' \in [Id -> Flight]
        /\ \A i \in Id : \/ flight'[i] = flight[i]
                         \/ flight'[i] = "lost"
    BY <2>1 DEF Typed, Flight
  <2>4. Typed' BY <2>1, <2>2, <2>3 DEF Typed, menu
  <2>5. Silent' BY <2>1, <2>2 DEF Silent, Quiet, Listens
  <2>6. \A q \in Panel : Recedes(q) BY <2>1, <2>2 DEF Recedes
  <2>7. NoTakeOff BY <2>1, <2>3 DEF NoTakeOff, UnderWay
  <2>8. \A q \in Panel, i \in Id : AuthHasCause(q, i) BY <2>1 DEF AuthHasCause
  <2>9. QED BY <2>4, <2>5, <2>6, <2>7, <2>8, RecedeKeeps
<1>2. CASE Reconnect \/ KillWorker
  <2>1. UNCHANGED <<doc, disk>> BY <1>2 DEF Reconnect, KillWorker
  <2>2. /\ flight' \in [Id -> Flight]
        /\ \A i \in Id : /\ flight[i] # "unsent" => flight'[i] # "unsent"
                         /\ UnderWay(i)' => UnderWay(i) /\ worker' = worker
    BY <1>2 DEF Reconnect, KillWorker, UnderWay, Typed, Flight
  <2>3. stash' \in Nat /\ clicks' \in Nat /\ stashed' \in Nat /\ worker' \in Nat
    <3>1. CASE Reconnect BY <3>1 DEF Reconnect, Typed, menu
    <3>2. CASE KillWorker
      <4>1. \A n \in (stashed + 1)..clicks : n \in Nat BY DEF Typed
      <4>2. QED BY <3>2, <4>1 DEF KillWorker, Typed
    <3>3. QED BY <1>2, <3>1, <3>2
  <2>4. Typed' BY <2>1, <2>2, <2>3 DEF Typed, doc
  <2>5. Silent' BY <2>1 DEF Silent, Quiet, Listens, doc
  <2>6. (\A q \in Panel : Recedes(q)) /\ \A q \in Panel, i \in Id : AuthHasCause(q, i)
    BY <2>1 DEF Recedes, AuthHasCause, doc
  <2>7. NoTakeOff BY <2>2 DEF NoTakeOff
  <2>8. QED BY <2>4, <2>5, <2>6, <2>7, RecedeKeeps
<1>3. QED BY <1>1, <1>2

-----------------------------------------------------------------------------
(* The steps that may send, and what they do when they do not.             *)

\* Every caller of Sends, but for its own variables.
LEMMA Sending ==
    ASSUME IInv, NEW p \in Panel, NEW i \in Id, Sends(p, i), MaySend(p, i), Listens(p),
           UNCHANGED <<phase, watch, gets, clicks, stashed, net>>,
           chats' \in [Panel -> Nat], summaries' \in [Panel -> Nat], transcripts' \in [Panel -> Nat],
           taken' \in [Panel -> Seq(Nat)], stash' \in Nat,
           \A q \in Panel : q # p =>
              /\ chats'[q] = chats[q] /\ summaries'[q] = summaries[q]
              /\ transcripts'[q] = transcripts[q] /\ taken'[q] = taken[q]
    PROVE  IInv'
<1>1. (LastIsActive /\ Owned /\ DueIsUnanswered /\ WorkerKnown /\ ReplayedIsIdle)'
  BY SendKeeps DEF net
<1>2. Typed' BY SendTypes DEF IInv, Typed, net
<1>3. Silent'
  <2> SUFFICES ASSUME NEW q \in Panel, ~Listens(q)' PROVE Quiet(q)' BY DEF Silent
  <2>1. q # p /\ ~Listens(q) BY DEF Listens
  <2>2. Quiet(q) BY <2>1 DEF IInv, Silent
  <2>3. active'[q] = active[q] /\ acks'[q] = acks[q] /\ retries'[q] = retries[q]
    BY <2>1, SendTypes
  <2>4. QED BY <2>1, <2>2, <2>3 DEF Quiet
<1>4. QED BY <1>1, <1>2, <1>3 DEF IInv

\* A step of p that unlocks it, locks it for summarize, or changes nothing of
\* its request.
LEMMA Settling ==
    ASSUME IInv, NEW p \in Panel, Listens(p),
           \/ Unlock({p})
           \/ active' = [active EXCEPT ![p] = Pending] /\ watch' = watch
           \/ UNCHANGED <<active, watch>>,
           UNCHANGED <<phase, shown, acks, retries, gets, disk, clicks, stashed, net, flight>>,
           chats' \in [Panel -> Nat], summaries' \in [Panel -> Nat], transcripts' \in [Panel -> Nat],
           taken' \in [Panel -> Seq(Nat)], stash' \in Nat,
           \A q \in Panel : q # p =>
              /\ chats'[q] = chats[q] /\ summaries'[q] = summaries[q]
              /\ transcripts'[q] = transcripts[q] /\ taken'[q] = taken[q]
    PROVE  IInv'
<1> USE DEF IInv
<1>1. /\ active' \in [Panel -> Id \cup {None, Pending}] /\ watch' \in [Panel -> Entry]
      /\ \A q \in Panel : q # p => active'[q] = active[q] /\ watch'[q] = watch[q]
      /\ \/ active'[p] \in {None, Pending} /\ watch'[p] \in {watch[p], NoWatch}
         \/ active'[p] = active[p] /\ watch'[p] = watch[p]
  <2>1. CASE Unlock({p}) BY <2>1, UnlockTypes
  <2>2. CASE active' = [active EXCEPT ![p] = Pending] /\ watch' = watch BY <2>2 DEF Typed
  <2>3. CASE UNCHANGED <<active, watch>> BY <2>3 DEF Typed
  <2>4. QED BY <2>1, <2>2, <2>3
<1>2. Typed' BY <1>1 DEF Typed, net
<1>3. Silent' BY <1>1 DEF Silent, Quiet, Listens
<1>4. (\A q \in Panel : Recedes(q)) /\ NoTakeOff /\ \A q \in Panel, i \in Id : AuthHasCause(q, i)
  BY <1>1 DEF Recedes, NoTakeOff, AuthHasCause, UnderWay, net
<1>5. QED BY <1>2, <1>3, <1>4, RecedeKeeps

\* The steps of a panel that has called, or may call, Sends.
LEMMA Senders ==
    ASSUME IInv, NEW p \in Panel,
           \/ \E i \in Id : SendChat(p, i) \/ Retry(p, i)
           \/ SendChatGoesOn(p) \/ Summarize(p) \/ SummarizeGoesOn(p) \/ TranscriptOpened(p)
           \/ DrainRuns(p)
    PROVE  IInv'
<1>1. /\ chats \in [Panel -> Nat] /\ summaries \in [Panel -> Nat] /\ transcripts \in [Panel -> Nat]
      /\ taken \in [Panel -> Seq(Nat)] /\ stash \in Nat
  BY DEF IInv, Typed
<1>2. CASE \E i \in Id : SendChat(p, i) \/ Retry(p, i)
  <2>1. PICK i \in Id : SendChat(p, i) \/ Retry(p, i) BY <1>2
  <2>2. /\ Sends(p, i) /\ MaySend(p, i) /\ Listens(p)
        /\ UNCHANGED <<phase, watch, reading, gets, taken, menu, net>>
    BY <2>1 DEF SendChat, Retry, MaySend
  <2>3. QED BY <1>1, <2>2, Sending DEF menu
<1>3. CASE SendChatGoesOn(p)
  <2>1. Listens(p) BY <1>3 DEF SendChatGoesOn, IInv, Typed, Silent, Quiet
  <2>2. chats' \in [Panel -> Nat] /\ \A q \in Panel : q # p => chats'[q] = chats[q]
    BY <1>1, <1>3 DEF SendChatGoesOn
  <2>3. UNCHANGED <<phase, watch, summaries, transcripts, gets, taken, menu, net>>
    BY <1>3 DEF SendChatGoesOn
  <2>4. CASE \E i \in Id : NewId(i) /\ Sends(p, i)
    BY <1>1, <2>1, <2>2, <2>3, <2>4, Sending DEF MaySend, menu
  <2>5. CASE UNCHANGED <<active, shown, acks, retries, disk, flight>>
    BY <1>1, <2>1, <2>2, <2>3, <2>5, Settling DEF menu
  <2>6. QED BY <1>3, <2>4, <2>5 DEF SendChatGoesOn
<1>4. CASE Summarize(p)
  <2>1. /\ Listens(p)
        /\ UNCHANGED <<phase, shown, acks, retries, chats, transcripts, gets, taken, disk, menu, net, flight>>
    BY <1>4 DEF Summarize
  <2>2. CASE /\ active' = [active EXCEPT ![p] = Pending] /\ watch' = watch
             /\ summaries' = [summaries EXCEPT ![p] = @ + 1]
    <3>1. summaries' \in [Panel -> Nat] /\ \A q \in Panel : q # p => summaries'[q] = summaries[q]
      BY <1>1, <2>2
    <3>2. QED BY <1>1, <2>1, <2>2, <3>1, Settling DEF menu
  <2>3. CASE Unlock({p}) /\ UNCHANGED summaries
    BY <1>1, <2>1, <2>3, Settling DEF menu
  <2>4. QED BY <1>4, <2>2, <2>3 DEF Summarize
<1>5. CASE SummarizeGoesOn(p) \/ TranscriptOpened(p)
  <2>1. Listens(p) BY <1>5 DEF SummarizeGoesOn, TranscriptOpened, IInv, Typed, Silent, Quiet
  <2>2. /\ summaries' \in [Panel -> Nat] /\ transcripts' \in [Panel -> Nat]
        /\ \A q \in Panel : q # p =>
              summaries'[q] = summaries[q] /\ transcripts'[q] = transcripts[q]
    <3>1. CASE SummarizeGoesOn(p)
      <4>1. summaries' = [summaries EXCEPT ![p] = @ - 1] /\ summaries[p] > 0
        BY <3>1 DEF SummarizeGoesOn
      <4>2. transcripts' = transcripts \/ transcripts' = [transcripts EXCEPT ![p] = @ + 1]
        BY <3>1 DEF SummarizeGoesOn
      <4>3. QED BY <1>1, <4>1, <4>2
    <3>2. CASE TranscriptOpened(p) BY <1>1, <3>2 DEF TranscriptOpened
    <3>3. QED BY <1>5, <3>1, <3>2
  <2>3. UNCHANGED <<phase, chats, gets, taken, menu, net>>
    BY <1>5 DEF SummarizeGoesOn, TranscriptOpened
  <2>4. CASE (\E i \in Id : NewId(i) /\ Sends(p, i)) /\ UNCHANGED watch
    BY <1>1, <2>1, <2>2, <2>3, <2>4, Sending DEF MaySend, menu
  <2>5. CASE Unlock({p}) /\ UNCHANGED <<shown, acks, retries, disk, flight>>
    BY <1>1, <2>1, <2>2, <2>3, <2>5, Settling DEF menu
  <2>6. CASE UNCHANGED <<active, shown, watch, acks, retries, disk, flight>>
    BY <1>1, <2>1, <2>2, <2>3, <2>6, Settling DEF menu
  <2>7. QED BY <1>5, <2>4, <2>5, <2>6 DEF SummarizeGoesOn, TranscriptOpened, SummarizeEnds
<1>6. CASE DrainRuns(p)
  <2>1. Listens(p) BY <1>6 DEF DrainRuns, IInv, Silent, Quiet
  <2>2. /\ taken' \in [Panel -> Seq(Nat)] /\ \A q \in Panel : q # p => taken'[q] = taken[q]
        /\ stash' \in Nat
    BY <1>1, <1>6 DEF DrainRuns
  <2>3. UNCHANGED <<phase, watch, reading, gets, clicks, stashed, net>>
    BY <1>6 DEF DrainRuns
  <2>4. CASE \E i \in Id : NewId(i) /\ Sends(p, i)
    BY <1>1, <2>1, <2>2, <2>3, <2>4, Sending DEF MaySend
  <2>5. CASE UNCHANGED <<active, shown, acks, retries, disk, fired, flight>>
    BY <1>1, <2>1, <2>2, <2>3, <2>5, Settling
  <2>6. QED BY <1>6, <2>4, <2>5 DEF DrainRuns
<1>7. QED BY <1>2, <1>3, <1>4, <1>5, <1>6

LEMMA Acknowledged ==
    ASSUME IInv, NEW p \in Panel, Ack(p)
    PROVE  IInv'
<1>1. (LastIsActive /\ Owned /\ DueIsUnanswered /\ WorkerKnown /\ ReplayedIsIdle)'
  BY AckKeeps
<1>2. acks[p] \in Seq(Answer) /\ acks[p] # <<>> BY DEF Ack, IInv, Typed
<1>3. Head(acks[p]) \in Entry /\ Tail(acks[p]) \in Seq(Answer)
  <2>1. Head(acks[p]) \in Answer /\ Tail(acks[p]) \in Seq(Answer) BY <1>2
  <2>2. QED BY <2>1 DEF Answer, Entry
<1>4. Typed' BY <1>3 DEF Ack, StartRequestWatch, IInv, Typed, menu, net
<1>5. Silent'
  <2>1. Listens(p) BY <1>2 DEF IInv, Silent, Quiet
  <2>2. QED BY <2>1 DEF Ack, IInv, Typed, Silent, Quiet, Listens
<1>6. QED BY <1>1, <1>4, <1>5 DEF IInv

-----------------------------------------------------------------------------
(* The theorems.                                                           *)

\* Init and every step keep the inductive invariant.
THEOREM Invariant == Spec => []IInv
<1>1. Init => IInv
  <2> SUFFICES ASSUME Init PROVE IInv OBVIOUS
  <2>1. Absent \in Message /\ NoWatch \in Entry /\ "unsent" \in Flight /\ ~Absent.auth
    BY DEF Absent, Message, NoWatch, Entry, Flight
  <2>2. Typed BY <2>1 DEF Init, Typed, Phase
  <2>3. Silent BY DEF Init, Silent, Quiet
  <2>4. \A p \in Panel, i \in Id : ~AckDue(p, i) /\ ~Mine(p, i)
    BY DEF Init, AckDue, Mine, NoWatch
  <2>5. LastIsActive /\ Owned /\ DueIsUnanswered BY <2>4 DEF Init, LastIsActive, Owned, DueIsUnanswered
  <2>6. WorkerKnown /\ ReplayedIsIdle
    BY DEF Init, WorkerKnown, ReplayedIsIdle, NoWatch
  <2>7. QED BY <2>2, <2>3, <2>5, <2>6 DEF IInv
<1>2. IInv /\ [Next]_vars => IInv'
  <2> SUFFICES ASSUME IInv, [Next]_vars PROVE IInv' OBVIOUS
  <2>1. CASE Broadcast
    BY <2>1, Heard, Network, Waits DEF Broadcast
  <2>2. CASE \E p \in Panel : User(p) \/ Resumes(p)
    <3>1. PICK p \in Panel : User(p) \/ Resumes(p) BY <2>2
    <3>2. CASE User(p) BY <3>2, Documents, Senders, Waits, GivesUp DEF User
    <3>3. CASE Resumes(p)
      BY <3>3, Documents, Senders, Waits, GivesUp, Acknowledged DEF Resumes
    <3>4. QED BY <3>1, <3>2, <3>3
  <2>3. CASE UNCHANGED vars
    BY <2>3 DEF vars, doc, menu, net, IInv, Typed, Silent, Quiet, Listens, LastIsActive, Owned,
       Mine, AckDue, DueIsUnanswered, WorkerKnown, UnderWay, ReplayedIsIdle
  <2>4. QED BY <2>1, <2>2, <2>3 DEF Next
<1>3. QED BY <1>1, <1>2, PTL DEF Spec

\* What happens is counted and bounded, and so is what refers to it.
Counts ==
    /\ worker \in Instance /\ link \in {"connected", "disconnected"}
    /\ drops \in 0..MaxEvents /\ clicks \in 0..MaxEvents
    /\ Events <= MaxEvents + stashed
    /\ stashed \in 0..clicks /\ stash \in 0..stashed

Marks ==
    /\ watch \in [Panel -> Watch]
    /\ acks \in [Panel -> Seq(Watch)]

Stashes ==
    /\ taken \in [Panel -> Seq(Click)]
    /\ fired \in [Click -> Nat] /\ lot \in [Click -> Lot]

Reads ==
    /\ chats \in [Panel -> Nat] /\ summaries \in [Panel -> Nat] /\ transcripts \in [Panel -> Nat]
    /\ \A p \in Panel : chats[p] + summaries[p] + transcripts[p] <= MaxReads

LEMMA CountsKept == Counts /\ [Next]_vars => Counts'
<1> SUFFICES ASSUME Counts, [Next]_vars PROVE Counts' OBVIOUS
<1>1. CASE UNCHANGED <<menu, net>> \/ UNCHANGED <<stash, clicks, stashed, net>>
  BY <1>1 DEF Counts, menu, net, Events, Instance
<1>2. CASE Drop \/ Reconnect \/ KillWorker
  BY <1>2, PanelAssumption DEF Counts, Drop, Reconnect, KillWorker, menu, Events, Instance
<1>3. CASE StashWritten \/ \E p \in Panel : ClickMenu(p)
  BY <1>3, PanelAssumption DEF Counts, StashWritten, ClickMenu, net, Events, Instance
<1>4. CASE \E p \in Panel : DrainRuns(p)
  BY <1>4 DEF Counts, DrainRuns, net, Events, Instance
<1>5. CASE StillDown \/ \E i \in Id : Chunk(i) \/ Done(i) \/ Error(i) \/ AuthRequired(i)
  BY <1>1, <1>5 DEF StillDown, Chunk, Done, Error, AuthRequired
<1>6. ASSUME NEW p \in Panel,
             \/ Open(p) \/ Close(p) \/ SendChatReads(p) \/ Summarize(p) \/ CancelActive(p)
             \/ EraseConversation(p) \/ \E i \in Id : SendChat(p, i) \/ Retry(p, i)
      PROVE  Counts'
  BY <1>1, <1>6 DEF Open, Close, SendChatReads, Summarize, CancelActive, EraseConversation,
                    SendChat, Retry
<1>7. ASSUME NEW p \in Panel,
             \/ Load(p) \/ PanelReady(p) \/ SendChatGoesOn(p) \/ SummarizeGoesOn(p)
             \/ TranscriptOpened(p) \/ Ack(p) \/ Deadline(p) \/ HeartbeatFails(p) \/ DrainReads(p)
      PROVE  Counts'
  BY <1>1, <1>7 DEF Load, PanelReady, SendChatGoesOn, SummarizeGoesOn, TranscriptOpened, Ack,
                    Deadline, HeartbeatFails, FailActiveRequest, DrainReads
<1>8. CASE UNCHANGED vars BY <1>1, <1>8 DEF vars
<1>9. QED
  BY <1>2, <1>3, <1>4, <1>5, <1>6, <1>7, <1>8 DEF Next, Broadcast, User, Resumes

LEMMA ReadsKept == Reads /\ [Next]_vars => Reads'
<1> SUFFICES ASSUME Reads, [Next]_vars PROVE Reads' OBVIOUS
<1>1. CASE UNCHANGED reading BY <1>1 DEF Reads
<1>2. ASSUME NEW p \in Panel, Close(p) PROVE Reads'
  BY <1>2, PanelAssumption DEF Reads, Close, Fresh
<1>3. ASSUME NEW p \in Panel,
             \/ SendChatReads(p) \/ Summarize(p) \/ SendChatGoesOn(p) \/ SummarizeGoesOn(p)
             \/ TranscriptOpened(p)
      PROVE  Reads'
  <2> DEFINE More(f) == [f EXCEPT ![p] = @ + 1]
             Less(f) == [f EXCEPT ![p] = @ - 1]
  <2>1. \/ MayRead(p) /\ chats' = More(chats) /\ UNCHANGED <<summaries, transcripts>>
        \/ MayRead(p) /\ summaries' = More(summaries) /\ UNCHANGED <<chats, transcripts>>
        \/ chats[p] > 0 /\ chats' = Less(chats) /\ UNCHANGED <<summaries, transcripts>>
        \/ /\ summaries[p] > 0 /\ summaries' = Less(summaries) /\ UNCHANGED chats
           /\ transcripts' \in {transcripts, More(transcripts)}
        \/ transcripts[p] > 0 /\ transcripts' = Less(transcripts) /\ UNCHANGED <<chats, summaries>>
        \/ UNCHANGED reading
    BY <1>3 DEF SendChatReads, Summarize, SendChatGoesOn, SummarizeGoesOn, TranscriptOpened
  <2>2. chats[p] \in Nat /\ summaries[p] \in Nat /\ transcripts[p] \in Nat BY DEF Reads
  <2>3. QED BY <2>1, <2>2, PanelAssumption DEF Reads, MayRead
<1>4. CASE Broadcast
  BY <1>1, <1>4 DEF Broadcast, Chunk, Done, Error, AuthRequired, Drop, StillDown, Reconnect,
                    KillWorker, StashWritten, doc
<1>5. ASSUME NEW p \in Panel,
             \/ Open(p) \/ CancelActive(p) \/ EraseConversation(p) \/ ClickMenu(p)
             \/ \E i \in Id : SendChat(p, i) \/ Retry(p, i)
      PROVE  Reads'
  BY <1>1, <1>5 DEF Open, CancelActive, EraseConversation, ClickMenu, SendChat, Retry
<1>6. ASSUME NEW p \in Panel,
             \/ Load(p) \/ PanelReady(p) \/ Ack(p) \/ Deadline(p) \/ HeartbeatFails(p)
             \/ DrainReads(p) \/ DrainRuns(p)
      PROVE  Reads'
  BY <1>1, <1>6 DEF Load, PanelReady, Ack, Deadline, HeartbeatFails, FailActiveRequest,
                    DrainReads, DrainRuns
<1>7. CASE UNCHANGED vars BY <1>1, <1>7 DEF vars, doc
<1>8. QED BY <1>2, <1>3, <1>4, <1>5, <1>6, <1>7 DEF Next, User, Resumes

LEMMA StashesKept == Counts /\ Stashes /\ [Next]_vars => Stashes'
<1> SUFFICES ASSUME Counts, Stashes, [Next]_vars PROVE Stashes' OBVIOUS
<1>1. CASE UNCHANGED <<taken, fired, lot>> BY <1>1 DEF Stashes
<1>10. Discarded \in [Click -> Lot] BY DEF Stashes, Discarded, Lot
<1>11. ASSUME NEW n, lot' = [Discarded EXCEPT ![n] = "stashed"] \/ lot' = [Discarded EXCEPT ![n] = "silent"]
              \/ lot' = lot, UNCHANGED <<taken, fired>>
       PROVE  Stashes'
  BY <1>10, <1>11 DEF Stashes, Lot
<1>2. ASSUME NEW p \in Panel, Close(p) PROVE Stashes'
  BY <1>2, EmptySeq DEF Stashes, Close, Fresh, menu
<1>3. ASSUME NEW p \in Panel, DrainReads(p) PROVE Stashes'
  <2>1. stash # 0 => stash \in Click
    BY PanelAssumption DEF Counts, Events, Click, Instance
  <2>2. taken[p] \in Seq(Click) BY DEF Stashes
  <2>3. stash # 0 => Append(taken[p], stash) \in Seq(Click) BY <2>1, <2>2, AppendProperties
  <2>4. lot' \in [Click -> Lot] BY <1>3 DEF Stashes, DrainReads, Lot
  <2>5. QED BY <1>3, <2>3, <2>4 DEF Stashes, DrainReads
<1>4. ASSUME NEW p \in Panel, DrainRuns(p) PROVE Stashes'
  <2>1. taken[p] \in Seq(Click) /\ taken[p] # <<>> BY <1>4 DEF Stashes, DrainRuns
  <2>2. Tail(taken[p]) \in Seq(Click) /\ Head(taken[p]) \in Click
    BY <2>1, HeadTailProperties
  <2>3. taken' \in [Panel -> Seq(Click)] BY <1>4, <2>2 DEF Stashes, DrainRuns
  <2>4. fired' = fired \/ fired' = [fired EXCEPT ![Head(taken[p])] = @ + 1]
    BY <1>4 DEF DrainRuns
  <2>5. lot' = Discarded BY <1>4 DEF DrainRuns
  <2>6. fired' \in [Click -> Nat] BY <2>2, <2>4 DEF Stashes
  <2>7. QED BY <1>10, <2>3, <2>5, <2>6 DEF Stashes
<1>5. CASE Broadcast
  <2>1. CASE KillWorker BY <1>11, <2>1 DEF KillWorker, doc
  <2>2. CASE StashWritten BY <1>11, <2>2 DEF StashWritten
  <2>3. QED BY <1>1, <1>5, <2>1, <2>2 DEF Broadcast, Chunk, Done, Error, AuthRequired, Drop,
            StillDown, Reconnect, doc, menu
<1>6. ASSUME NEW p \in Panel,
             \/ Open(p) \/ CancelActive(p) \/ EraseConversation(p) \/ ClickMenu(p)
             \/ SendChatReads(p) \/ Summarize(p) \/ \E i \in Id : SendChat(p, i) \/ Retry(p, i)
      PROVE  Stashes'
  BY <1>1, <1>6 DEF Open, CancelActive, EraseConversation, ClickMenu, SendChat, Retry,
                    SendChatReads, Summarize, menu
<1>7. ASSUME NEW p \in Panel,
             \/ Load(p) \/ PanelReady(p) \/ Ack(p) \/ Deadline(p) \/ HeartbeatFails(p)
             \/ SendChatGoesOn(p) \/ SummarizeGoesOn(p) \/ TranscriptOpened(p)
      PROVE  Stashes'
  BY <1>1, <1>7 DEF Load, PanelReady, Ack, Deadline, HeartbeatFails, FailActiveRequest,
                    SendChatGoesOn, SummarizeGoesOn, TranscriptOpened, menu
<1>8. CASE UNCHANGED vars BY <1>1, <1>8 DEF vars, doc, menu
<1>9. QED BY <1>2, <1>3, <1>4, <1>5, <1>6, <1>7, <1>8 DEF Next, User, Resumes

LEMMA MarksKept == Counts /\ Marks /\ [Next]_vars => Marks'
<1> SUFFICES ASSUME Counts, Marks, [Next]_vars PROVE Marks' OBVIOUS
<1>1. NoWatch \in Watch BY DEF NoWatch, Watch
<1>2. CASE UNCHANGED <<watch, acks>> BY <1>2 DEF Marks
<1>3. ASSUME NEW P, Unlock(P), UNCHANGED acks PROVE Marks'
  BY <1>1, <1>3 DEF Marks, Unlock
<1>4. ASSUME NEW p \in Panel, NEW i \in Id, Sends(p, i), UNCHANGED watch PROVE Marks'
  <2>1. \A w \in {worker, None} : [id |-> i, worker |-> w] \in Watch BY DEF Counts, Watch
  <2>2. acks[p] \in Seq(Watch) BY DEF Marks
  <2>3. \A w \in {worker, None} : Append(acks[p], [id |-> i, worker |-> w]) \in Seq(Watch)
    BY <2>1, <2>2, AppendProperties
  <2>4. \E w \in {worker, None} : acks' = [acks EXCEPT ![p] = Append(@, [id |-> i, worker |-> w])]
    BY <1>4 DEF Sends, Hands
  <2>5. QED BY <1>4, <2>3, <2>4 DEF Marks
<1>5. ASSUME NEW p \in Panel, Ack(p) PROVE Marks'
  <2>1. acks[p] \in Seq(Watch) /\ acks[p] # <<>> BY <1>5 DEF Marks, Ack
  <2>2. Tail(acks[p]) \in Seq(Watch) /\ Head(acks[p]) \in Watch BY <2>1, HeadTailProperties
  <2>3. QED BY <1>5, <2>2 DEF Marks, Ack, StartRequestWatch
<1>6. ASSUME NEW p \in Panel, Close(p) PROVE Marks'
  BY <1>1, <1>6, EmptySeq DEF Marks, Close, Fresh
<1>7. CASE Broadcast
  BY <1>2, <1>3, <1>7 DEF Broadcast, Chunk, Done, Error, AuthRequired, Ends, Drop, StillDown,
                          ApplyStatus, Reconnect, KillWorker, StashWritten, doc
<1>8. ASSUME NEW p \in Panel,
             \/ Open(p) \/ CancelActive(p) \/ EraseConversation(p) \/ ClickMenu(p)
             \/ SendChatReads(p) \/ Summarize(p) \/ \E i \in Id : SendChat(p, i) \/ Retry(p, i)
      PROVE  Marks'
  BY <1>2, <1>3, <1>4, <1>8 DEF Open, CancelActive, EraseConversation, ClickMenu, SendChat, Retry,
                    SendChatReads, Summarize
<1>9. ASSUME NEW p \in Panel,
             \/ Load(p) \/ PanelReady(p) \/ Deadline(p) \/ HeartbeatFails(p)
             \/ SendChatGoesOn(p) \/ SummarizeGoesOn(p) \/ TranscriptOpened(p)
             \/ DrainReads(p) \/ DrainRuns(p)
      PROVE  Marks'
  BY <1>2, <1>3, <1>4, <1>9 DEF Load, PanelReady, ApplyStatus, Deadline, HeartbeatFails,
                    FailActiveRequest, SendChatGoesOn, SummarizeGoesOn, SummarizeEnds,
                    TranscriptOpened, DrainReads, DrainRuns
<1>10. CASE UNCHANGED vars BY <1>2, <1>10 DEF vars, doc
<1>11. QED BY <1>5, <1>6, <1>7, <1>8, <1>9, <1>10 DEF Next, User, Resumes

-----------------------------------------------------------------------------
(* The stash: what becomes of an action of the menu.                       *)

\* With what makes it inductive: an action still to be stashed has no lot, and
\* what a drain has taken it has read.
HeardInv ==
    /\ ActionIsHeard
    /\ \A a \in Click : a > stashed => lot[a] = "none"
    /\ \A p \in Panel : \A n \in 1..Len(taken[p]) : lot[taken[p][n]] = "read"

\* Action b gets a lot l, and what else was in the stash is discarded.
LEMMA Supersedes ==
    ASSUME HeardInv, Counts, Stashes, NEW b \in Click, b > stashed, stashed' \in Nat,
           stashed' >= b, stash' = b,
           NEW l \in {"stashed", "silent"}, lot' = [Discarded EXCEPT ![b] = l],
           UNCHANGED <<phase, taken>>,
           l = "stashed" => \A p \in Panel : phase[p] = "open" => gets'[p] > 0
    PROVE  HeardInv'
<1>1. /\ lot'[b] = l /\ lot[b] = "none" /\ b # stash
      /\ \A a \in Click \ {b} : lot'[a] = IF a = stash /\ lot[a] # "read" THEN "lost" ELSE lot[a]
  BY DEF Stashes, Discarded, HeardInv, Counts
<1>2. \A a \in Click : lot[a] = "read" => lot'[a] = "read" BY <1>1
<1>3. ASSUME NEW a \in Click
      PROVE  /\ lot'[a] \in {"stashed", "silent"} => stash' = a
             /\ lot'[a] = "stashed" => \A p \in Panel : phase'[p] = "open" => gets'[p] > 0
             /\ lot'[a] = "lost" => \E c \in Click \ {a} : lot'[c] # "none"
  BY <1>1, <1>3 DEF HeardInv, ActionIsHeard
<1>4. \A a \in Click : a > stashed' => lot'[a] = "none"
  BY <1>1 DEF HeardInv, Click, Counts
<1>5. \A p \in Panel : \A n \in 1..Len(taken'[p]) : lot'[taken'[p][n]] = "read"
  BY <1>2 DEF HeardInv, Stashes
<1>6. QED BY <1>3, <1>4, <1>5 DEF HeardInv, ActionIsHeard

LEMMA HeardKept == IInv /\ Counts /\ Stashes /\ HeardInv /\ [Next]_vars => HeardInv'
<1> SUFFICES ASSUME IInv, Counts, Stashes, HeardInv, [Next]_vars PROVE HeardInv' OBVIOUS
<1>1. ASSUME UNCHANGED <<gets, taken, stash, stashed, lot>>,
             \A p \in Panel : phase'[p] = "open" => phase[p] = "open"
      PROVE  HeardInv'
  BY <1>1 DEF HeardInv, ActionIsHeard
<1>2. CASE KillWorker
  <2>1. CASE stash' = stash
    <3>1. \A a \in Click : a > stashed' => a > stashed
      BY <1>2 DEF KillWorker, Counts, Click
    <3>2. QED BY <1>2, <2>1, <3>1 DEF KillWorker, doc, HeardInv, ActionIsHeard
  <2>2. CASE stash' # stash
    <3>1. /\ stash' \in Click /\ stash' > stashed /\ stashed' >= stash' /\ stashed' \in Nat
          /\ lot' = [Discarded EXCEPT ![stash'] = "silent"] /\ UNCHANGED <<phase, taken>>
      BY <1>2, <2>2 DEF KillWorker, Counts, Click, doc
    <3>2. QED BY <3>1, Supersedes
  <2>3. QED BY <2>1, <2>2
<1>3. CASE StashWritten
  <2>1. /\ stashed + 1 \in Click /\ stash' = stashed + 1 /\ stashed' = stashed + 1
        /\ lot' = [Discarded EXCEPT ![stashed + 1] = "stashed"] /\ UNCHANGED <<phase, taken>>
    BY <1>3 DEF StashWritten, Counts, Click
  <2>2. \A p \in Panel : phase[p] = "open" => gets'[p] > 0
    BY <1>3 DEF StashWritten, Hearers, Listens, IInv, Typed
  <2>3. stashed + 1 > stashed /\ stashed' \in Nat /\ stashed' >= stashed + 1
    BY <2>1 DEF Counts
  <2>4. QED BY <2>1, <2>2, <2>3, Supersedes
<1>4. ASSUME NEW p \in Panel, PanelReady(p) PROVE HeardInv'
  <2>1. UNCHANGED <<taken, stash, stashed, lot>> BY <1>4 DEF PanelReady, menu
  <2>2. \A q \in Panel : phase'[q] = "open" /\ gets'[q] <= 0 => phase[q] = "open" /\ gets[q] <= 0
    BY <1>4 DEF PanelReady, IInv, Typed
  <2>3. \A q \in Panel : gets[q] \in Nat /\ gets'[q] \in Nat BY <1>4 DEF PanelReady, IInv, Typed
  <2>4. QED BY <2>1, <2>2, <2>3 DEF HeardInv, ActionIsHeard
<1>5. ASSUME NEW p \in Panel, Close(p) PROVE HeardInv'
  <2>1. UNCHANGED <<stash, stashed, lot>> BY <1>5 DEF Close, menu
  <2>2. \A q \in Panel : phase'[q] = "open" => phase[q] = "open" /\ gets'[q] = gets[q]
    BY <1>5 DEF Close, Fresh, IInv, Typed
  <2>3. \A q \in Panel : taken'[q] \in {taken[q], <<>>}
    BY <1>5 DEF Close, Fresh, IInv, Typed
  <2>4. \A q \in Panel : \A n \in 1..Len(taken'[q]) : lot'[taken'[q][n]] = "read"
    BY <2>1, <2>3 DEF HeardInv
  <2>5. QED BY <2>1, <2>2, <2>4 DEF HeardInv, ActionIsHeard
<1>6. ASSUME NEW p \in Panel, DrainReads(p) PROVE HeardInv'
  <2>1. UNCHANGED <<phase, stash, stashed>> BY <1>6 DEF DrainReads
  <2>2. \A a \in Click : lot'[a] = IF a = stash THEN "read" ELSE lot[a]
    BY <1>6 DEF DrainReads, Stashes, Click
  <2>3. \A a \in Click : lot'[a] \notin {"stashed", "silent"}
    BY <2>2 DEF HeardInv, ActionIsHeard
  <2>4. \A a \in Click : a > stashed' => lot'[a] = "none"
    BY <2>1, <2>2 DEF HeardInv, Counts, Click
  <2>5. ASSUME NEW q \in Panel, NEW n \in 1..Len(taken'[q]) PROVE lot'[taken'[q][n]] = "read"
    <3>1. taken[q] \in Seq(Click) BY DEF Stashes
    <3>2. CASE taken'[q] = taken[q]
      <4>1. taken[q][n] \in Click /\ lot[taken[q][n]] = "read" BY <2>5, <3>1, <3>2 DEF HeardInv
      <4>2. QED BY <2>2, <3>2, <4>1
    <3>3. CASE taken'[q] # taken[q]
      <4>1. stash # 0 /\ taken'[q] = Append(taken[q], stash) /\ stash \in Click
        BY <1>6, <3>3 DEF DrainReads, Stashes, Counts, Click
      <4>2. CASE n = Len(taken[q]) + 1 BY <2>2, <3>1, <4>1, <4>2
      <4>3. CASE n # Len(taken[q]) + 1
        <5>1. n \in 1..Len(taken[q]) /\ taken'[q][n] = taken[q][n] BY <2>5, <3>1, <4>1, <4>3
        <5>2. taken[q][n] \in Click /\ lot[taken[q][n]] = "read" BY <3>1, <5>1 DEF HeardInv
        <5>3. QED BY <2>2, <5>1, <5>2
      <4>4. QED BY <4>2, <4>3
    <3>4. QED BY <3>2, <3>3
  <2>6. \A a \in Click : lot'[a] = "lost" => \E b \in Click \ {a} : lot'[b] # "none"
    BY <2>2 DEF HeardInv, ActionIsHeard
  <2>7. QED BY <2>3, <2>4, <2>5, <2>6 DEF HeardInv, ActionIsHeard
<1>7. ASSUME NEW p \in Panel, DrainRuns(p) PROVE HeardInv'
  <2>1. /\ UNCHANGED <<phase, gets, stashed>> /\ lot' = Discarded
        /\ taken[p] # <<>> /\ taken' = [taken EXCEPT ![p] = Tail(@)]
    BY <1>7 DEF DrainRuns
  <2>2. \A a \in Click : lot'[a] = IF a = stash /\ lot[a] # "read" THEN "lost" ELSE lot[a]
    BY <2>1 DEF Discarded
  <2>3. taken[p] \in Seq(Click) /\ Head(taken[p]) \in Click /\ lot[Head(taken[p])] = "read"
    BY <2>1 DEF Stashes, HeardInv
  <2>4. \A a \in Click : lot'[a] \notin {"stashed", "silent"}
    BY <2>2 DEF HeardInv, ActionIsHeard
  <2>5. \A a \in Click : lot'[a] = "lost" => \E b \in Click \ {a} : lot'[b] # "none"
    <3>1. SUFFICES ASSUME NEW a \in Click, lot'[a] = "lost"
                   PROVE  \E b \in Click \ {a} : lot'[b] # "none"
      OBVIOUS
    <3>2. CASE lot[a] = "lost" BY <2>2, <3>2 DEF HeardInv, ActionIsHeard
    <3>3. CASE lot[a] # "lost"
      <4>1. Head(taken[p]) \in Click \ {a} /\ lot'[Head(taken[p])] = "read"
        BY <2>2, <2>3, <3>1, <3>3
      <4>2. QED BY <4>1
    <3>4. QED BY <3>2, <3>3
  <2>6. \A a \in Click : a > stashed' => lot'[a] = "none"
    BY <2>1, <2>2 DEF HeardInv, Counts, Click
  <2>7. ASSUME NEW q \in Panel, NEW n \in 1..Len(taken'[q]) PROVE lot'[taken'[q][n]] = "read"
    <3>1. \E m \in 1..Len(taken[q]) : taken'[q][n] = taken[q][m]
      <4>1. taken[q] \in Seq(Click) BY DEF Stashes
      <4>2. CASE q = p
        <5>1. n + 1 \in 1..Len(taken[p]) /\ taken'[p][n] = taken[p][n + 1]
          BY <2>1, <2>7, <4>1, <4>2 DEF Stashes
        <5>2. QED BY <4>2, <5>1
      <4>3. CASE q # p BY <2>1, <2>7, <4>3 DEF Stashes
      <4>4. QED BY <4>2, <4>3
    <3>2. PICK m \in 1..Len(taken[q]) : taken'[q][n] = taken[q][m] BY <3>1
    <3>3. taken[q][m] \in Click /\ lot[taken[q][m]] = "read" BY DEF Stashes, HeardInv
    <3>4. QED BY <2>2, <3>2, <3>3
  <2>8. QED BY <2>4, <2>5, <2>6, <2>7 DEF HeardInv, ActionIsHeard
<1>8. CASE \/ \E i \in Id : Chunk(i) \/ Done(i) \/ Error(i) \/ AuthRequired(i)
           \/ Drop \/ StillDown \/ Reconnect
  BY <1>1, <1>8 DEF Chunk, Done, Error, AuthRequired, Drop, StillDown, Reconnect, doc, menu
<1>9. ASSUME NEW p \in Panel,
             \/ CancelActive(p) \/ EraseConversation(p) \/ SendChatReads(p) \/ Summarize(p)
             \/ \E i \in Id : SendChat(p, i) \/ Retry(p, i)
      PROVE  HeardInv'
  BY <1>1, <1>9 DEF CancelActive, EraseConversation, SendChat, Retry, SendChatReads, Summarize, menu
<1>10. ASSUME NEW p \in Panel,
              \/ Ack(p) \/ Deadline(p) \/ HeartbeatFails(p) \/ SendChatGoesOn(p)
              \/ SummarizeGoesOn(p) \/ TranscriptOpened(p)
       PROVE  HeardInv'
  BY <1>1, <1>10 DEF Ack, Deadline, HeartbeatFails, FailActiveRequest, SendChatGoesOn,
                     SummarizeGoesOn, TranscriptOpened, menu
<1>11. ASSUME NEW p \in Panel, Open(p) \/ Load(p) \/ ClickMenu(p) PROVE HeardInv'
  <2>1. UNCHANGED <<gets, taken, stash, stashed, lot>>
    BY <1>11 DEF Open, Load, ClickMenu, menu
  <2>2. \A q \in Panel : phase'[q] = "open" => phase[q] = "open"
    BY <1>11 DEF Open, Load, ClickMenu, IInv, Typed
  <2>3. QED BY <1>1, <2>1, <2>2
<1>12. CASE UNCHANGED vars BY <1>1, <1>12 DEF vars, doc, menu
<1>13. QED
  BY <1>2, <1>3, <1>4, <1>5, <1>6, <1>7, <1>8, <1>9, <1>10, <1>11, <1>12
  DEF Next, Broadcast, User, Resumes

\* No action is left unread by chance (panel.js:1156-1166).
THEOREM ActionIsHeardHolds == Spec => []ActionIsHeard
<1>1. Init => Counts /\ Stashes /\ HeardInv
  BY EmptySeq
  DEF Init, Counts, Stashes, HeardInv, ActionIsHeard, Events, Instance, Click, Lot
<1>2. HeardInv => ActionIsHeard BY DEF HeardInv
<1>3. QED BY Invariant, CountsKept, StashesKept, HeardKept, <1>1, <1>2, PTL DEF Spec

-----------------------------------------------------------------------------
(* What was erased.                                                        *)

\* With what makes it inductive: what was erased was drawn, and the notice of an
\* error comes when the request is over.
ErasedInv ==
    /\ erased \in [Panel -> SUBSET Id]
    /\ \A p \in Panel : ~Listens(p) => erased[p] = {}
    /\ ErasedStaysErased
    /\ \A p \in Panel : \A i \in erased[p] :
          flight[i] # "unsent" /\ (shown[p][i].body # "absent" => ~UnderWay(i))

\* A step leaves what panel p erased of request i alone, or ends it.
Rests(p, i) ==
    /\ active'[p] = i => active[p] = i
    /\ i \in retries'[p] => i \in retries[p]
    /\ flight[i] # "unsent" => flight'[i] # "unsent"
    /\ UnderWay(i)' => UnderWay(i)
    /\ ~shown[p][i].streaming => ~shown'[p][i].streaming
    /\ shown[p][i].body # "text" =>
          \/ shown'[p][i].body = shown[p][i].body
          \/ shown'[p][i].body = "absent"
          \/ shown'[p][i].body = "blank" /\ ~UnderWay(i)'
          \/ shown'[p][i].body = "text" /\ shown[p][i].body # "absent" /\ UnderWay(i)

LEMMA RestsKeep ==
    ASSUME ErasedInv, erased' \in [Panel -> SUBSET Id],
           \A p \in Panel : ~Listens(p)' => erased'[p] = {},
           \A p \in Panel : \A i \in erased'[p] : i \in erased[p] /\ Rests(p, i)
    PROVE  ErasedInv'
BY DEF ErasedInv, ErasedStaysErased, Rests

\* A message may be settled, extended if it is there and served, or replaced by
\* the notice of an error.
LEMMA Bodies ==
    ASSUME NEW m \in Message
    PROVE  /\ ~Settled(m).streaming /\ Settled(m).body = m.body
           /\ Extended(m).streaming = m.streaming
           /\ Extended(m).body = m.body \/ (Extended(m).body = "text" /\ m.body # "absent")
           /\ ~Failed(m).streaming /\ (m.body # "text" => Failed(m).body = "blank")
           /\ ~Expired(m).streaming /\ (m.body # "text" => Expired(m).body = "blank")
BY DEF Settled, Extended, Failed, Expired, Message

\* A request is sent by p: it is new, or no window has it erased any more.
LEMMA SendRests ==
    ASSUME IInv, ErasedInv, NEW p \in Panel, NEW i \in Id, Sends(p, i),
           (NewId(i) /\ UNCHANGED erased) \/ erased' = [q \in Panel |-> erased[q] \ {i}],
           Listens(p), UNCHANGED phase
    PROVE  ErasedInv'
<1>1. erased' \in [Panel -> SUBSET Id] /\ \A q \in Panel : i \notin erased'[q] /\ erased'[q] \subseteq erased[q]
  BY DEF ErasedInv, NewId
<1>2. PICK f \in Flight \ {"unsent"} : flight' = [flight EXCEPT ![i] = f]
  BY HandsIs DEF Sends
<1>3. ASSUME NEW q \in Panel, NEW j \in erased'[q] PROVE Rests(q, j)
  <2>1. j # i /\ j \in Id BY <1>1
  <2>2. flight'[j] = flight[j] BY <1>2, <2>1 DEF IInv, Typed
  <2>3. shown'[q][j] = shown[q][j] BY <2>1 DEF Sends, IInv, Typed
  <2>4. (active'[q] = j => active[q] = j) /\ (j \in retries'[q] => j \in retries[q])
    BY <2>1 DEF Sends, IInv, Typed
  <2>5. QED BY <2>2, <2>3, <2>4 DEF Rests, UnderWay
<1>4. \A q \in Panel : ~Listens(q)' => erased'[q] = {}
  BY <1>1 DEF ErasedInv, Listens
<1>5. QED BY <1>1, <1>3, <1>4, RestsKeep

\* Nothing of a request but its flight changes, or some panels are unlocked.
LEMMA StillRests ==
    ASSUME IInv, ErasedInv, UNCHANGED <<shown, erased>>,
           \A p \in Panel : active'[p] \in Id => active'[p] = active[p],
           \A p \in Panel : retries'[p] \subseteq retries[p],
           NoTakeOff, \A p \in Panel : Listens(p) => Listens(p)'
    PROVE  ErasedInv'
<1>1. ASSUME NEW p \in Panel, NEW i \in erased'[p] PROVE Rests(p, i)
  BY <1>1 DEF ErasedInv, Rests, NoTakeOff
<1>2. QED BY <1>1, RestsKeep DEF ErasedInv

LEMMA ErasedKept == IInv /\ ErasedInv /\ [Next]_vars => ErasedInv'
<1> SUFFICES ASSUME IInv, ErasedInv, [Next]_vars PROVE ErasedInv' OBVIOUS
<1>1. \A p \in Panel, i \in Id : shown[p][i] \in Message BY DEF IInv, Typed
<1>2. ASSUME UNCHANGED <<shown, erased, retries, flight, worker>>,
             \A p \in Panel : active'[p] \in Id => active'[p] = active[p],
             \A p \in Panel : Listens(p) => Listens(p)'
      PROVE  ErasedInv'
  <2>1. NoTakeOff BY <1>2 DEF NoTakeOff, UnderWay
  <2>2. QED BY <1>2, <2>1, StillRests
<1>3. ASSUME NEW P \in SUBSET Panel, Unlock(P)
      PROVE  \A p \in Panel : active'[p] \in Id => active'[p] = active[p]
  BY <1>3, UnlockTypes DEF IInv
<1>4. ASSUME NEW p \in Panel,
             Open(p) \/ SendChatReads(p) \/ ClickMenu(p) \/ Ack(p) \/ DrainReads(p)
      PROVE  ErasedInv'
  <2>1. UNCHANGED <<active, shown, erased, retries, flight, worker>>
    BY <1>4 DEF Open, SendChatReads, ClickMenu, Ack, DrainReads, net
  <2>2. \A q \in Panel : Listens(q) => Listens(q)'
    BY <1>4 DEF Open, SendChatReads, ClickMenu, Ack, DrainReads, Listens, IInv, Typed
  <2>3. QED BY <1>2, <2>1, <2>2
<1>5. ASSUME NEW p \in Panel, PanelReady(p) PROVE ErasedInv'
  <2>1. UNCHANGED <<shown, erased, retries, flight, worker>> BY <1>5 DEF PanelReady, net
  <2>2. Unlock({p}) \/ UNCHANGED active BY <1>5 DEF PanelReady, ApplyStatus
  <2>3. \A q \in Panel : Listens(q) => Listens(q)' BY <1>5 DEF PanelReady, Listens, IInv, Typed
  <2>4. QED BY <1>2, <1>3, <2>1, <2>2, <2>3
<1>6. ASSUME NEW p \in Panel, Close(p) PROVE ErasedInv'
  <2>1. /\ erased' \in [Panel -> SUBSET Id] /\ erased'[p] = {}
        /\ \A q \in Panel : q # p => erased'[q] = erased[q]
    BY <1>6 DEF Close, Fresh, ErasedInv
  <2>2. \A q \in Panel : ~Listens(q)' => erased'[q] = {}
    BY <1>6, <2>1 DEF Close, Listens, ErasedInv, IInv, Typed
  <2>3. ASSUME NEW q \in Panel, NEW i \in erased'[q] PROVE i \in erased[q] /\ Rests(q, i)
    <3>1. q # p /\ i \in erased[q] BY <2>1, <2>3
    <3>2. shown'[q] = shown[q] /\ active'[q] = active[q] /\ retries'[q] = retries[q] /\ flight' = flight
      BY <1>6, <3>1 DEF Close, Fresh, IInv, Typed
    <3>3. QED BY <3>1, <3>2 DEF Rests, UnderWay
  <2>4. QED BY <2>1, <2>2, <2>3, RestsKeep
<1>7. ASSUME NEW p \in Panel, Load(p) PROVE ErasedInv'
  <2>1. erased[p] = {} BY <1>7 DEF Load, Listens, ErasedInv
  <2>2. \A q \in Panel : ~Listens(q)' => erased'[q] = {}
    BY <1>7 DEF Load, Listens, ErasedInv, IInv, Typed
  <2>3. ASSUME NEW q \in Panel, NEW i \in erased'[q] PROVE i \in erased[q] /\ Rests(q, i)
    <3>1. q # p /\ i \in erased[q] BY <1>7, <2>1, <2>3 DEF Load
    <3>2. shown'[q] = shown[q] /\ UNCHANGED <<active, retries, flight>>
      BY <1>7, <3>1 DEF Load, IInv, Typed
    <3>3. QED BY <3>1, <3>2 DEF Rests, UnderWay
  <2>4. erased' \in [Panel -> SUBSET Id] BY <1>7 DEF Load, ErasedInv
  <2>5. QED BY <2>2, <2>3, <2>4, RestsKeep
<1>8. ASSUME NEW p \in Panel, \E i \in Id : SendChat(p, i) \/ Retry(p, i) PROVE ErasedInv'
  BY <1>8, SendRests DEF SendChat, Retry
<1>9. ASSUME NEW p \in Panel,
             SendChatGoesOn(p) \/ SummarizeGoesOn(p) \/ TranscriptOpened(p) \/ DrainRuns(p)
      PROVE  ErasedInv'
  <2>1. Listens(p) /\ UNCHANGED <<phase, erased, worker>>
    BY <1>9 DEF SendChatGoesOn, SummarizeGoesOn, TranscriptOpened, DrainRuns, IInv, Typed, Silent,
                Quiet, net
  <2>2. \/ \E i \in Id : NewId(i) /\ Sends(p, i)
        \/ UNCHANGED <<shown, retries, flight>> /\ (UNCHANGED active \/ Unlock({p}))
    BY <1>9 DEF SendChatGoesOn, SummarizeGoesOn, SummarizeEnds, TranscriptOpened, DrainRuns
  <2>3. CASE \E i \in Id : NewId(i) /\ Sends(p, i) BY <2>1, <2>3, SendRests
  <2>4. CASE UNCHANGED <<shown, retries, flight>> /\ (UNCHANGED active \/ Unlock({p}))
    BY <1>2, <1>3, <2>1, <2>4 DEF Listens
  <2>5. QED BY <2>2, <2>3, <2>4
<1>10. ASSUME NEW p \in Panel, Summarize(p) PROVE ErasedInv'
  <2>1. UNCHANGED <<phase, shown, erased, retries, flight, worker>> BY <1>10 DEF Summarize, net
  <2>2. Unlock({p}) \/ active' = [active EXCEPT ![p] = Pending] BY <1>10 DEF Summarize
  <2>3. \A q \in Panel : active'[q] \in Id => active'[q] = active[q]
    BY <1>3, <2>2 DEF IInv, Typed
  <2>4. QED BY <1>2, <2>1, <2>3 DEF Listens
<1>11. ASSUME NEW p \in Panel, CancelActive(p) \/ Deadline(p) \/ HeartbeatFails(p)
       PROVE  ErasedInv'
  <2>1. /\ shown' = AbandonShown(p) /\ Unlock({p}) /\ UNCHANGED <<phase, erased, flight>>
        /\ \A q \in Panel : retries'[q] \subseteq retries[q]
    BY <1>11 DEF CancelActive, Deadline, HeartbeatFails, FailActiveRequest, IInv, Typed
  <2>2. ASSUME NEW q \in Panel, NEW i \in erased'[q] PROVE i \in erased[q] /\ Rests(q, i)
    <3>1. i \in erased[q] /\ i \in Id BY <2>1, <2>2 DEF ErasedInv
    <3>2. shown'[q][i] = shown[q][i] \/ shown'[q][i] = Settled(shown[q][i])
      BY <2>1, <3>1 DEF AbandonShown, IInv, Typed
    <3>3. active'[q] = i => active[q] = i BY <1>3, <2>1, <3>1
    <3>4. /\ ~shown[q][i].streaming => ~shown'[q][i].streaming
          /\ shown'[q][i].body = shown[q][i].body
      <4>1. shown[q][i] \in Message BY <1>1, <3>1
      <4>2. QED BY <3>2, <4>1, Bodies
    <3>5. i \in retries'[q] => i \in retries[q] BY <2>1
    <3>6. QED BY <2>1, <3>1, <3>3, <3>4, <3>5 DEF Rests, UnderWay
  <2>3. QED BY <2>1, <2>2, RestsKeep DEF ErasedInv, Listens
<1>12. ASSUME NEW p \in Panel, EraseConversation(p) PROVE ErasedInv'
  <2>1. /\ Listens(p) /\ UNCHANGED <<phase, flight>> /\ Unlock({p})
        /\ shown' = [shown EXCEPT ![p] = [i \in Id |-> Absent]]
        /\ retries' = [retries EXCEPT ![p] = {}]
        /\ erased' = [erased EXCEPT ![p] = {i \in Id : flight[i] # "unsent"}]
    BY <1>12 DEF EraseConversation
  <2>2. /\ erased' \in [Panel -> SUBSET Id] /\ retries'[p] = {} /\ active'[p] = None
        /\ erased'[p] = {i \in Id : flight[i] # "unsent"}
        /\ \A i \in Id : shown'[p][i] = Absent
        /\ \A q \in Panel : q # p =>
              /\ active'[q] = active[q] /\ shown'[q] = shown[q] /\ retries'[q] = retries[q]
              /\ erased'[q] = erased[q]
    <3>1. active'[p] = None /\ \A q \in Panel : q # p => active'[q] = active[q]
      BY <2>1, UnlockTypes DEF IInv
    <3>2. QED BY <2>1, <3>1 DEF ErasedInv, IInv, Typed
  <2>3. \A q \in Panel : ~Listens(q)' => erased'[q] = {}
    BY <2>1, <2>2 DEF ErasedInv, Listens
  <2>4. ASSUME NEW q \in Panel, NEW i \in erased'[q]
        PROVE  /\ shown'[q][i].body # "text" /\ ~shown'[q][i].streaming
               /\ active'[q] # i /\ i \notin retries'[q]
               /\ flight'[i] # "unsent" /\ (shown'[q][i].body # "absent" => ~UnderWay(i)')
    <3>1. CASE q = p BY <2>1, <2>2, <2>4, <3>1 DEF Absent, UnderWay
    <3>2. CASE q # p BY <2>1, <2>2, <2>4, <3>2 DEF ErasedInv, ErasedStaysErased, UnderWay
    <3>3. QED BY <3>1, <3>2
  <2>5. QED BY <2>2, <2>3, <2>4 DEF ErasedInv, ErasedStaysErased
<1>13. ASSUME NEW j \in Id, Chunk(j) PROVE ErasedInv'
  <2>1. UNCHANGED <<phase, active, retries, erased, flight>> /\ UnderWay(j) /\ Shows(j, Extended)
    BY <1>13 DEF Chunk, UnderWay
  <2>2. ASSUME NEW q \in Panel, NEW i \in erased'[q] PROVE i \in erased[q] /\ Rests(q, i)
    <3>1. i \in erased[q] /\ i \in Id BY <2>1, <2>2 DEF ErasedInv
    <3>2. shown'[q][i] = shown[q][i] \/ (i = j /\ shown'[q][i] = Extended(shown[q][i]))
      <4>1. shown' = [r \in Panel |-> IF r \in Hearers
                                      THEN [shown[r] EXCEPT ![j] = Extended(@)] ELSE shown[r]]
        BY <2>1 DEF Shows
      <4>2. shown[q] \in [Id -> Message] BY DEF IInv, Typed
      <4>3. shown'[q] = shown[q] \/ shown'[q] = [shown[q] EXCEPT ![j] = Extended(@)] BY <4>1
      <4>4. CASE i = j BY <4>2, <4>3, <4>4
      <4>5. CASE i # j BY <3>1, <4>2, <4>3, <4>5
      <4>6. QED BY <4>4, <4>5
    <3>3. QED BY <1>1, <2>1, <3>1, <3>2, Bodies DEF Rests, UnderWay
  <2>3. QED BY <2>1, <2>2, RestsKeep DEF ErasedInv, Listens
<1>14. ASSUME NEW j \in Id, Done(j) \/ Error(j) \/ AuthRequired(j) PROVE ErasedInv'
  <2>1. UNCHANGED <<phase, erased>> /\ Ends(j)
    BY <1>14 DEF Done, Error, AuthRequired
  <2>2. \A q \in Panel : retries'[q] \subseteq retries[q]
    <3>1. \/ UNCHANGED retries
          \/ retries' = [q \in Panel |-> IF q \in Hearers THEN retries[q] \ {j} ELSE retries[q]]
      BY <1>14 DEF Done, Error, AuthRequired
    <3>2. QED BY <3>1
  <2>3. \A q \in Panel : active'[q] \in Id => active'[q] = active[q]
    <3>1. Unlock({q \in Hearers : active[q] = j}) BY <2>1 DEF Ends
    <3>2. {q \in Hearers : active[q] = j} \in SUBSET Panel BY DEF Hearers
    <3>3. QED BY <1>3, <3>1, <3>2
  <2>4. flight'[j] = "over" /\ \A i \in Id : i # j => flight'[i] = flight[i]
    BY <2>1 DEF Ends, IInv, Typed
  <2>5. Shows(j, Settled) \/ Shows(j, Failed) \/ Shows(j, Expired)
    <3>1. CASE Done(j) BY <3>1 DEF Done
    <3>2. CASE Error(j) BY <3>2 DEF Error
    <3>3. CASE AuthRequired(j) BY <3>3 DEF AuthRequired
    <3>4. QED BY <1>14, <3>1, <3>2, <3>3
  <2>6. ASSUME NEW q \in Panel, NEW i \in erased'[q] PROVE i \in erased[q] /\ Rests(q, i)
    <3>1. i \in erased[q] /\ i \in Id BY <2>1, <2>6 DEF ErasedInv
    <3>2. \/ shown'[q][i] = shown[q][i]
          \/ i = j /\ shown'[q][i] \in {Settled(shown[q][i]), Failed(shown[q][i]), Expired(shown[q][i])}
      <4>1. CASE Shows(j, Settled) BY <3>1, <4>1 DEF Shows, IInv, Typed
      <4>2. CASE Shows(j, Failed) BY <3>1, <4>2 DEF Shows, IInv, Typed
      <4>3. CASE Shows(j, Expired) BY <3>1, <4>3 DEF Shows, IInv, Typed
      <4>4. QED BY <2>5, <4>1, <4>2, <4>3
    <3>3. UnderWay(i)' => UnderWay(i) /\ i # j BY <2>4, <3>1 DEF UnderWay
    <3>4. QED BY <1>1, <2>2, <2>3, <2>4, <3>1, <3>2, <3>3, Bodies DEF Rests
  <2>7. QED BY <2>1, <2>6, RestsKeep DEF ErasedInv, Listens
<1>15. CASE Drop \/ StillDown \/ Reconnect \/ KillWorker \/ StashWritten
  <2>1. UNCHANGED <<phase, shown, retries, erased>>
    BY <1>15 DEF Drop, StillDown, Reconnect, KillWorker, StashWritten, doc
  <2>2. \A q \in Panel : active'[q] \in Id => active'[q] = active[q]
    <3>1. Unlock(Hearers) \/ UNCHANGED active
      BY <1>15 DEF Drop, StillDown, ApplyStatus, Reconnect, KillWorker, StashWritten, doc
    <3>2. Hearers \in SUBSET Panel BY DEF Hearers
    <3>3. QED BY <1>3, <3>1, <3>2
  <2>3. NoTakeOff
    BY <1>15 DEF Drop, StillDown, Reconnect, KillWorker, StashWritten, NoTakeOff, UnderWay, IInv,
                 Typed, net
  <2>4. QED BY <2>1, <2>2, <2>3, StillRests DEF Listens
<1>16. CASE UNCHANGED vars BY <1>2, <1>16 DEF vars, doc, net, Listens
<1>17. QED
  BY <1>4, <1>5, <1>6, <1>7, <1>8, <1>9, <1>10, <1>11, <1>12, <1>13, <1>14, <1>15, <1>16
  DEF Next, Broadcast, User, Resumes

\* No late message brings an erased request back (panel.js:642-643).
THEOREM ErasedStaysErasedHolds == Spec => []ErasedStaysErased
<1>1. Init => ErasedInv BY DEF Init, ErasedInv, ErasedStaysErased
<1>2. ErasedInv => ErasedStaysErased BY DEF ErasedInv
<1>3. QED BY Invariant, ErasedKept, <1>1, <1>2, PTL DEF Spec

\* Every variable keeps its type, and what is counted its bound.
THEOREM TypeCorrect == Spec => []TypeOK
<1>1. Init => Counts /\ Reads /\ Stashes /\ Marks /\ ErasedInv
  BY PanelAssumption, EmptySeq
  DEF Init, Counts, Reads, Stashes, Marks, ErasedInv, ErasedStaysErased, Events, Instance, NoWatch,
      Watch, Lot
<1>2. IInv /\ ErasedInv /\ Counts /\ Reads /\ Stashes /\ Marks => TypeOK
  <2> SUFFICES ASSUME IInv, ErasedInv, Counts, Reads, Stashes, Marks PROVE TypeOK OBVIOUS
  <2>1. {chats, summaries, transcripts} \subseteq [Panel -> 0..MaxReads] BY PanelAssumption DEF Reads
  <2>2. {stash, clicks, stashed} \subseteq 0..MaxEvents /\ drops \in 0..MaxEvents
    BY PanelAssumption DEF Counts, Events, Instance
  <2>3. erased \in [Panel -> SUBSET Id] BY DEF ErasedInv
  <2>4. QED BY <2>1, <2>2, <2>3 DEF IInv, Typed, Counts, Stashes, Marks, TypeOK
<1>3. QED
  BY Invariant, ErasedKept, CountsKept, ReadsKept, StashesKept, MarksKept, <1>1, <1>2, PTL DEF Spec

\* No acknowledgement of another request takes the watch of the active one
\* (panel.js:763-779).
THEOREM ActiveIsWatchedHolds == Spec => []ActiveIsWatched
<1>1. IInv => ActiveIsWatched
  <2> SUFFICES ASSUME IInv, NEW p \in Panel, active[p] \in Id, ~AckDue(p, active[p])
               PROVE  watch[p].id = active[p]
    BY DEF ActiveIsWatched
  <2>1. acks[p] \in Seq(Answer) BY DEF IInv, Typed
  <2>2. CASE acks[p] # <<>>
    <3>1. Len(acks[p]) \in 1..Len(acks[p]) BY <2>1, <2>2
    <3>2. acks[p][Len(acks[p])].id = active[p] BY <2>2 DEF IInv, LastIsActive
    <3>3. QED BY <3>1, <3>2 DEF AckDue
  <2>3. CASE acks[p] = <<>> BY <2>3 DEF IInv, LastIsActive
  <2>4. QED BY <2>2, <2>3
<1>2. QED BY <1>1, Invariant, PTL

\* A change of worker interrupts no request that could still be answered
\* (panel.js:746-755).
THEOREM InterruptedIsLostHolds == Spec => []InterruptedIsLost
<1>1. IInv => InterruptedIsLost
  <2> SUFFICES ASSUME IInv, NEW p \in Panel, WorkerChanged(p), ~AckDue(p, active[p]),
                      UnderWay(active[p])
               PROVE  FALSE
    BY DEF InterruptedIsLost
  <2>1. watch[p] \in Entry /\ watch[p].id # None BY DEF WorkerChanged, IInv, Typed
  <2>2. watch[p].id \in Id /\ watch[p].id = active[p] BY <2>1 DEF WorkerChanged, Entry
  <2>3. watch[p].worker = worker BY <2>2 DEF IInv, WorkerKnown
  <2>4. QED BY <2>3 DEF WorkerChanged
<1>2. QED BY <1>1, Invariant, PTL

\* The id that a replay reuses is neither held nor served (panel.js:712-718).
THEOREM ReplayedIsIdleHolds == Spec => []ReplayedIsIdle
BY Invariant, PTL DEF IInv

=============================================================================
