---------------------------- MODULE StreamsProofs ----------------------------
(***************************************************************************)
(* Proofs about Streams, for any sets of connections, requests and ids,    *)
(* and any cap: the types and the cap of streams first, then the promises  *)
(* on the wire, that is the refinement of RequestContract.                 *)
(***************************************************************************)
EXTENDS Streams, FiniteSetTheorems, TLAPS

LEMMA ConstantsKnown ==
    /\ None \notin Conn
    /\ None \notin Id
    /\ None \notin Request
    /\ IsFiniteSet(Id)
    /\ MaxConcurrentStreams \in Nat
BY StreamsAssumption

\* Counting one more frame keeps a table of counters well typed, whatever
\* connection and id it is counted for.
LEMMA CountType ==
    ASSUME NEW f \in [Conn -> [Id -> Nat]], NEW c, NEW i
    PROVE  [f EXCEPT ![c][i] = @ + 1] \in [Conn -> [Id -> Nat]]
<1>1. CASE c \in Conn /\ i \in Id
  <2>1. f[c][i] + 1 \in Nat BY <1>1
  <2>2. QED BY <1>1, <2>1
<1>2. CASE c \in Conn /\ i \notin Id
  <2>1. [f[c] EXCEPT ![i] = @ + 1] = f[c] BY <1>2
  <2>2. QED BY <1>2, <2>1
<1>3. CASE c \notin Conn BY <1>3
<1>4. QED BY <1>1, <1>2, <1>3

LEMMA SendTerminalType ==
    ASSUME TypeOK, NEW c, NEW i, SendTerminal(c, i)
    PROVE  terminals' \in [Conn -> [Id -> Nat]]
BY CountType DEF TypeOK, SendTerminal

\* A stream that ends, whatever it ends with, leaves every variable typed.
LEMMA StreamEndsType ==
    ASSUME TypeOK, NEW r \in Request, NEW how \in Outcome, StreamEnds(r, how)
    PROVE  TypeOK'
<1>1. terminals' \in [Conn -> [Id -> Nat]]
  BY SendTerminalType DEF StreamEnds
<1>2. phase' \in [Request -> Phase] /\ outcome' \in [Request -> Outcome]
  BY DEF StreamEnds, Ends, TypeOK, Phase, Outcome
<1>3. active' \in [Conn -> [Id -> Request \cup {None}]]
  <2> DEFINE c == on[r]
             i == rid[r]
  <2>1. active' = [active EXCEPT ![c][i] = None] BY DEF StreamEnds, ReleaseSlot
  <2>2. CASE c \in Conn /\ i \in Id BY <2>1, <2>2 DEF TypeOK
  <2>3. CASE c \in Conn /\ i \notin Id
    <3>1. [active[c] EXCEPT ![i] = None] = active[c] BY <2>3 DEF TypeOK
    <3>2. QED BY <2>1, <2>3, <3>1 DEF TypeOK
  <2>4. CASE c \notin Conn BY <2>1, <2>4 DEF TypeOK
  <2>5. QED BY <2>2, <2>3, <2>4
<1>4. QED
  BY <1>1, <1>2, <1>3 DEF StreamEnds, TypeOK

\* Every variable keeps its type.
THEOREM TypeCorrect == Spec => []TypeOK
<1>1. Init => TypeOK
  BY DEF Init, TypeOK, ConnState, Phase, Outcome
<1>2. TypeOK /\ [Next]_vars => TypeOK'
  <2> SUFFICES ASSUME TypeOK, [Next]_vars PROVE TypeOK'
    OBVIOUS
  <2> USE DEF TypeOK, ConnState, Phase, Outcome, ErrorCode, InFlight
  <2>1. ASSUME NEW c \in Conn, Authenticated(c) \/ Oversized(c) \/ Close(c) PROVE TypeOK'
    <3>1. CASE Authenticated(c) BY <3>1 DEF Authenticated
    <3>2. CASE Oversized(c) BY <3>2 DEF Oversized
    <3>3. CASE Close(c)
      <4>1. {active[c][i] : i \in Slots(c)} \subseteq Request
        BY DEF Slots
      <4>2. QED
        BY <3>3, <4>1 DEF Close
    <3>4. QED BY <2>1, <3>1, <3>2, <3>3
  <2>2. ASSUME NEW c \in Conn, NEW i \in Id, Cancel(c, i) PROVE TypeOK'
    BY <2>2 DEF Cancel
  <2>3. ASSUME NEW r \in Request, NEW c \in Conn, NEW i \in Id, Message(r, c, i) PROVE TypeOK'
    <3> USE DEF Arrives, AnswerAtOnce, Ends
    <3>1. CASE StreamingRequest(r, c, i)
      <4>1. PICK fits \in BOOLEAN :
              \/ /\ ~fits \/ ~SlotFree(c)
                 /\ AnswerAtOnce(r, c, i, "refused")
                 /\ UNCHANGED active
              \/ /\ fits /\ SlotFree(c)
                 /\ phase' = [phase EXCEPT ![r] = "streaming"]
                 /\ active' = [active EXCEPT ![c][i] = r]
                 /\ UNCHANGED <<outcome, terminals>>
        BY <3>1 DEF StreamingRequest
      <4>2. CASE AnswerAtOnce(r, c, i, "refused") /\ UNCHANGED active
        BY <3>1, <4>2, SendTerminalType DEF StreamingRequest
      <4>3. CASE /\ phase' = [phase EXCEPT ![r] = "streaming"]
                 /\ active' = [active EXCEPT ![c][i] = r]
                 /\ UNCHANGED <<outcome, terminals>>
        BY <3>1, <4>3 DEF StreamingRequest
      <4>4. QED BY <4>1, <4>2, <4>3
    <3>2. CASE BadRequest(r, c, i)
      BY <3>2, SendTerminalType DEF BadRequest
    <3>6. CASE ImmediateRequest(r, c, i)
      BY <3>6, SendTerminalType DEF ImmediateRequest
    <3>3. CASE ProbingRequest(r, c, i) BY <3>3 DEF ProbingRequest
    <3>4. CASE PromptWriteRequest(r, c, i) BY <3>4 DEF PromptWriteRequest
    <3>5. CASE SettingsSetRequest(r, c, i) BY <3>5 DEF SettingsSetRequest
    <3>7. QED BY <2>3, <3>1, <3>2, <3>3, <3>4, <3>5, <3>6 DEF Message
  <2>4. ASSUME NEW r \in Request, Progress(r) PROVE TypeOK'
    <3>1. CASE Delta(r) BY <3>1, CountType DEF Delta
    <3>2. CASE StreamFinishes(r) BY <3>2, StreamEndsType DEF StreamFinishes
    <3>3. CASE StreamFails(r)
      <4>1. PICK code \in ErrorCode : StreamEnds(r, code)
        BY <3>3 DEF StreamFails
      <4>2. QED BY <4>1, StreamEndsType
    <3>4. CASE Reply(r) BY <3>4, SendTerminalType DEF Reply, Ends
    <3>5. CASE PromptWriteFails(r) BY <3>5 DEF PromptWriteFails, Ends
    <3>6. QED BY <2>4, <3>1, <3>2, <3>3, <3>4, <3>5 DEF Progress
  <2>5. CASE Crash
    BY <2>5 DEF Crash
  <2>6. CASE UNCHANGED vars
    BY <2>6 DEF vars
  <2>7. QED
    BY <2>1, <2>2, <2>3, <2>4, <2>5, <2>6 DEF Next
<1>3. QED
  BY <1>1, <1>2, PTL DEF Spec

-----------------------------------------------------------------------------
(* The map of controllers and the running streams correspond one to one    *)
(* when no id is reused in flight.  SlotInv is proved action by action.     *)

\* Only the connections' states, phases, ids, aborts and maps matter to
\* SlotInv: a step that leaves them alone leaves it alone.
LEMMA SlotInvFrame ==
    ASSUME SlotInv, UNCHANGED <<conn, phase, on, rid, aborted, active>>
    PROVE  SlotInv'
BY DEF SlotInv, Slots

\* A slot is released, or a connection's map is emptied: within the cap still.
LEMMA FewerSlots ==
    ASSUME SlotInv, NEW c \in Conn, Slots(c)' \subseteq Slots(c)
    PROVE  Cardinality(Slots(c)') <= MaxConcurrentStreams
<1>1. IsFiniteSet(Slots(c)) /\ IsFiniteSet(Slots(c)')
  BY ConstantsKnown, FS_Subset DEF Slots
<1>2. Cardinality(Slots(c)') <= Cardinality(Slots(c))
  BY <1>1, FS_Subset
<1>3. Cardinality(Slots(c)) \in Nat /\ Cardinality(Slots(c)') \in Nat
  BY <1>1, FS_CardinalityType
<1>4. Cardinality(Slots(c)) <= MaxConcurrentStreams
  BY DEF SlotInv
<1>5. QED
  BY <1>2, <1>3, <1>4, ConstantsKnown

\* A slot is taken only below the cap.
LEMMA OneMoreSlot ==
    ASSUME NEW c \in Conn, NEW i, SlotFree(c), Slots(c)' \subseteq Slots(c) \cup {i}
    PROVE  Cardinality(Slots(c)') <= MaxConcurrentStreams
<1>1. IsFiniteSet(Slots(c))
  BY ConstantsKnown, FS_Subset DEF Slots
<1>2. /\ IsFiniteSet(Slots(c) \cup {i})
      /\ \/ Cardinality(Slots(c) \cup {i}) = Cardinality(Slots(c))
         \/ Cardinality(Slots(c) \cup {i}) = Cardinality(Slots(c)) + 1
  BY <1>1, FS_AddElement
<1>3. /\ Cardinality(Slots(c)') <= Cardinality(Slots(c) \cup {i})
      /\ IsFiniteSet(Slots(c)')
  BY <1>2, FS_Subset
<1>4. /\ Cardinality(Slots(c)) \in Nat
      /\ Cardinality(Slots(c)') \in Nat
      /\ Cardinality(Slots(c) \cup {i}) \in Nat
  BY <1>1, <1>2, <1>3, FS_CardinalityType
<1>5. Cardinality(Slots(c)) < MaxConcurrentStreams
  BY DEF SlotFree
<1>6. QED
  BY <1>2, <1>3, <1>4, <1>5, ConstantsKnown

LEMMA SlotInvInit == Init => SlotInv
<1> SUFFICES ASSUME Init PROVE SlotInv
  OBVIOUS
<1>1. ASSUME NEW c \in Conn PROVE Cardinality(Slots(c)) <= MaxConcurrentStreams
  <2>1. Slots(c) = {} BY DEF Init, Slots
  <2>2. QED BY <2>1, FS_EmptySet, ConstantsKnown
<1>2. QED
  BY <1>1 DEF Init, SlotInv

\* A message that opens a stream takes the entry of an id nobody holds.
LEMMA SlotInvStream ==
    ASSUME TypeOK, SlotInv, ~ReuseInFlight,
           NEW r \in Request, NEW c \in Conn, NEW i \in Id,
           Arrives(r, c, i), SlotFree(c),
           phase' = [phase EXCEPT ![r] = "streaming"],
           active' = [active EXCEPT ![c][i] = r],
           UNCHANGED <<conn, aborted>>
    PROVE  SlotInv'
<1> USE DEF TypeOK, Arrives
<1>1. /\ phase'[r] = "streaming" /\ on'[r] = c /\ rid'[r] = i /\ active'[c][i] = r
      /\ conn'[c] = "open" /\ phase[r] = "unsent"
  OBVIOUS
<1>2. \A s \in Request : s # r => phase'[s] = phase[s] /\ on'[s] = on[s] /\ rid'[s] = rid[s]
  OBVIOUS
<1>3. \A d \in Conn, j \in Id : d # c \/ j # i => active'[d][j] = active[d][j]
  OBVIOUS
<1>4. \A s \in Request : s # r /\ phase[s] = "streaming" => on[s] # c \/ rid[s] # i
  BY DEF MaySend, Pending, InFlight
<1>5. \A s \in Request : phase'[s] # "unsent" =>
          on'[s] \in Conn /\ rid'[s] \in Id /\ conn'[on'[s]] # "unused"
  BY <1>1, <1>2 DEF SlotInv
<1>6. \A s \in Request : phase'[s] = "streaming" =>
          IF conn'[on'[s]] = "closed" THEN s \in aborted' ELSE active'[on'[s]][rid'[s]] = s
  BY <1>1, <1>2, <1>3, <1>4 DEF SlotInv
<1>7. \A d \in Conn, j \in Id : active'[d][j] # None =>
          /\ phase'[active'[d][j]] = "streaming"
          /\ on'[active'[d][j]] = d
          /\ rid'[active'[d][j]] = j
          /\ conn'[d] \in {"open", "closing"}
  <2> TAKE d \in Conn, j \in Id
  <2>1. CASE d = c /\ j = i BY <1>1, <2>1
  <2>2. CASE d # c \/ j # i
    <3>1. active'[d][j] = active[d][j] BY <1>3, <2>2
    <3>2. active[d][j] # None => active[d][j] \in Request /\ active[d][j] # r
      BY <1>1 DEF SlotInv
    <3>3. QED BY <1>2, <3>1, <3>2 DEF SlotInv
  <2>3. QED BY <2>1, <2>2
<1>8. \A d \in Conn : Cardinality(Slots(d)') <= MaxConcurrentStreams
  <2> TAKE d \in Conn
  <2>1. CASE d = c
    <3>1. Slots(c)' \subseteq Slots(c) \cup {i} BY <1>3 DEF Slots
    <3>2. QED BY <2>1, <3>1, OneMoreSlot
  <2>2. CASE d # c
    <3>1. Slots(d)' \subseteq Slots(d) BY <2>2, <1>3 DEF Slots
    <3>2. QED BY <3>1, FewerSlots
  <2>3. QED BY <2>1, <2>2
<1>9. QED
  BY <1>5, <1>6, <1>7, <1>8 DEF SlotInv

\* Any other message leaves the streams and the map as they are.
LEMMA SlotInvOther ==
    ASSUME TypeOK, SlotInv,
           NEW r \in Request, NEW c \in Conn, NEW i \in Id, NEW p \in Phase,
           Arrives(r, c, i), p # "streaming",
           phase' = [phase EXCEPT ![r] = p],
           UNCHANGED <<conn, aborted, active>>
    PROVE  SlotInv'
<1> USE DEF TypeOK, Arrives
<1>1. phase'[r] = p /\ on'[r] = c /\ rid'[r] = i /\ conn[c] = "open" /\ phase[r] = "unsent"
  OBVIOUS
<1>2. \A s \in Request : s # r => phase'[s] = phase[s] /\ on'[s] = on[s] /\ rid'[s] = rid[s]
  OBVIOUS
<1>3. \A s \in Request : phase'[s] # "unsent" =>
          on'[s] \in Conn /\ rid'[s] \in Id /\ conn'[on'[s]] # "unused"
  BY <1>1, <1>2 DEF SlotInv
<1>4. \A s \in Request : phase'[s] = "streaming" =>
          IF conn'[on'[s]] = "closed" THEN s \in aborted' ELSE active'[on'[s]][rid'[s]] = s
  BY <1>1, <1>2 DEF SlotInv
<1>5. \A d \in Conn, j \in Id : active'[d][j] # None =>
          /\ phase'[active'[d][j]] = "streaming"
          /\ on'[active'[d][j]] = d
          /\ rid'[active'[d][j]] = j
          /\ conn'[d] \in {"open", "closing"}
  <2> TAKE d \in Conn, j \in Id
  <2>1. active[d][j] # None => active[d][j] \in Request /\ active[d][j] # r
    BY <1>1 DEF SlotInv
  <2>2. QED BY <1>2, <2>1 DEF SlotInv
<1>6. \A d \in Conn : Cardinality(Slots(d)') <= MaxConcurrentStreams
  BY DEF SlotInv, Slots
<1>7. QED
  BY <1>3, <1>4, <1>5, <1>6 DEF SlotInv

\* A stream that ends gives back its own entry, or none if its connection's
\* map was already emptied.
LEMMA SlotInvStreamEnds ==
    ASSUME TypeOK, SlotInv, NEW r \in Request, NEW how,
           phase[r] = "streaming", StreamEnds(r, how)
    PROVE  SlotInv'
<1> DEFINE c == on[r]
           i == rid[r]
<1> USE DEF TypeOK, StreamEnds, Ends, ReleaseSlot
<1>1. c \in Conn /\ i \in Id
  BY DEF SlotInv
<1>2. /\ phase'[r] = "over"
      /\ \A s \in Request : s # r => phase'[s] = phase[s]
      /\ UNCHANGED <<on, rid, conn, aborted>>
  OBVIOUS
<1>3. /\ active'[c][i] = None
      /\ \A d \in Conn, j \in Id : d # c \/ j # i => active'[d][j] = active[d][j]
  BY <1>1
<1>4. \A s \in Request : phase'[s] # "unsent" =>
          on'[s] \in Conn /\ rid'[s] \in Id /\ conn'[on'[s]] # "unused"
  BY <1>2 DEF SlotInv
<1>5. \A s \in Request : phase'[s] = "streaming" =>
          IF conn'[on'[s]] = "closed" THEN s \in aborted' ELSE active'[on'[s]][rid'[s]] = s
  <2> SUFFICES ASSUME NEW s \in Request, phase'[s] = "streaming", conn[on[s]] # "closed"
               PROVE  active'[on[s]][rid[s]] = s
    BY <1>2 DEF SlotInv
  <2>1. s # r /\ phase[s] = "streaming" /\ on[s] \in Conn /\ rid[s] \in Id
    BY <1>2 DEF SlotInv
  <2>2. active[on[s]][rid[s]] = s
    BY <2>1 DEF SlotInv
  <2>3. ~(on[s] = c /\ rid[s] = i)
    BY <2>1, <2>2 DEF SlotInv
  <2>4. QED
    BY <1>3, <2>1, <2>2, <2>3
<1>6. \A d \in Conn, j \in Id : active'[d][j] # None =>
          /\ phase'[active'[d][j]] = "streaming"
          /\ on'[active'[d][j]] = d
          /\ rid'[active'[d][j]] = j
          /\ conn'[d] \in {"open", "closing"}
  <2> SUFFICES ASSUME NEW d \in Conn, NEW j \in Id, active'[d][j] # None
               PROVE  /\ phase'[active'[d][j]] = "streaming"
                      /\ on'[active'[d][j]] = d
                      /\ rid'[active'[d][j]] = j
                      /\ conn'[d] \in {"open", "closing"}
    OBVIOUS
  <2>1. (d # c \/ j # i) /\ active'[d][j] = active[d][j]
    BY <1>3
  <2>2. active[d][j] \in Request /\ active[d][j] # r
    BY <2>1 DEF SlotInv
  <2>3. QED
    BY <1>2, <2>1, <2>2 DEF SlotInv
<1>7. \A d \in Conn : Cardinality(Slots(d)') <= MaxConcurrentStreams
  <2> TAKE d \in Conn
  <2>1. Slots(d)' \subseteq Slots(d) BY <1>3 DEF Slots
  <2>2. QED BY <2>1, FewerSlots
<1>8. QED
  BY <1>4, <1>5, <1>6, <1>7 DEF SlotInv

\* An answer that was being prepared is sent, or lost: no stream is touched.
LEMMA SlotInvSettles ==
    ASSUME TypeOK, SlotInv, NEW r \in Request, NEW how,
           phase[r] \in {"awaiting", "writing"}, Ends(r, how),
           UNCHANGED <<conn, on, rid, aborted, active>>
    PROVE  SlotInv'
<1> USE DEF TypeOK, Ends
<1>1. \A s \in Request : (phase'[s] = "streaming" <=> phase[s] = "streaming")
                        /\ (phase'[s] = "unsent" <=> phase[s] = "unsent")
  OBVIOUS
<1>2. \A d \in Conn : Cardinality(Slots(d)') <= MaxConcurrentStreams
  BY DEF SlotInv, Slots
<1>3. \A d \in Conn, j \in Id : active[d][j] # None => active[d][j] \in Request
  OBVIOUS
<1>4. QED
  BY <1>1, <1>2, <1>3 DEF SlotInv

LEMMA SlotInvAuthenticated ==
    ASSUME TypeOK, SlotInv, NEW c \in Conn, Authenticated(c) \/ Oversized(c)
    PROVE  SlotInv'
<1> USE DEF TypeOK, ConnState
<1>1. \A d \in Conn : /\ d # c => conn'[d] = conn[d]
                      /\ conn[c] \in {"unused", "open"}
                      /\ conn'[c] \in {"open", "closing"}
                      /\ conn[c] = "open" => conn'[c] = "closing"
  BY DEF Authenticated, Oversized
<1>2. UNCHANGED <<phase, on, rid, aborted, active>>
  BY DEF Authenticated, Oversized
<1>3. \A d \in Conn : Cardinality(Slots(d)') <= MaxConcurrentStreams
  BY <1>2 DEF SlotInv, Slots
<1>4. QED
  BY <1>1, <1>2, <1>3 DEF SlotInv

\* close() aborts exactly the streams the map holds, which are all of them.
LEMMA SlotInvClose ==
    ASSUME TypeOK, SlotInv, NEW c \in Conn, Close(c)
    PROVE  SlotInv'
<1> USE DEF TypeOK, ConnState, Close
<1>1. /\ conn'[c] = "closed" /\ \A d \in Conn : d # c => conn'[d] = conn[d]
      /\ UNCHANGED <<phase, on, rid>>
  OBVIOUS
<1>2. \A d \in Conn, j \in Id : active'[d][j] = IF d = c THEN None ELSE active[d][j]
  OBVIOUS
<1>3. \A s \in Request : phase'[s] # "unsent" =>
          on'[s] \in Conn /\ rid'[s] \in Id /\ conn'[on'[s]] # "unused"
  BY <1>1 DEF SlotInv
<1>4. \A s \in Request : phase'[s] = "streaming" =>
          IF conn'[on'[s]] = "closed" THEN s \in aborted' ELSE active'[on'[s]][rid'[s]] = s
  <2> TAKE s \in Request
  <2> HAVE phase'[s] = "streaming"
  <2>1. phase[s] = "streaming" /\ on[s] \in Conn /\ rid[s] \in Id
    BY <1>1 DEF SlotInv
  <2>2. CASE on[s] = c
    <3>1. active[c][rid[s]] = s BY <2>1, <2>2 DEF SlotInv
    <3>2. rid[s] \in Slots(c) BY <2>1, <3>1, ConstantsKnown DEF Slots
    <3>3. s \in aborted' BY <3>1, <3>2
    <3>4. QED BY <1>1, <2>2, <3>3
  <2>3. CASE on[s] # c
    <3>1. conn'[on[s]] = conn[on[s]] BY <1>1, <2>1, <2>3
    <3>2. active'[on[s]][rid[s]] = active[on[s]][rid[s]] BY <1>2, <2>1, <2>3
    <3>3. QED BY <1>1, <2>1, <3>1, <3>2 DEF SlotInv
  <2>4. QED BY <2>2, <2>3
<1>5. \A d \in Conn, j \in Id : active'[d][j] # None =>
          /\ phase'[active'[d][j]] = "streaming"
          /\ on'[active'[d][j]] = d
          /\ rid'[active'[d][j]] = j
          /\ conn'[d] \in {"open", "closing"}
  BY <1>1, <1>2 DEF SlotInv
<1>6. \A d \in Conn : Cardinality(Slots(d)') <= MaxConcurrentStreams
  <2> TAKE d \in Conn
  <2>1. Slots(d)' \subseteq Slots(d) BY <1>2 DEF Slots
  <2>2. QED BY <2>1, FewerSlots
<1>7. QED
  BY <1>3, <1>4, <1>5, <1>6 DEF SlotInv

LEMMA SlotInvCrash ==
    ASSUME TypeOK, SlotInv, Crash
    PROVE  SlotInv'
<1> USE DEF TypeOK, ConnState, Crash, InFlight
<1>1. \A s \in Request : /\ phase'[s] # "streaming"
                         /\ phase'[s] # "unsent" => phase[s] # "unsent"
  OBVIOUS
<1>2. \A d \in Conn : /\ conn[d] # "unused" => conn'[d] # "unused"
                      /\ \A j \in Id : active'[d][j] = None
  OBVIOUS
<1>3. \A d \in Conn : Cardinality(Slots(d)') <= MaxConcurrentStreams
  <2> TAKE d \in Conn
  <2>1. Slots(d)' \subseteq Slots(d) BY <1>2 DEF Slots
  <2>2. QED BY <2>1, FewerSlots
<1>4. QED
  BY <1>1, <1>2, <1>3 DEF SlotInv

LEMMA SlotInvCancel ==
    ASSUME TypeOK, SlotInv, NEW c \in Conn, NEW i \in Id, Cancel(c, i)
    PROVE  SlotInv'
BY DEF Cancel, SlotInv, Slots

LEMMA SlotInvMessage ==
    ASSUME TypeOK, SlotInv, ~ReuseInFlight,
           NEW r \in Request, NEW c \in Conn, NEW i \in Id, Message(r, c, i)
    PROVE  SlotInv'
<1> USE DEF Phase
<1>1. CASE StreamingRequest(r, c, i)
  <2>1. Arrives(r, c, i) /\ UNCHANGED <<conn, aborted>>
    BY <1>1 DEF StreamingRequest
  <2>2. \/ phase' = [phase EXCEPT ![r] = "over"] /\ UNCHANGED active
        \/ /\ SlotFree(c)
           /\ phase' = [phase EXCEPT ![r] = "streaming"]
           /\ active' = [active EXCEPT ![c][i] = r]
    BY <1>1 DEF StreamingRequest, AnswerAtOnce, Ends
  <2>3. QED
    BY <2>1, <2>2, SlotInvStream, SlotInvOther
<1>2. CASE BadRequest(r, c, i) \/ ImmediateRequest(r, c, i)
  BY <1>2, SlotInvOther DEF BadRequest, ImmediateRequest, AnswerAtOnce, Ends
<1>3. CASE ProbingRequest(r, c, i)
  BY <1>3, SlotInvOther DEF ProbingRequest
<1>4. CASE PromptWriteRequest(r, c, i)
  BY <1>4, SlotInvOther DEF PromptWriteRequest
<1>5. CASE SettingsSetRequest(r, c, i)
  BY <1>5, SlotInvOther DEF SettingsSetRequest, Ends
<1>6. QED
  BY <1>1, <1>2, <1>3, <1>4, <1>5 DEF Message

LEMMA SlotInvProgress ==
    ASSUME TypeOK, SlotInv, NEW r \in Request, Progress(r)
    PROVE  SlotInv'
<1>1. CASE Delta(r)
  BY <1>1, SlotInvFrame DEF Delta
<1>2. CASE StreamFinishes(r)
  BY <1>2, SlotInvStreamEnds DEF StreamFinishes
<1>3. CASE StreamFails(r)
  <2>1. PICK code \in ErrorCode : StreamEnds(r, code)
    BY <1>3 DEF StreamFails
  <2>2. QED
    BY <1>3, <2>1, SlotInvStreamEnds DEF StreamFails
<1>4. CASE Reply(r)
  BY <1>4, SlotInvSettles DEF Reply
<1>5. CASE PromptWriteFails(r)
  BY <1>5, SlotInvSettles DEF PromptWriteFails
<1>6. QED
  BY <1>1, <1>2, <1>3, <1>4, <1>5 DEF Progress

\* SlotInv holds in every reachable state, provided clients never reuse an id
\* that is in flight.
THEOREM SlotInvariant == ~ReuseInFlight => (Spec => []SlotInv)
<1> SUFFICES ASSUME ~ReuseInFlight PROVE Spec => []SlotInv
  OBVIOUS
<1>1. TypeOK /\ SlotInv /\ [Next]_vars => SlotInv'
  <2> SUFFICES ASSUME TypeOK, SlotInv, [Next]_vars PROVE SlotInv'
    OBVIOUS
  <2>1. ASSUME NEW c \in Conn, Authenticated(c) \/ Oversized(c) \/ Close(c) PROVE SlotInv'
    BY <2>1, SlotInvAuthenticated, SlotInvClose
  <2>2. ASSUME NEW c \in Conn, NEW i \in Id, Cancel(c, i) PROVE SlotInv'
    BY <2>2, SlotInvCancel
  <2>3. ASSUME NEW r \in Request, NEW c \in Conn, NEW i \in Id, Message(r, c, i) PROVE SlotInv'
    BY <2>3, SlotInvMessage
  <2>4. ASSUME NEW r \in Request, Progress(r) PROVE SlotInv'
    BY <2>4, SlotInvProgress
  <2>5. CASE UNCHANGED vars
    BY <2>5, SlotInvFrame DEF vars
  <2>6. QED
    BY <2>1, <2>2, <2>3, <2>4, <2>5, SlotInvCrash DEF Next
<1>2. QED
  BY SlotInvInit, <1>1, TypeCorrect, PTL DEF Spec

\* The ids of a connection's running streams are distinct slots of its map,
\* so there are no more streams than slots.
LEMMA StreamsFitSlots == TypeOK /\ SlotInv => StreamCap
<1> SUFFICES ASSUME TypeOK, SlotInv, NEW c \in Conn, conn[c] = "open"
             PROVE  Cardinality(LiveStreams(c)) <= MaxConcurrentStreams
  BY DEF StreamCap
<1> DEFINE f == [r \in LiveStreams(c) |-> rid[r]]
<1>1. \A r \in LiveStreams(c) : rid[r] \in Id /\ active[c][rid[r]] = r
  BY DEF SlotInv, LiveStreams
<1>2. f \in Injection(LiveStreams(c), Slots(c))
  <2>1. \A r \in LiveStreams(c) : rid[r] \in Slots(c)
    BY <1>1, ConstantsKnown DEF Slots, LiveStreams
  <2>2. f \in [LiveStreams(c) -> Slots(c)]
    BY <2>1
  <2>3. \A a, b \in LiveStreams(c) : f[a] = f[b] => a = b
    BY <1>1
  <2>4. QED
    BY <2>2, <2>3 DEF Injection, IsInjective
<1>3. IsFiniteSet(Slots(c))
  BY ConstantsKnown, FS_Subset DEF Slots
<1>4. IsFiniteSet(LiveStreams(c)) /\ Cardinality(LiveStreams(c)) <= Cardinality(Slots(c))
  BY <1>2, <1>3, FS_Injection
<1>5. Cardinality(LiveStreams(c)) \in Nat /\ Cardinality(Slots(c)) \in Nat
  BY <1>3, <1>4, FS_CardinalityType
<1>6. Cardinality(Slots(c)) <= MaxConcurrentStreams
  BY DEF SlotInv
<1>7. QED
  BY <1>4, <1>5, <1>6, ConstantsKnown

\* No connection runs more streams than MAX_CONCURRENT_STREAMS.
THEOREM StreamCapHolds == ~ReuseInFlight => (Spec => []StreamCap)
BY TypeCorrect, SlotInvariant, StreamsFitSlots, PTL

\* Every stream of an open connection is the one its id's `cancel` reaches.
THEOREM CancellableHolds == ~ReuseInFlight => (Spec => []EveryStreamCancellable)
<1>1. SlotInv => EveryStreamCancellable
  BY DEF SlotInv, EveryStreamCancellable
<1>2. QED
  BY <1>1, SlotInvariant, PTL

\* A closed connection leaves no stream running unaborted.
THEOREM NoOrphanHolds == ~ReuseInFlight => (Spec => []NoOrphanStream)
<1>1. SlotInv => NoOrphanStream
  BY DEF SlotInv, NoOrphanStream
<1>2. QED
  BY <1>1, SlotInvariant, PTL

-----------------------------------------------------------------------------
(* The contract: Streams implements RequestContract, and a cancel is final,*)
(* when clients never reuse an id in flight.                               *)
(*                                                                         *)
(* A request is unanswered while it is in flight or when its handler ended *)
(* without an answer.  What an id is owed changes in four ways only: an    *)
(* unanswered request arrives (Asks), one that is answered at once arrives *)
(* (AsksAndAnswers), one is answered (Answers), connections end            *)
(* (ConnectionsEnd).                                                       *)

Unanswered(r) == phase[r] \in InFlight \/ outcome[r] = "silent"

\* A silent end is an end, and an id is owed at most one answer.
WireInv ==
    /\ \A r \in Request : outcome[r] = "silent" => phase[r] = "over"
    /\ \A r, s \in Request :
          Unanswered(r) /\ Unanswered(s) /\ on[r] = on[s] /\ rid[r] = rid[s] => r = s

Live == {c \in Conn : conn[c] = "open"}
OwedMap == [c \in Conn |-> [i \in Id |-> Owed(c, i)]]

LEMMA UnansweredPlaced ==
    ASSUME SlotInv, WireInv, NEW r \in Request, Unanswered(r)
    PROVE  phase[r] # "unsent" /\ on[r] \in Conn /\ rid[r] \in Id /\ conn[on[r]] # "unused"
BY DEF SlotInv, WireInv, Unanswered, InFlight

LEMMA OwedIs ==
    \A c \in Conn, i \in Id :
        /\ OwedMap[c][i] \in BOOLEAN
        /\ OwedMap[c][i] <=>
              conn[c] = "open" /\ \E r \in Request : Unanswered(r) /\ on[r] = c /\ rid[r] = i
<1> TAKE c \in Conn, i \in Id
<1>1. OwedMap[c][i] = Owed(c, i) BY DEF OwedMap
<1>2. Owed(c, i) <=>
          conn[c] = "open" /\ \E r \in Request : Unanswered(r) /\ on[r] = c /\ rid[r] = i
  BY DEF Owed, Pending, Unanswered
<1>3. QED BY <1>1, <1>2 DEF Owed

LEMMA OwedIsNext ==
    \A c \in Conn, i \in Id :
        /\ OwedMap'[c][i] \in BOOLEAN
        /\ OwedMap'[c][i] <=>
              conn'[c] = "open" /\ \E r \in Request : Unanswered(r)' /\ on'[r] = c /\ rid'[r] = i
<1> TAKE c \in Conn, i \in Id
<1>1. OwedMap'[c][i] = Owed(c, i)' BY DEF OwedMap
<1>2. Owed(c, i)' <=>
          conn'[c] = "open" /\ \E r \in Request : Unanswered(r)' /\ on'[r] = c /\ rid'[r] = i
  BY DEF Owed, Pending, Unanswered
<1>3. QED BY <1>1, <1>2 DEF Owed

\* Two maps of what is owed that differ in one entry, or in none.
LEMMA MapUpdated ==
    ASSUME NEW f, NEW g, NEW c \in Conn, NEW i \in Id, NEW v \in BOOLEAN,
           f \in [Conn -> [Id -> BOOLEAN]], g \in [Conn -> [Id -> BOOLEAN]],
           g[c][i] = v,
           \A d \in Conn, j \in Id : d # c \/ j # i => g[d][j] = f[d][j]
    PROVE  g = [f EXCEPT ![c][i] = v]
OBVIOUS

LEMMA MapSame ==
    ASSUME NEW f, NEW g,
           f \in [Conn -> [Id -> BOOLEAN]], g \in [Conn -> [Id -> BOOLEAN]],
           \A d \in Conn, j \in Id : g[d][j] = f[d][j]
    PROVE  g = f
<1>1. \A d \in Conn : g[d] = f[d] OBVIOUS
<1>2. QED BY <1>1

LEMMA MapTyped ==
    OwedMap \in [Conn -> [Id -> BOOLEAN]] /\ OwedMap' \in [Conn -> [Id -> BOOLEAN]]
BY DEF OwedMap, Owed

-----------------------------------------------------------------------------
(* The four ways, and the stutter.                                         *)

\* An unanswered request arrives.
LEMMA Asks ==
    ASSUME WireInv, SlotInv, ~ReuseInFlight,
           NEW r \in Request, NEW c \in Conn, NEW i \in Id,
           phase[r] = "unsent", conn[c] = "open", MaySend(c, i),
           Unanswered(r)', on'[r] = c, rid'[r] = i,
           \A s \in Request : s # r => /\ on'[s] = on[s] /\ rid'[s] = rid[s]
                                       /\ Unanswered(s)' <=> Unanswered(s),
           UNCHANGED <<conn, chunks, terminals>>
    PROVE  Contract!Ask(c, i)
<1>1. ~Unanswered(r) BY UnansweredPlaced
<1>2. \A s \in Request : Unanswered(s) => on[s] # c \/ rid[s] # i
  BY DEF MaySend, Pending, Unanswered
<1>3. ~OwedMap[c][i] BY <1>2, OwedIs
<1>4. OwedMap'[c][i] BY OwedIsNext
<1>5. \A d \in Conn, j \in Id : d # c \/ j # i => OwedMap'[d][j] = OwedMap[d][j]
  BY <1>1, OwedIs, OwedIsNext
<1>6. OwedMap' = [OwedMap EXCEPT ![c][i] = TRUE]
  <2>1. OwedMap'[c][i] = TRUE BY <1>4, OwedIsNext
  <2>2. QED BY <1>5, <2>1, MapUpdated, MapTyped
<1>7. c \in Live /\ Live' = Live BY DEF Live
<1>8. QED BY <1>3, <1>6, <1>7 DEF Contract!Ask, OwedMap, Live

\* One that is answered at once arrives.
LEMMA AsksAndAnswers ==
    ASSUME WireInv, SlotInv, ~ReuseInFlight,
           NEW r \in Request, NEW c \in Conn, NEW i \in Id,
           phase[r] = "unsent", conn[c] = "open", MaySend(c, i),
           ~Unanswered(r)',
           \A s \in Request : s # r => /\ on'[s] = on[s] /\ rid'[s] = rid[s]
                                       /\ Unanswered(s)' <=> Unanswered(s),
           SendTerminal(c, i), UNCHANGED <<conn, chunks>>
    PROVE  Contract!AskAndAnswer(c, i)
<1>1. ~Unanswered(r) BY UnansweredPlaced
<1>2. \A s \in Request : Unanswered(s) => on[s] # c \/ rid[s] # i
  BY DEF MaySend, Pending, Unanswered
<1>3. ~OwedMap[c][i] BY <1>2, OwedIs
<1>4. \A d \in Conn, j \in Id : OwedMap'[d][j] = OwedMap[d][j]
  BY <1>1, OwedIs, OwedIsNext
<1>5. OwedMap' = OwedMap BY <1>4, MapSame, MapTyped
<1>6. c \in Live /\ Live' = Live BY DEF Live
<1>7. QED BY <1>3, <1>5, <1>6 DEF Contract!AskAndAnswer, OwedMap, Live, SendTerminal

\* A request is answered, if its connection is still open.
LEMMA Answers ==
    ASSUME WireInv, SlotInv,
           NEW r \in Request, Unanswered(r), ~Unanswered(r)',
           \A s \in Request : s # r => (Unanswered(s)' <=> Unanswered(s)),
           SendTerminal(on[r], rid[r]), UNCHANGED <<conn, on, rid, chunks>>
    PROVE  Contract!Answer(on[r], rid[r]) \/ UNCHANGED Contract!contractVars
<1> DEFINE c == on[r]
           i == rid[r]
<1>1. c \in Conn /\ i \in Id BY UnansweredPlaced
<1>2. \A s \in Request : s # r /\ Unanswered(s) => on[s] # c \/ rid[s] # i BY DEF WireInv
<1>3. Live' = Live BY DEF Live
<1>4. CASE conn[c] = "open"
  <2>1. OwedMap[c][i] BY <1>1, <1>4, OwedIs
  <2>2. ~OwedMap'[c][i] BY <1>1, <1>2, OwedIsNext
  <2>3. \A d \in Conn, j \in Id : d # c \/ j # i => OwedMap'[d][j] = OwedMap[d][j]
    BY OwedIs, OwedIsNext
  <2>4. OwedMap' = [OwedMap EXCEPT ![c][i] = FALSE]
    <3>1. OwedMap'[c][i] = FALSE BY <1>1, <2>2, OwedIsNext
    <3> HIDE DEF c, i
    <3>2. QED BY <1>1, <2>3, <3>1, MapUpdated, MapTyped
  <2>5. terminals' = [terminals EXCEPT ![c][i] = @ + 1] BY <1>4 DEF SendTerminal
  <2>6. QED BY <1>3, <2>1, <2>4, <2>5 DEF Contract!Answer, OwedMap, Live
<1>5. CASE conn[c] # "open"
  <2>1. \A d \in Conn, j \in Id : OwedMap'[d][j] = OwedMap[d][j]
    BY <1>5, OwedIs, OwedIsNext
  <2>2. OwedMap' = OwedMap BY <2>1, MapSame, MapTyped
  <2>3. terminals' = terminals BY <1>5 DEF SendTerminal
  <2>4. QED BY <1>3, <2>2, <2>3 DEF Contract!contractVars, OwedMap, Live
<1>6. QED BY <1>4, <1>5

\* Connections end, one or all of them; those that were closing were no
\* longer live.
LEMMA ConnectionsEnd ==
    ASSUME NEW gone \in SUBSET Conn, gone \subseteq Live,
           \A c \in Conn : c \in gone => conn'[c] # "open",
           \A c \in Conn : c \notin gone => (conn'[c] = "open" <=> conn[c] = "open"),
           UNCHANGED <<on, rid, chunks, terminals>>,
           \A c \in Conn \ gone : conn[c] = "open" =>
               \A s \in Request : on[s] = c => (Unanswered(s)' <=> Unanswered(s))
    PROVE  Contract!Disconnect(gone) \/ UNCHANGED Contract!contractVars
<1>1. Live' = Live \ gone BY DEF Live
<1>2. \A d \in Conn, j \in Id : OwedMap'[d][j] = IF d \in gone THEN FALSE ELSE OwedMap[d][j]
  <2> TAKE d \in Conn, j \in Id
  <2>1. CASE d \in gone BY <2>1, OwedIsNext
  <2>2. CASE d \notin gone /\ conn[d] = "open"
    <3>1. \A s \in Request : on[s] = d => (Unanswered(s)' <=> Unanswered(s)) BY <2>2
    <3>2. conn'[d] = "open" BY <2>2
    <3>3. OwedMap'[d][j] <=> OwedMap[d][j] BY <2>2, <3>1, <3>2, OwedIs, OwedIsNext
    <3>4. QED BY <2>2, <3>3, OwedIs, OwedIsNext
  <2>3. CASE d \notin gone /\ conn[d] # "open"
    <3>1. conn'[d] # "open" BY <2>3
    <3>2. ~OwedMap'[d][j] /\ ~OwedMap[d][j] BY <2>3, <3>1, OwedIs, OwedIsNext
    <3>3. QED BY <2>3, <3>2, OwedIs, OwedIsNext
  <2>4. QED BY <2>1, <2>2, <2>3
<1>3. CASE gone = {}
  <2>1. OwedMap' = OwedMap BY <1>2, <1>3, MapSame, MapTyped
  <2>2. QED BY <1>1, <1>3, <2>1 DEF Contract!contractVars, OwedMap, Live
<1>4. CASE gone # {}
  <2> DEFINE g == [c \in Conn |-> IF c \in gone THEN [i \in Id |-> FALSE] ELSE OwedMap[c]]
  <2>1. g \in [Conn -> [Id -> BOOLEAN]] BY MapTyped
  <2>2. \A d \in Conn, j \in Id : OwedMap'[d][j] = g[d][j] BY <1>2
  <2>3. OwedMap' = g
    <3> HIDE DEF g
    <3>1. QED BY <2>1, <2>2, MapSame, MapTyped
  <2>4. QED BY <1>1, <1>4, <2>3 DEF Contract!Disconnect, OwedMap, Live
<1>5. QED BY <1>3, <1>4

\* What is not seen on the wire.
LEMMA Unseen ==
    ASSUME \A s \in Request : Unanswered(s)' <=> Unanswered(s),
           UNCHANGED <<conn, on, rid, chunks, terminals>>
    PROVE  UNCHANGED Contract!contractVars
<1>1. \A d \in Conn, j \in Id : OwedMap'[d][j] = OwedMap[d][j] BY OwedIs, OwedIsNext
<1>2. OwedMap' = OwedMap BY <1>1, MapSame, MapTyped
<1>3. QED BY <1>2 DEF Contract!contractVars, OwedMap, Live

-----------------------------------------------------------------------------
(* What the actions do to the requests that are unanswered.                *)

LEMMA MessageEffect ==
    ASSUME TypeOK, WireInv, NEW r \in Request, NEW c \in Conn, NEW i \in Id, Message(r, c, i)
    PROVE  /\ phase[r] = "unsent" /\ conn[c] = "open" /\ MaySend(c, i)
           /\ on'[r] = c /\ rid'[r] = i
           /\ outcome'[r] = "silent" => phase'[r] = "over"
           /\ \A s \in Request : s # r => /\ on'[s] = on[s] /\ rid'[s] = rid[s]
                                          /\ phase'[s] = phase[s] /\ outcome'[s] = outcome[s]
           /\ UNCHANGED <<conn, chunks>>
           /\ \/ Unanswered(r)' /\ UNCHANGED terminals
              \/ ~Unanswered(r)' /\ SendTerminal(c, i)
<1> USE DEF TypeOK, Arrives, Ends, AnswerAtOnce, Unanswered, InFlight
<1>1. phase[r] = "unsent" => outcome[r] # "silent" BY DEF WireInv
<1>2. CASE StreamingRequest(r, c, i) BY <1>1, <1>2 DEF StreamingRequest
<1>3. CASE BadRequest(r, c, i) \/ ImmediateRequest(r, c, i)
  BY <1>3 DEF BadRequest, ImmediateRequest
<1>4. CASE ProbingRequest(r, c, i) BY <1>1, <1>4 DEF ProbingRequest
<1>5. CASE PromptWriteRequest(r, c, i) BY <1>1, <1>5 DEF PromptWriteRequest
<1>6. CASE SettingsSetRequest(r, c, i) BY <1>1, <1>6 DEF SettingsSetRequest
<1>7. QED BY <1>2, <1>3, <1>4, <1>5, <1>6 DEF Message

LEMMA ProgressEffect ==
    ASSUME TypeOK, WireInv, NEW r \in Request, Progress(r)
    PROVE  /\ Unanswered(r)
           /\ outcome'[r] = "silent" => phase'[r] = "over"
           /\ \A s \in Request : s # r => phase'[s] = phase[s] /\ outcome'[s] = outcome[s]
           /\ UNCHANGED <<conn, on, rid>>
           /\ \/ Delta(r)
              \/ Unanswered(r)' /\ UNCHANGED <<chunks, terminals>>
              \/ ~Unanswered(r)' /\ SendTerminal(on[r], rid[r]) /\ UNCHANGED chunks
<1> USE DEF TypeOK, Ends, StreamEnds, Unanswered, InFlight, ErrorCode
<1>1. CASE Delta(r) BY <1>1 DEF Delta, WireInv
<1>2. CASE StreamFinishes(r) BY <1>2 DEF StreamFinishes
<1>3. CASE StreamFails(r) BY <1>3 DEF StreamFails
<1>4. CASE Reply(r) BY <1>4 DEF Reply
<1>5. CASE PromptWriteFails(r) BY <1>5 DEF PromptWriteFails
<1>6. QED BY <1>1, <1>2, <1>3, <1>4, <1>5 DEF Progress

LEMMA CrashEffect ==
    ASSUME TypeOK, Crash
    PROVE  /\ \A c \in Conn : conn'[c] # "open"
           /\ \A r \in Request : /\ Unanswered(r)' => Unanswered(r)
                                 /\ outcome'[r] = "silent" => outcome[r] = "silent"
                                 /\ phase[r] = "over" => phase'[r] = "over"
           /\ UNCHANGED <<on, rid, chunks, terminals>>
BY DEF Crash, TypeOK, ConnState, Unanswered, InFlight

LEMMA WireInvInit == Init => WireInv
BY DEF Init, WireInv, Unanswered, InFlight

LEMMA WireInvStep ==
    ASSUME TypeOK, SlotInv, WireInv, ~ReuseInFlight, [Next]_vars
    PROVE  WireInv'
<1>1. ASSUME UNCHANGED <<phase, outcome, on, rid>> PROVE WireInv'
  BY <1>1 DEF WireInv, Unanswered
<1>2. ASSUME NEW c \in Conn, Authenticated(c) \/ Oversized(c) \/ Close(c) PROVE WireInv'
  BY <1>1, <1>2 DEF Authenticated, Oversized, Close
<1>3. ASSUME NEW c \in Conn, NEW i \in Id, Cancel(c, i) PROVE WireInv'
  BY <1>1, <1>3 DEF Cancel
<1>4. ASSUME NEW r \in Request, NEW c \in Conn, NEW i \in Id, Message(r, c, i) PROVE WireInv'
  <2>1. \A s \in Request : Unanswered(s) => on[s] # c \/ rid[s] # i
    BY <1>4, MessageEffect DEF MaySend, Pending, Unanswered
  <2>2. \A s \in Request : s # r => (Unanswered(s)' <=> Unanswered(s))
    BY <1>4, MessageEffect DEF Unanswered
  <2>3. \A s \in Request : outcome'[s] = "silent" => phase'[s] = "over"
    BY <1>4, MessageEffect DEF WireInv
  <2>4. /\ on'[r] = c /\ rid'[r] = i
        /\ \A s \in Request : s # r => on'[s] = on[s] /\ rid'[s] = rid[s]
    BY <1>4, MessageEffect
  <2>5. \A s, t \in Request :
            Unanswered(s)' /\ Unanswered(t)' /\ on'[s] = on'[t] /\ rid'[s] = rid'[t] => s = t
    BY <2>1, <2>2, <2>4 DEF WireInv
  <2>6. QED BY <2>3, <2>5 DEF WireInv
<1>5. ASSUME NEW r \in Request, Progress(r) PROVE WireInv'
  <2>1. \A s \in Request : Unanswered(s)' => Unanswered(s)
    BY <1>5, ProgressEffect DEF Unanswered
  <2>2. \A s \in Request : outcome'[s] = "silent" => phase'[s] = "over"
    BY <1>5, ProgressEffect DEF WireInv
  <2>3. UNCHANGED <<on, rid>> BY <1>5, ProgressEffect
  <2>4. QED BY <2>1, <2>2, <2>3 DEF WireInv
<1>6. CASE Crash BY <1>6, CrashEffect DEF WireInv
<1>7. CASE UNCHANGED vars BY <1>1, <1>7 DEF vars
<1>8. QED BY <1>2, <1>3, <1>4, <1>5, <1>6, <1>7 DEF Next

-----------------------------------------------------------------------------
(* Every step is a step of the contract, or unseen.                        *)

LEMMA AuthenticatedConnects ==
    ASSUME TypeOK, SlotInv, WireInv, NEW c \in Conn, Authenticated(c)
    PROVE  Contract!Connect(c)
<1>1. /\ conn[c] = "unused" /\ conn'[c] = "open"
      /\ \A d \in Conn : d # c => conn'[d] = conn[d]
      /\ UNCHANGED <<phase, on, rid, outcome, chunks, terminals>>
  BY DEF Authenticated, TypeOK
<1>2. \A r \in Request : Unanswered(r)' <=> Unanswered(r) BY <1>1 DEF Unanswered
<1>3. \A r \in Request : Unanswered(r) => on[r] # c BY <1>1, UnansweredPlaced
<1>4. \A d \in Conn, j \in Id : OwedMap'[d][j] = OwedMap[d][j]
  <2> TAKE d \in Conn, j \in Id
  <2>1. CASE d = c
    <3>1. ~OwedMap'[d][j] /\ ~OwedMap[d][j] BY <1>1, <1>2, <1>3, <2>1, OwedIs, OwedIsNext
    <3>2. QED BY <3>1, OwedIs, OwedIsNext
  <2>2. CASE d # c
    <3>1. OwedMap'[d][j] <=> OwedMap[d][j] BY <1>1, <1>2, <2>2, OwedIs, OwedIsNext
    <3>2. QED BY <3>1, OwedIs, OwedIsNext
  <2>3. QED BY <2>1, <2>2
<1>5. OwedMap' = OwedMap BY <1>4, MapSame, MapTyped
<1>6. c \notin Live /\ Live' = Live \cup {c} BY <1>1 DEF Live
<1>7. QED BY <1>1, <1>5, <1>6 DEF Contract!Connect, OwedMap, Live

LEMMA EndImplements ==
    ASSUME TypeOK, NEW c \in Conn, Oversized(c) \/ Close(c)
    PROVE  (\E gone \in SUBSET Conn : Contract!Disconnect(gone)) \/ UNCHANGED Contract!contractVars
<1>0. PICK gone \in SUBSET Conn : gone = {c} \cap Live BY DEF Live
<1>1. /\ conn'[c] # "open" /\ \A d \in Conn : d # c => conn'[d] = conn[d]
      /\ UNCHANGED <<phase, on, rid, outcome, chunks, terminals>>
  BY DEF Oversized, Close, TypeOK
<1>2. \A r \in Request : Unanswered(r)' <=> Unanswered(r) BY <1>1 DEF Unanswered
<1>3. gone \subseteq Live BY <1>0
<1>4. \A d \in Conn : d \in gone => conn'[d] # "open" BY <1>0, <1>1
<1>5. \A d \in Conn : d \notin gone => (conn'[d] = "open" <=> conn[d] = "open")
  BY <1>0, <1>1 DEF Live
<1>6. Contract!Disconnect(gone) \/ UNCHANGED Contract!contractVars
  BY <1>1, <1>2, <1>3, <1>4, <1>5, ConnectionsEnd
<1>7. QED BY <1>6

LEMMA CrashImplements ==
    ASSUME TypeOK, Crash
    PROVE  (\E gone \in SUBSET Conn : Contract!Disconnect(gone)) \/ UNCHANGED Contract!contractVars
<1>1. PICK gone \in SUBSET Conn : gone = Live BY DEF Live
<1>2. \A d \in Conn : d \in gone => conn'[d] # "open" BY CrashEffect
<1>3. \A d \in Conn : d \notin gone => (conn'[d] = "open" <=> conn[d] = "open")
  BY <1>1, CrashEffect DEF Live
<1>4. \A d \in Conn \ gone : conn[d] = "open" =>
          \A s \in Request : on[s] = d => (Unanswered(s)' <=> Unanswered(s))
  BY <1>1 DEF Live
<1>5. UNCHANGED <<on, rid, chunks, terminals>> BY CrashEffect
<1>6. Contract!Disconnect(gone) \/ UNCHANGED Contract!contractVars
  BY <1>1, <1>2, <1>3, <1>4, <1>5, ConnectionsEnd
<1>7. QED BY <1>6

LEMMA MessageImplements ==
    ASSUME TypeOK, SlotInv, WireInv, ~ReuseInFlight,
           NEW r \in Request, NEW c \in Conn, NEW i \in Id, Message(r, c, i)
    PROVE  Contract!Ask(c, i) \/ Contract!AskAndAnswer(c, i)
<1>1. \A s \in Request : s # r => /\ on'[s] = on[s] /\ rid'[s] = rid[s]
                                  /\ Unanswered(s)' <=> Unanswered(s)
  BY MessageEffect DEF Unanswered
<1>2. CASE Unanswered(r)' /\ UNCHANGED terminals
  <2>1. Contract!Ask(c, i) BY <1>1, <1>2, MessageEffect, Asks
  <2>2. QED BY <2>1
<1>3. CASE ~Unanswered(r)' /\ SendTerminal(c, i)
  <2>1. Contract!AskAndAnswer(c, i) BY <1>1, <1>3, MessageEffect, AsksAndAnswers
  <2>2. QED BY <2>1
<1>4. QED BY <1>2, <1>3, MessageEffect

LEMMA ProgressImplements ==
    ASSUME TypeOK, SlotInv, WireInv, NEW r \in Request, Progress(r)
    PROVE  \/ Contract!Chunk(on[r], rid[r])
           \/ Contract!Answer(on[r], rid[r])
           \/ UNCHANGED Contract!contractVars
<1>1. \A s \in Request : s # r => (Unanswered(s)' <=> Unanswered(s))
  BY ProgressEffect DEF Unanswered
<1>2. CASE Delta(r)
  <2>1. /\ phase[r] = "streaming"
        /\ chunks' = IF conn[on[r]] = "open"
                     THEN [chunks EXCEPT ![on[r]][rid[r]] = @ + 1] ELSE chunks
        /\ UNCHANGED <<conn, phase, on, rid, outcome, terminals>>
    BY <1>2 DEF Delta
  <2>2. on[r] \in Conn /\ rid[r] \in Id /\ Unanswered(r)
    BY <2>1, UnansweredPlaced DEF Unanswered, InFlight
  <2>3. \A s \in Request : Unanswered(s)' <=> Unanswered(s) BY <2>1 DEF Unanswered
  <2>4. \A d \in Conn, j \in Id : OwedMap'[d][j] = OwedMap[d][j]
    BY <2>1, <2>3, OwedIs, OwedIsNext
  <2>5. OwedMap' = OwedMap /\ Live' = Live BY <2>1, <2>4, MapSame, MapTyped DEF Live
  <2>6. CASE conn[on[r]] = "open"
    <3>1. OwedMap[on[r]][rid[r]] BY <2>2, <2>6, OwedIs
    <3>2. chunks' = [chunks EXCEPT ![on[r]][rid[r]] = @ + 1] BY <2>1, <2>6
    <3>3. Contract!Chunk(on[r], rid[r])
      BY <2>1, <2>5, <3>1, <3>2 DEF Contract!Chunk, OwedMap, Live
    <3>4. QED BY <3>3
  <2>7. CASE conn[on[r]] # "open"
    BY <2>1, <2>5, <2>7 DEF Contract!contractVars, OwedMap, Live
  <2>8. QED BY <2>6, <2>7
<1>3. CASE Unanswered(r)' /\ UNCHANGED <<chunks, terminals>>
  <2>1. \A s \in Request : Unanswered(s)' <=> Unanswered(s) BY <1>1, <1>3, ProgressEffect
  <2>2. UNCHANGED Contract!contractVars BY <1>3, <2>1, ProgressEffect, Unseen
  <2>3. QED BY <2>2
<1>4. CASE ~Unanswered(r)' /\ SendTerminal(on[r], rid[r]) /\ UNCHANGED chunks
  <2>1. Contract!Answer(on[r], rid[r]) \/ UNCHANGED Contract!contractVars
    BY <1>1, <1>4, ProgressEffect, Answers
  <2>2. QED BY <2>1
<1>5. QED BY <1>2, <1>3, <1>4, ProgressEffect

LEMMA StepImplements ==
    ASSUME TypeOK, SlotInv, WireInv, ~ReuseInFlight, [Next]_vars
    PROVE  [Contract!ContractNext]_Contract!contractVars
<1>1. ASSUME NEW c \in Conn, Authenticated(c) PROVE Contract!ContractNext
  BY <1>1, AuthenticatedConnects DEF Contract!ContractNext
<1>2. ASSUME NEW c \in Conn, Oversized(c) \/ Close(c)
      PROVE  Contract!ContractNext \/ UNCHANGED Contract!contractVars
  BY <1>2, EndImplements DEF Contract!ContractNext
<1>3. ASSUME NEW c \in Conn, NEW i \in Id, Cancel(c, i)
      PROVE  UNCHANGED Contract!contractVars
  BY <1>3, Unseen DEF Cancel, Unanswered
<1>4. ASSUME NEW r \in Request, NEW c \in Conn, NEW i \in Id, Message(r, c, i)
      PROVE  Contract!ContractNext
  BY <1>4, MessageImplements DEF Contract!ContractNext
<1>5. ASSUME NEW r \in Request, Progress(r)
      PROVE  Contract!ContractNext \/ UNCHANGED Contract!contractVars
  <2>1. on[r] \in Conn /\ rid[r] \in Id BY <1>5, ProgressEffect, UnansweredPlaced
  <2>2. QED BY <1>5, <2>1, ProgressImplements DEF Contract!ContractNext
<1>6. CASE Crash BY <1>6, CrashImplements DEF Contract!ContractNext
<1>7. CASE UNCHANGED vars BY <1>7, Unseen DEF vars, Unanswered
<1>8. QED BY <1>1, <1>2, <1>3, <1>4, <1>5, <1>6, <1>7 DEF Next

LEMMA InitImplements == Init => Contract!ContractInit
<1> SUFFICES ASSUME Init PROVE Contract!ContractInit OBVIOUS
<1>1. Live = {} BY DEF Init, Live
<1>2. OwedMap = [c \in Conn |-> [i \in Id |-> FALSE]]
  <2>1. \A c \in Conn, i \in Id : OwedMap[c][i] = FALSE BY OwedIs DEF Init
  <2>2. QED BY <2>1 DEF OwedMap
<1>3. QED BY <1>1, <1>2 DEF Init, Contract!ContractInit, OwedMap, Live

-----------------------------------------------------------------------------
(* The theorems.                                                           *)

\* What a client receives for an id is what the contract allows, although the
\* handlers of several requests interleave with cancels, closes and crashes.
THEOREM ContractImplemented == ~ReuseInFlight => (Spec => ImplementsContract)
<1> SUFFICES ASSUME ~ReuseInFlight PROVE Spec => ImplementsContract OBVIOUS
<1>1. TypeOK /\ SlotInv /\ WireInv /\ [Next]_vars => WireInv' BY WireInvStep
<1>2. TypeOK /\ SlotInv /\ WireInv /\ [Next]_vars
        => [Contract!ContractNext]_Contract!contractVars
  BY StepImplements
<1>3. Spec => []SlotInv BY SlotInvariant
<1>4. QED
  BY <1>1, <1>2, <1>3, TypeCorrect, WireInvInit, InitImplements, PTL
     DEF Spec, ImplementsContract, Contract!ContractSpec

\* Whatever the provider does in the turn of the abort, a cancelled stream
\* ends as cancelled, or with the process.
THEOREM CancelIsFinalHolds == Spec => CancelIsFinal
<1> DEFINE Final == \A r \in aborted : phase[r] = "streaming" /\ phase'[r] = "over"
                       => outcome'[r] \in {"cancelled", "killed"}
<1>1. TypeOK /\ [Next]_vars => [Final]_vars
  <2> SUFFICES ASSUME TypeOK, [Next]_vars, NEW s \in aborted,
                      phase[s] = "streaming", phase'[s] = "over"
               PROVE  outcome'[s] \in {"cancelled", "killed"}
    OBVIOUS
  <2> USE DEF TypeOK
  <2>1. s \in Request OBVIOUS
  <2>2. ASSUME NEW c \in Conn, Authenticated(c) \/ Oversized(c) \/ Close(c) PROVE FALSE
    BY <2>2 DEF Authenticated, Oversized, Close
  <2>3. ASSUME NEW c \in Conn, NEW i \in Id, Cancel(c, i) PROVE FALSE BY <2>3 DEF Cancel
  <2>4. ASSUME NEW r \in Request, NEW c \in Conn, NEW i \in Id, Message(r, c, i) PROVE FALSE
    BY <2>1, <2>4 DEF Message, BadRequest, StreamingRequest, ImmediateRequest, ProbingRequest,
       PromptWriteRequest, SettingsSetRequest, Arrives, AnswerAtOnce, Ends
  <2>5. ASSUME NEW r \in Request, Progress(r) PROVE outcome'[s] \in {"cancelled", "killed"}
    <3>1. CASE StreamFinishes(r) BY <2>1, <3>1 DEF StreamFinishes, StreamEnds, Ends
    <3>2. CASE StreamFails(r) BY <2>1, <3>2 DEF StreamFails, StreamEnds, Ends
    <3>3. CASE Delta(r) BY <2>1, <3>3 DEF Delta
    <3>4. CASE Reply(r) BY <2>1, <3>4 DEF Reply, Ends
    <3>5. CASE PromptWriteFails(r) BY <2>1, <3>5 DEF PromptWriteFails, Ends
    <3>6. QED BY <2>5, <3>1, <3>2, <3>3, <3>4, <3>5 DEF Progress
  <2>6. CASE Crash BY <2>1, <2>6 DEF Crash, InFlight
  <2>7. CASE UNCHANGED vars BY <2>7 DEF vars
  <2>8. QED BY <2>2, <2>3, <2>4, <2>5, <2>6, <2>7 DEF Next
<1>2. QED BY <1>1, TypeCorrect, PTL DEF Spec, CancelIsFinal

\* No text is sent for an id after its cancel, not even text the provider had
\* already yielded.
THEOREM NoChunkAfterCancelHolds == ~ReuseInFlight => (Spec => NoChunkAfterCancel)
<1> SUFFICES ASSUME ~ReuseInFlight PROVE Spec => NoChunkAfterCancel OBVIOUS
<1> DEFINE Mute == \A c \in Conn, i \in Id :
          (active[c][i] # None /\ active[c][i] \in aborted) => chunks'[c][i] = chunks[c][i]
<1>1. TypeOK /\ SlotInv /\ [Next]_vars => [Mute]_vars
  <2> SUFFICES ASSUME TypeOK, SlotInv, [Next]_vars, NEW c \in Conn, NEW i \in Id,
                      active[c][i] # None, active[c][i] \in aborted
               PROVE  chunks'[c][i] = chunks[c][i]
    OBVIOUS
  <2>1. ASSUME UNCHANGED chunks PROVE chunks'[c][i] = chunks[c][i] BY <2>1
  <2>2. CASE \E d \in Conn : Authenticated(d) \/ Oversized(d) \/ Close(d)
    BY <2>1, <2>2 DEF Authenticated, Oversized, Close
  <2>3. CASE \E d \in Conn, j \in Id : Cancel(d, j) BY <2>1, <2>3 DEF Cancel
  <2>4. CASE \E r \in Request, d \in Conn, j \in Id : Message(r, d, j)
    BY <2>1, <2>4 DEF Message, BadRequest, StreamingRequest, ImmediateRequest, ProbingRequest,
       PromptWriteRequest, SettingsSetRequest
  <2>5. ASSUME NEW r \in Request, Progress(r) PROVE chunks'[c][i] = chunks[c][i]
    <3>1. CASE Delta(r)
      <4>1. /\ phase[r] = "streaming" /\ r \notin aborted
            /\ chunks' = IF conn[on[r]] = "open"
                         THEN [chunks EXCEPT ![on[r]][rid[r]] = @ + 1] ELSE chunks
        BY <3>1 DEF Delta
      <4>2. CASE conn[on[r]] = "open"
        <5>1. active[on[r]][rid[r]] = r BY <4>1, <4>2 DEF SlotInv
        <5>2. on[r] # c \/ rid[r] # i BY <4>1, <5>1
        <5>3. on[r] \in Conn /\ rid[r] \in Id BY <4>1 DEF SlotInv
        <5>4. QED BY <4>1, <4>2, <5>2, <5>3 DEF TypeOK
      <4>3. CASE conn[on[r]] # "open" BY <4>1, <4>3
      <4>4. QED BY <4>2, <4>3
    <3>2. CASE StreamFinishes(r) \/ StreamFails(r)
      BY <3>2 DEF StreamFinishes, StreamFails, StreamEnds
    <3>3. CASE Reply(r) \/ PromptWriteFails(r) BY <3>3 DEF Reply, PromptWriteFails
    <3>4. QED BY <2>5, <3>1, <3>2, <3>3 DEF Progress
  <2>6. CASE Crash BY <2>6 DEF Crash
  <2>7. CASE UNCHANGED vars BY <2>7 DEF vars
  <2>8. QED BY <2>2, <2>3, <2>4, <2>5, <2>6, <2>7 DEF Next
<1>2. Spec => []SlotInv BY SlotInvariant
<1>3. QED BY <1>1, <1>2, TypeCorrect, PTL DEF Spec, NoChunkAfterCancel
=============================================================================
