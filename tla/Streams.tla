------------------------------- MODULE Streams -------------------------------
(***************************************************************************)
(* The authenticated half of the broker (broker/src/server.ts): what       *)
(* handleMessage and runStream do with the messages of each connection.    *)
(*                                                                         *)
(* A request is one message that carries an id; the id is chosen by the    *)
(* client, so two requests may carry the same one.  `active` is            *)
(* ConnData.active, the Map from id to AbortController: it is keyed by id, *)
(* and the controller is identified with the request that created it.      *)
(* Every callback of the event loop is one action: the arrival of a        *)
(* message, an event of the provider's stream, the settling of an          *)
(* asynchronous answer, the close of a socket.                             *)
(*                                                                         *)
(* chunks and terminals are what the client received for an id; they are   *)
(* the wire, and the only history the properties need.                     *)
(***************************************************************************)
EXTENDS Naturals, FiniteSets

CONSTANTS
    Conn,                  \* the connections a broker may see
    Request,               \* the id-carrying messages its clients may send
    Id,                    \* the ids clients choose from
    None,                  \* "no entry", "no connection", "no id"
    MaxConcurrentStreams,  \* MAX_CONCURRENT_STREAMS
    MaxChunks,             \* bound: deltas a client receives for one id
    ReuseInFlight,         \* TRUE: a client may reuse an id before its terminal
    WriteFailures          \* TRUE: writing prompts.json or config.json may fail

ASSUME StreamsAssumption ==
    /\ IsFiniteSet(Id)
    /\ MaxConcurrentStreams \in Nat
    /\ MaxChunks \in Nat
    /\ ReuseInFlight \in BOOLEAN
    /\ WriteFailures \in BOOLEAN
    /\ None \notin Conn
    /\ None \notin Id
    /\ None \notin Request

VARIABLES
    conn,       \* [Conn -> ConnState]
    phase,      \* [Request -> Phase]
    on,         \* [Request -> Conn \cup {None}]: the connection it came on
    rid,        \* [Request -> Id \cup {None}]: the id it carries
    outcome,    \* [Request -> Outcome]: how it ended
    aborted,    \* the requests whose AbortController was aborted
    active,     \* [Conn -> [Id -> Request \cup {None}]]: ConnData.active
    chunks,     \* [Conn -> [Id -> Nat]]
    terminals   \* [Conn -> [Id -> Nat]]

vars == <<conn, phase, on, rid, outcome, aborted, active, chunks, terminals>>

ConnState == {"unused", "open", "closing", "closed"}
Phase     == {"unsent", "streaming", "awaiting", "writing", "over"}
InFlight  == {"streaming", "awaiting", "writing"}
ErrorCode == {"auth-required", "model-unavailable", "internal"}
Outcome   == {"none", "done", "cancelled", "refused", "reply", "silent", "killed"} \cup ErrorCode

-----------------------------------------------------------------------------
\* The requests of connection c with id i that got no terminal.
Pending(c, i) ==
    {r \in Request : /\ on[r] = c /\ rid[r] = i
                     /\ phase[r] \in InFlight \/ outcome[r] = "silent"}

\* The model streams running for connection c: one `claude` process each.
LiveStreams(c) == {r \in Request : phase[r] = "streaming" /\ on[r] = c}

\* active.size
Slots(c) == {i \in Id : active[c][i] # None}

\* The ids a client may put on a new message.
MaySend(c, i) == ReuseInFlight \/ Pending(c, i) = {}

Init ==
    /\ conn = [c \in Conn |-> "unused"]
    /\ phase = [r \in Request |-> "unsent"]
    /\ on = [r \in Request |-> None]
    /\ rid = [r \in Request |-> None]
    /\ outcome = [r \in Request |-> "none"]
    /\ aborted = {}
    /\ active = [c \in Conn |-> [i \in Id |-> None]]
    /\ chunks = [c \in Conn |-> [i \in Id |-> 0]]
    /\ terminals = [c \in Conn |-> [i \in Id |-> 0]]

\* The handshake ended in hello-ok (module Handshake): messages are served.
Authenticated(c) ==
    /\ conn[c] = "unused"
    /\ conn' = [conn EXCEPT ![c] = "open"]
    /\ UNCHANGED <<phase, on, rid, outcome, aborted, active, chunks, terminals>>

-----------------------------------------------------------------------------
(* Pieces of the handlers.                                                 *)

\* A message with id i arrives on c and becomes request r.
Arrives(r, c, i) ==
    /\ phase[r] = "unsent"
    /\ conn[c] = "open"
    /\ MaySend(c, i)
    /\ on' = [on EXCEPT ![r] = c]
    /\ rid' = [rid EXCEPT ![r] = i]

\* send() of a terminal: a socket that is no longer open drops the frame.
SendTerminal(c, i) ==
    terminals' = IF conn[c] = "open" THEN [terminals EXCEPT ![c][i] = @ + 1] ELSE terminals

Ends(r, how) ==
    /\ phase' = [phase EXCEPT ![r] = "over"]
    /\ outcome' = [outcome EXCEPT ![r] = how]

AnswerAtOnce(r, c, i, how) ==
    /\ Ends(r, how)
    /\ SendTerminal(c, i)

\* The cap of handleStreamingRequest.  (Mutant: off by one.)
SlotFreeOffByOne(c) == Cardinality(Slots(c)) <= MaxConcurrentStreams
SlotFree(c) == Cardinality(Slots(c)) < MaxConcurrentStreams

-----------------------------------------------------------------------------
(* handleMessage.                                                          *)

\* (Mutant: the refusal does not return.)
StreamingRequestRefusedAndRun(r, c, i) ==
    /\ Arrives(r, c, i)
    /\ \E fits \in BOOLEAN :
          /\ terminals' = IF fits /\ SlotFree(c) THEN terminals ELSE [terminals EXCEPT ![c][i] = @ + 1]
          /\ phase' = [phase EXCEPT ![r] = "streaming"]
          /\ active' = [active EXCEPT ![c][i] = r]
    /\ UNCHANGED <<conn, outcome, aborted, chunks>>

\* chat, summarize, act: the text and context limits are checked before the
\* cap; a request that passes both opens a slot and starts a stream.
StreamingRequest(r, c, i) ==
    /\ Arrives(r, c, i)
    /\ \E fits \in BOOLEAN :
          \/ /\ ~fits \/ ~SlotFree(c)
             /\ AnswerAtOnce(r, c, i, "refused")
             /\ UNCHANGED active
          \/ /\ fits /\ SlotFree(c)
             /\ phase' = [phase EXCEPT ![r] = "streaming"]
             /\ active' = [active EXCEPT ![c][i] = r]
             /\ UNCHANGED <<outcome, terminals>>
    /\ UNCHANGED <<conn, aborted, chunks>>

\* parseClientMessage finds that it is none of the messages: answered
\* bad-request if it has a readable id (and nothing happens if it has none).
BadRequest(r, c, i) ==
    /\ Arrives(r, c, i)
    /\ AnswerAtOnce(r, c, i, "refused")
    /\ UNCHANGED <<conn, aborted, active, chunks>>

\* prompts.list is answered from disk in the handler.
ImmediateRequest(r, c, i) ==
    /\ Arrives(r, c, i)
    /\ AnswerAtOnce(r, c, i, "reply")
    /\ UNCHANGED <<conn, aborted, active, chunks>>

\* settings.get, settings.test, provider.status: the answer follows a probe.
ProbingRequest(r, c, i) ==
    /\ Arrives(r, c, i)
    /\ phase' = [phase EXCEPT ![r] = "awaiting"]
    /\ UNCHANGED <<conn, outcome, aborted, active, chunks, terminals>>

\* prompts.save, prompts.delete: queued behind the directory's lock.
PromptWriteRequest(r, c, i) ==
    /\ Arrives(r, c, i)
    /\ phase' = [phase EXCEPT ![r] = "writing"]
    /\ UNCHANGED <<conn, outcome, aborted, active, chunks, terminals>>

\* settings.set: applySettings writes config.json inside the handler; when the
\* write throws the handler is left before any answer is prepared.
SettingsSetRequest(r, c, i) ==
    /\ Arrives(r, c, i)
    /\ \/ /\ phase' = [phase EXCEPT ![r] = "awaiting"]
          /\ UNCHANGED outcome
       \/ /\ WriteFailures
          /\ Ends(r, "silent")
    /\ UNCHANGED <<conn, aborted, active, chunks, terminals>>

\* cancel: active.get(target)?.abort().  It has no terminal of its own, and a
\* target that is not in flight is ignored.
\* (Mutant: the entry is deleted at once.)
CancelForgets(c, target) ==
    /\ conn[c] = "open"
    /\ active[c][target] # None
    /\ aborted' = aborted \cup {active[c][target]}
    /\ active' = [active EXCEPT ![c][target] = None]
    /\ UNCHANGED <<conn, phase, on, rid, outcome, chunks, terminals>>

Cancel(c, target) ==
    /\ conn[c] = "open"
    /\ active[c][target] # None
    /\ aborted' = aborted \cup {active[c][target]}
    /\ UNCHANGED <<conn, phase, on, rid, outcome, active, chunks, terminals>>

-----------------------------------------------------------------------------
(* runStream: what happens to request r's for-await loop.                  *)

\* The finally block deletes the entry of the id, whoever holds it.
ReleaseSlot(c, i) == active' = [active EXCEPT ![c][i] = None]

\* (Mutants: the abort is not looked at; the cancelled branch sends nothing.)
StreamEndsUnchecked(r, how) ==
    /\ Ends(r, how)
    /\ SendTerminal(on[r], rid[r])
    /\ ReleaseSlot(on[r], rid[r])
    /\ UNCHANGED <<conn, on, rid, aborted, chunks>>

StreamEndsMute(r, how) ==
    /\ Ends(r, IF r \in aborted THEN "silent" ELSE how)
    /\ IF r \in aborted THEN UNCHANGED terminals ELSE SendTerminal(on[r], rid[r])
    /\ ReleaseSlot(on[r], rid[r])
    /\ UNCHANGED <<conn, on, rid, aborted, chunks>>

\* Every exit of the loop looks at the abort signal first.
StreamEnds(r, how) ==
    /\ Ends(r, IF r \in aborted THEN "cancelled" ELSE how)
    /\ SendTerminal(on[r], rid[r])
    /\ ReleaseSlot(on[r], rid[r])
    /\ UNCHANGED <<conn, on, rid, aborted, chunks>>

\* The provider yields text.  After an abort the loop breaks on it.
\* (Mutant: it does not.)
DeltaUnchecked(r) ==
    LET c == on[r]
        i == rid[r]
    IN  /\ phase[r] = "streaming"
        /\ chunks[c][i] < MaxChunks
        /\ chunks' = IF conn[c] = "open" THEN [chunks EXCEPT ![c][i] = @ + 1] ELSE chunks
        /\ UNCHANGED <<conn, phase, on, rid, outcome, aborted, active, terminals>>

Delta(r) ==
    LET c == on[r]
        i == rid[r]
    IN  /\ phase[r] = "streaming"
        /\ r \notin aborted
        /\ chunks[c][i] < MaxChunks
        /\ chunks' = IF conn[c] = "open" THEN [chunks EXCEPT ![c][i] = @ + 1] ELSE chunks
        /\ UNCHANGED <<conn, phase, on, rid, outcome, aborted, active, terminals>>

\* The provider's iterator finishes, or an event reaches an aborted loop.
StreamFinishes(r) ==
    /\ phase[r] = "streaming"
    /\ StreamEnds(r, "done")

\* The provider throws: its own failure, its timeout, or the abort's echo.
StreamFails(r) ==
    /\ phase[r] = "streaming"
    /\ \E code \in ErrorCode : StreamEnds(r, code)

-----------------------------------------------------------------------------
(* Answers that were prepared asynchronously.                              *)

Reply(r) ==
    /\ phase[r] \in {"awaiting", "writing"}
    /\ Ends(r, "reply")
    /\ SendTerminal(on[r], rid[r])
    /\ UNCHANGED <<conn, on, rid, aborted, active, chunks>>

\* savePrompt or deletePrompt rejects: the handler's promise chain has no
\* catch, so nothing is sent for the id.
PromptWriteFails(r) ==
    /\ WriteFailures
    /\ phase[r] = "writing"
    /\ Ends(r, "silent")
    /\ UNCHANGED <<conn, on, rid, aborted, active, chunks, terminals>>

-----------------------------------------------------------------------------
(* The end of a connection.                                                *)

\* A message above MAX_MESSAGE_BYTES: an error for the reserved id
\* "oversized", then close(1009).
Oversized(c) ==
    /\ conn[c] = "open"
    /\ conn' = [conn EXCEPT ![c] = "closing"]
    /\ UNCHANGED <<phase, on, rid, outcome, aborted, active, chunks, terminals>>

\* The close callback, whoever closed: every controller of the map is
\* aborted and the map is emptied.  (Mutants: no abort; the map is dropped.)
CloseWithoutAbort(c) ==
    /\ conn[c] \in {"open", "closing"}
    /\ conn' = [conn EXCEPT ![c] = "closed"]
    /\ active' = [active EXCEPT ![c] = [i \in Id |-> None]]
    /\ UNCHANGED <<phase, on, rid, outcome, aborted, chunks, terminals>>

CloseDropsMap(c) ==
    /\ conn[c] \in {"open", "closing"}
    /\ conn' = [conn EXCEPT ![c] = "closed"]
    /\ aborted' = aborted \cup {active[c][i] : i \in Slots(c)}
    /\ active' = [active EXCEPT ![c] = None]
    /\ UNCHANGED <<phase, on, rid, outcome, chunks, terminals>>

Close(c) ==
    /\ conn[c] \in {"open", "closing"}
    /\ conn' = [conn EXCEPT ![c] = "closed"]
    /\ aborted' = aborted \cup {active[c][i] : i \in Slots(c)}
    /\ active' = [active EXCEPT ![c] = [i \in Id |-> None]]
    /\ UNCHANGED <<phase, on, rid, outcome, chunks, terminals>>

\* The process dies (a restart by systemd, or a rejection nothing handles).
Crash ==
    /\ \E c \in Conn : conn[c] \in {"open", "closing"}
    /\ conn' = [c \in Conn |-> IF conn[c] = "unused" THEN "unused" ELSE "closed"]
    /\ phase' = [r \in Request |-> IF phase[r] \in InFlight THEN "over" ELSE phase[r]]
    /\ outcome' = [r \in Request |-> IF phase[r] \in InFlight THEN "killed" ELSE outcome[r]]
    /\ active' = [c \in Conn |-> [i \in Id |-> None]]
    /\ UNCHANGED <<on, rid, aborted, chunks, terminals>>

-----------------------------------------------------------------------------
Message(r, c, i) ==
    \/ BadRequest(r, c, i)
    \/ StreamingRequest(r, c, i)
    \/ ImmediateRequest(r, c, i)
    \/ ProbingRequest(r, c, i)
    \/ PromptWriteRequest(r, c, i)
    \/ SettingsSetRequest(r, c, i)

Progress(r) ==
    \/ Delta(r)
    \/ StreamFinishes(r)
    \/ StreamFails(r)
    \/ Reply(r)
    \/ PromptWriteFails(r)

Next ==
    \/ \E c \in Conn : Authenticated(c) \/ Oversized(c) \/ Close(c)
    \/ \E c \in Conn, i \in Id : Cancel(c, i)
    \/ \E r \in Request, c \in Conn, i \in Id : Message(r, c, i)
    \/ \E r \in Request : Progress(r)
    \/ Crash

\* Providers settle: streamAnswer arms a MODEL_TIMEOUT_MS timer, testing a
\* connection and probing a status have timeouts of their own.
\* A socket that was closed gets its close callback.
Fairness ==
    /\ \A r \in Request : WF_vars(StreamFinishes(r) \/ StreamFails(r) \/ Reply(r) \/ PromptWriteFails(r))
    /\ \A c \in Conn : WF_vars(conn[c] = "closing" /\ Close(c))

Spec == Init /\ [][Next]_vars
FairSpec == Spec /\ Fairness

-----------------------------------------------------------------------------
(* Properties.                                                             *)

TypeOK ==
    /\ conn \in [Conn -> ConnState]
    /\ phase \in [Request -> Phase]
    /\ on \in [Request -> Conn \cup {None}]
    /\ rid \in [Request -> Id \cup {None}]
    /\ outcome \in [Request -> Outcome]
    /\ aborted \in SUBSET Request
    /\ active \in [Conn -> [Id -> Request \cup {None}]]
    /\ chunks \in [Conn -> [Id -> Nat]]
    /\ terminals \in [Conn -> [Id -> Nat]]

\* A connection never has more than MAX_CONCURRENT_STREAMS model streams
\* running, cancelled ones that have not unwound included (server.ts, the
\* comment above MAX_CONCURRENT_STREAMS; PROTOCOL.md "Limites cote broker").
StreamCap == \A c \in Conn : conn[c] = "open" => Cardinality(LiveStreams(c)) <= MaxConcurrentStreams

\* As long as a connection is open, each of its running streams can be
\* reached by the `cancel` of its id: the map holds that very stream.
EveryStreamCancellable ==
    \A r \in Request :
        phase[r] = "streaming" /\ conn[on[r]] = "open" => active[on[r]][rid[r]] = r

\* Once a connection is closed, none of its streams runs on unaborted: no
\* `claude` process is left working for a client that is gone.
NoOrphanStream ==
    \A r \in Request : phase[r] = "streaming" /\ conn[on[r]] = "closed" => r \in aborted

\* The inductive invariant behind the three above, for clients that never
\* reuse an id in flight: the entries of the map and the running streams of
\* the connections still up correspond one to one, and the map's size is
\* within the cap.
SlotInv ==
    /\ \A r \in Request : phase[r] # "unsent" =>
          on[r] \in Conn /\ rid[r] \in Id /\ conn[on[r]] # "unused"
    /\ \A r \in Request : phase[r] = "streaming" =>
          IF conn[on[r]] = "closed" THEN r \in aborted ELSE active[on[r]][rid[r]] = r
    /\ \A c \in Conn, i \in Id : active[c][i] # None =>
          /\ phase[active[c][i]] = "streaming"
          /\ on[active[c][i]] = c
          /\ rid[active[c][i]] = i
          /\ conn[c] \in {"open", "closing"}
    /\ \A c \in Conn : Cardinality(Slots(c)) <= MaxConcurrentStreams

\* A stream that was cancelled ends as `cancelled`, even when the provider
\* finishes or fails in the same turn.
CancelIsFinal ==
    [][\A r \in aborted : phase[r] = "streaming" /\ phase'[r] = "over"
          => outcome'[r] \in {"cancelled", "killed"}]_vars

\* A client receives no further text for an id after it cancelled it.
NoChunkAfterCancel ==
    [][\A c \in Conn, i \in Id :
          (active[c][i] # None /\ active[c][i] \in aborted) => chunks'[c][i] = chunks[c][i]]_vars

\* The abstract contract, read off the wire: an open connection owes an id its
\* terminal while a request with that id got none.
Owed(c, i) == conn[c] = "open" /\ Pending(c, i) # {}

Contract == INSTANCE RequestContract WITH
    live <- {c \in Conn : conn[c] = "open"},
    owed <- [c \in Conn |-> [i \in Id |-> Owed(c, i)]]

\* The broker implements the contract: chunks only for an id that is owed an
\* answer, one terminal per id asked, none after the connection ended.
ImplementsContract == Contract!ContractSpec

\* An id gets its terminal unless its connection ends or the write it asked
\* for failed (never a stream that was cancelled): nothing else, whatever
\* cancels, closes and provider failures come between, leaves a client of an
\* open connection without an answer.
Lost(c, i) == \E r \in Pending(c, i) \ aborted : outcome[r] = "silent"
AnsweredUnlessLost == \A c \in Conn, i \in Id : Owed(c, i) ~> ~Owed(c, i) \/ Lost(c, i)

\* An id gets its terminal unless the connection ends (PROTOCOL.md, "Regles
\* invariantes").
EveryIdAnswered == \A c \in Conn, i \in Id : Owed(c, i) ~> ~Owed(c, i)
=============================================================================
