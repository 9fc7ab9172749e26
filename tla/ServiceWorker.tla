---------------------------- MODULE ServiceWorker ----------------------------
(***************************************************************************)
(* The extension's service worker (extension/background/service-worker.js):*)
(* its WebSocket, the handshake seen from the client, the pairing token of *)
(* chrome.storage.session, reconnection, and the one request held while    *)
(* the socket is down.                                                     *)
(*                                                                         *)
(* The worker's code runs to its next await without interruption, so each  *)
(* callback, and each piece between two awaits, is one action.  `ws` is    *)
(* one module-level variable, but every socket that was ever created keeps *)
(* its listeners: a socket's events are handled whether or not it is still *)
(* `ws`.  Suspended calls of connectIfNeeded are counted by `reads`: a      *)
(* second one may get past the guards while the first awaits the token.    *)
(*                                                                         *)
(* The broker is what module Handshake says of one origin: it grants       *)
(* whatever a known origin sends, and the permanent secret to any other.   *)
(* Durations are left out.  The two hello timeouts fire when the handshake *)
(* is stuck; firing before a healthy answer is one of the faults.          *)
(***************************************************************************)
EXTENDS Naturals, Sequences, FiniteSets

CONSTANTS
    Socket,     \* the WebSocket objects that may exist at the same time
    Request,    \* what panels ask the worker to send
    None,       \* "no socket", "no request", "no token"
    MaxDoubled, \* bound: overlapping calls and pastes in the life of a worker
    MaxWrites,  \* bound: writes to storage.session pending when a hello-ok arrives
    FaultModels,\* how the environment may misbehave in a behaviour: see FaultModel
    StorageFails \* TRUE: removing the token from storage.session may fail

\* The broker stops; the browser kills the worker; the user deletes the pin or
\* pastes a token; a handshake is slower than its timeouts; a call of
\* connectIfNeeded comes while another is suspended; the token cannot be read;
\* `new WebSocket` throws.
Fault == {"restart", "kill", "revoke", "paste", "slow", "overlap", "unread", "throw"}

\* The kinds of a behaviour's faults, and (bound) how many there are in all.
FaultModel == [kinds : SUBSET Fault, most : Nat]

\* Session tokens are one value: a known origin may send any, stale or not,
\* and an unknown one none.
Token == {"session", "secret", "wrong"}

ASSUME ServiceWorkerAssumption ==
    /\ None \notin Socket \cup Request \cup Token
    /\ MaxDoubled \in Nat
    /\ MaxWrites \in Nat \ {0}
    /\ FaultModels \subseteq FaultModel
    /\ StorageFails \in BOOLEAN

VARIABLES
    \* the worker
    wsState,  \* the state it broadcasts
    ws,       \* Socket \cup {None}
    timers,   \* the sockets whose open event armed a hello timeout still running
    lastTimer,\* helloTimeoutId
    retried,  \* retriedWithoutSecretThisCycle
    reads,    \* calls of connectIfNeeded waiting for storage.session.get
    backoffs, \* TRUE: one or more setTimeouts of scheduleReconnect are running
    held,     \* pendingRequest
    doubled,  \* history: overlapping calls and pastes since the worker started
    \* chrome.storage.session
    stored,   \* its pairingToken
    writes,   \* writes the worker issued, not settled yet, and what follows them
    \* the sockets: what the client sees, and what the broker does
    sock,     \* [Socket -> ReadyState]
    carried,  \* [Socket -> Token \cup {None}]: pairingToken of its closure
    wire,     \* [Socket -> Seq]: frames on their way to the broker
    peer,     \* [Socket -> PeerState]
    \* the rest of the world
    up,       \* the broker listens
    known,    \* the broker knows this origin
    fate,     \* [Request -> Fate]
    allowed,  \* the FaultModel of this behaviour
    faults    \* how often the environment misbehaved

worker == <<wsState, ws, timers, lastTimer, retried, reads, backoffs, held, doubled>>
storage == <<stored, writes>>
network == <<sock, carried, wire, peer>>
world == <<up, known, fate, allowed, faults>>
vars == <<worker, storage, network, world>>

WsState == {"disconnected", "connecting", "handshaking", "connected", "handshake-timeout", "no-token"}

\* "none": the slot is free.  "closing": close() was called here.
ReadyState == {"none", "connecting", "open", "closing"}

\* waiting: no hello handled yet.  granting: hello-ok is on its way.  refused:
\* closed with 4401.  gone: the connection is lost.
PeerState == {"waiting", "granting", "authed", "refused", "gone"}

\* accepted: the broker serves it.  dropped: the panel was told it was
\* abandoned.  lost: the worker died, or the broker never took it.
Fate == {"unsent", "held", "sent", "accepted", "dropped", "lost"}

Then == {"retry", "force", "nothing"}
Write == [token : Token \cup {None}, then : Then]

Hello(t) == [kind |-> "hello", token |-> t]
Ask(r) == [kind |-> "request", request |-> r]

Init ==
    /\ wsState = "disconnected" /\ ws = None
    /\ timers = {} /\ lastTimer = None
    /\ retried = FALSE /\ reads = 0 /\ backoffs = FALSE /\ held = None
    /\ doubled = 0
    /\ stored = None /\ writes = <<>>
    /\ sock = [s \in Socket |-> "none"]
    /\ carried = [s \in Socket |-> None]
    /\ wire = [s \in Socket |-> <<>>]
    /\ peer = [s \in Socket |-> "gone"]
    /\ up = TRUE /\ known \in BOOLEAN
    /\ fate = [r \in Request |-> "unsent"]
    /\ allowed \in FaultModels /\ faults = 0

\* The environment misbehaves once more.
Misbehaves(kind) ==
    /\ kind \in allowed.kinds
    /\ faults < allowed.most
    /\ faults' = faults + 1
    /\ UNCHANGED allowed

-----------------------------------------------------------------------------
(* connectIfNeeded, up to its await, after it, and scheduleReconnect.      *)

\* A call gets past the two early returns.  (Mutant: `ws` is not looked at.)
GoesOnWhateverSocket == wsState \notin {"connected", "connecting", "handshaking"}

GoesOn ==
    /\ wsState \notin {"connected", "connecting", "handshaking"}
    /\ ws = None

ConnectIfNeeded == reads' = IF GoesOn THEN reads + 1 ELSE reads

\* Calls suspended, or due when a write settles.
Due == {n \in 1..Len(writes) : writes[n].then # "nothing"}
Callers == reads + Cardinality(Due)

\* An event makes such a call.  It overlaps another one that has not created
\* its socket yet: neither has changed what the guards read.
Calls ==
    /\ ConnectIfNeeded
    /\ IF GoesOn /\ Callers > 0
       THEN /\ Misbehaves("overlap")
            /\ doubled < MaxDoubled
            /\ doubled' = doubled + 1
       ELSE UNCHANGED <<doubled, allowed, faults>>

\* The 30 s alarm, a panel that opens, the browser's start.
Nudge ==
    /\ GoesOn
    /\ Calls
    /\ UNCHANGED <<wsState, ws, timers, lastTimer, retried, backoffs, held,
                   storage, network, up, known, fate>>

\* storage.session answers with the token before or after a write that is
\* being settled; the guards are not looked at again.
TokenRead(s) ==
    /\ reads > 0
    /\ sock[s] = "none"
    /\ s \notin timers
    /\ \E t \in {stored} \cup {writes[n].token : n \in 1..Len(writes)} :
          carried' = [carried EXCEPT ![s] = t]
    /\ reads' = reads - 1
    /\ wsState' = "connecting"
    /\ ws' = s
    /\ sock' = [sock EXCEPT ![s] = "connecting"]
    /\ peer' = [peer EXCEPT ![s] = IF up THEN "waiting" ELSE "gone"]
    /\ wire' = [wire EXCEPT ![s] = <<>>]
    /\ UNCHANGED <<timers, lastTimer, retried, backoffs, held, doubled, storage, world>>

\* storage.session.get rejects: the call ends there.
TokenUnread ==
    /\ Misbehaves("unread")
    /\ reads > 0
    /\ reads' = reads - 1
    /\ UNCHANGED <<wsState, ws, timers, lastTimer, retried, backoffs, held, doubled,
                   storage, network, up, known, fate>>

\* The token was read and `new WebSocket` throws: `ws` is forgotten, and the
\* state stays "connecting", at which every later call returns.
SocketThrows ==
    /\ Misbehaves("throw")
    /\ reads > 0
    /\ reads' = reads - 1
    /\ wsState' = "connecting"
    /\ ws' = None
    /\ backoffs' = TRUE
    /\ UNCHANGED <<timers, lastTimer, retried, held, doubled, storage, network, up, known, fate>>

BackoffFires ==
    /\ backoffs
    /\ backoffs' = FALSE
    /\ Calls
    /\ UNCHANGED <<wsState, ws, timers, lastTimer, retried, held, storage, network,
                   up, known, fate>>

-----------------------------------------------------------------------------
(* The listeners of a socket.                                              *)

\* open: the hello is sent on `ws`, which may be another socket by now, or
\* none.  When it is missing or still connecting, send throws and the rest of
\* the handler, the timeout, does not run; when it is closing, send does
\* nothing.
SocketOpens(s) ==
    /\ sock[s] = "connecting"
    /\ peer[s] \in {"waiting", "refused"}
    /\ sock' = [sock EXCEPT ![s] = "open"]
    /\ wsState' = "handshaking"
    /\ IF ws = None \/ sock'[ws] = "connecting"
       THEN UNCHANGED <<wire, timers, lastTimer>>
       ELSE /\ wire' = IF sock'[ws] = "open"
                       THEN [wire EXCEPT ![ws] = Append(@, Hello(carried[s]))]
                       ELSE wire
            /\ timers' = timers \cup {s}
            /\ lastTimer' = s
    /\ UNCHANGED <<ws, retried, reads, backoffs, held, doubled, carried, peer, storage, world>>

\* No hello-ok is about to be delivered on s, nor a hello about to be granted.
Stuck(s) == peer[s] # "granting" /\ (peer[s] # "waiting" \/ wire[s] = <<>>)

\* HELLO_TIMEOUT_MS after s opened: whatever socket is current is closed.
HelloTimeout(s) ==
    /\ s \in timers
    /\ \/ Stuck(s) /\ UNCHANGED <<allowed, faults>>
       \/ Misbehaves("slow")
    /\ timers' = timers \ {s}
    /\ IF wsState = "connected"
       THEN UNCHANGED <<wsState, sock>>
       ELSE /\ wsState' = "handshake-timeout"
            /\ sock' = IF ws = None THEN sock ELSE [sock EXCEPT ![ws] = "closing"]
    /\ UNCHANGED <<ws, lastTimer, retried, reads, backoffs, held, doubled, carried, wire, peer,
                   storage, up, known, fate>>

\* flushPendingRequest.
Flush ==
    IF held # None /\ ws # None /\ sock[ws] = "open"
    THEN /\ wire' = [wire EXCEPT ![ws] = Append(@, Ask(held))]
         /\ fate' = [fate EXCEPT ![held] = "sent"]
         /\ held' = None
    ELSE UNCHANGED <<wire, fate, held>>

\* hello-ok: the timeout armed last is cleared, the token is written without
\* waiting, and the held request is sent on `ws`.  A socket that was told to
\* close delivers no message.
HelloOk(s) ==
    /\ sock[s] = "open"
    /\ peer[s] = "granting"
    /\ Len(writes) < MaxWrites
    /\ peer' = [peer EXCEPT ![s] = "authed"]
    /\ timers' = timers \ {lastTimer}
    /\ retried' = FALSE
    /\ writes' = Append(writes, [token |-> "session", then |-> "nothing"])
    /\ wsState' = "connected"
    /\ Flush
    /\ UNCHANGED <<ws, lastTimer, reads, backoffs, doubled, stored, sock, carried, up,
                   known, allowed, faults>>

\* A hello that carried a token was refused, for the first time in this cycle.
\* (Mutant: any time.)
RetryDueAgain(s, code) ==
    code = "4401" /\ wsState = "handshaking" /\ carried[s] # None

RetryDue(s, code) ==
    code = "4401" /\ wsState = "handshaking" /\ carried[s] # None /\ ~retried

\* The token is removed, and only then is the connection tried again.
\* (Mutants: the removal is not waited for; an empty string is stored.)
RetryUnawaited ==
    /\ retried' = TRUE
    /\ wsState' = "disconnected"
    /\ writes' = Append(writes, [token |-> None, then |-> "nothing"])
    /\ reads' = reads + 1
    /\ UNCHANGED backoffs

RetryStoresEmpty ==
    /\ retried' = TRUE
    /\ wsState' = "disconnected"
    /\ writes' = Append(writes, [token |-> "", then |-> "retry"])
    /\ UNCHANGED <<backoffs, reads>>

Retry ==
    /\ retried' = TRUE
    /\ wsState' = "disconnected"
    /\ writes' = Append(writes, [token |-> None, then |-> "retry"])
    /\ UNCHANGED <<backoffs, reads>>

\* A hello without a token that ended unanswered: the alarm will try again.
\* Anything else: the backoff will.  (Mutant: the state is left as it was.)
NoRetryKeepsState(s) ==
    /\ IF carried[s] = None /\ wsState = "handshaking"
       THEN wsState' = "no-token" /\ UNCHANGED backoffs
       ELSE UNCHANGED wsState /\ backoffs' = TRUE
    /\ UNCHANGED <<retried, writes, reads>>

NoRetry(s) ==
    /\ IF carried[s] = None /\ wsState = "handshaking"
       THEN wsState' = "no-token" /\ UNCHANGED backoffs
       ELSE wsState' = "disconnected" /\ backoffs' = TRUE
    /\ UNCHANGED <<retried, writes, reads>>

\* The close listener of socket s: `ws` is forgotten, whichever socket it was.
\* (Mutant: it is kept.)
CloseListenerKeepsWs(s, code) ==
    /\ UNCHANGED ws
    /\ timers' = timers \ {lastTimer}
    /\ IF RetryDue(s, code) THEN Retry ELSE NoRetry(s)

CloseListener(s, code) ==
    /\ ws' = None
    /\ timers' = timers \ {lastTimer}
    /\ IF RetryDue(s, code) THEN Retry ELSE NoRetry(s)

\* The close event: the code is 4401 when the broker refused, unless the
\* worker had closed the socket first.
SocketCloses(s) ==
    /\ \/ sock[s] = "closing"
       \/ sock[s] \in {"connecting", "open"} /\ peer[s] = "gone"
       \/ sock[s] = "open" /\ peer[s] = "refused"
    /\ \E code \in IF peer[s] = "refused" /\ sock[s] = "open" THEN {"4401"}
                   ELSE IF peer[s] = "refused" THEN {"4401", "other"}
                   ELSE {"other"} :
          CloseListener(s, code)
    /\ sock' = [sock EXCEPT ![s] = "none"]
    /\ wire' = [wire EXCEPT ![s] = <<>>]
    /\ carried' = [carried EXCEPT ![s] = None]
    /\ peer' = [peer EXCEPT ![s] = "gone"]
    /\ fate' = [r \in Request |->
                  IF \E n \in 1..Len(wire[s]) : wire[s][n] = Ask(r) THEN "lost" ELSE fate[r]]
    /\ UNCHANGED <<lastTimer, held, doubled, stored, up, known, allowed, faults>>

-----------------------------------------------------------------------------
(* Writes to chrome.storage.session settle in the order they were issued.  *)

\* set-token: a paste or a clear in the options page.
SetToken(t) ==
    /\ Misbehaves("paste")
    /\ doubled < MaxDoubled
    /\ doubled' = doubled + 1
    /\ writes' = Append(writes, [token |-> t, then |-> "force"])
    /\ UNCHANGED <<wsState, ws, timers, lastTimer, retried, reads, backoffs, held,
                   stored, network, up, known, fate>>

\* forceReconnect: the old socket is told to close and forgotten; its close
\* event is still to come.
ForceReconnect ==
    /\ sock' = IF ws = None THEN sock ELSE [sock EXCEPT ![ws] = "closing"]
    /\ ws' = None
    /\ retried' = FALSE
    /\ wsState' = "disconnected"
    /\ reads' = reads + 1

\* A write settles and the code that awaited it runs.  A removal that fails is
\* ignored.
WriteSettles ==
    /\ writes # <<>>
    /\ \/ stored' = Head(writes).token
       \/ StorageFails /\ Head(writes).then = "retry" /\ UNCHANGED stored
    /\ writes' = Tail(writes)
    /\ CASE Head(writes).then = "nothing" ->
              UNCHANGED <<wsState, ws, retried, reads, sock>>
         [] Head(writes).then = "retry" ->
              ConnectIfNeeded /\ UNCHANGED <<wsState, ws, retried, sock>>
         [] Head(writes).then = "force" -> ForceReconnect
    /\ UNCHANGED <<timers, lastTimer, backoffs, held, doubled, carried, wire, peer, world>>

-----------------------------------------------------------------------------
(* sendToBroker and the held request.                                      *)

\* (Mutant: any open socket will do.)
CanSendUnauthed == ws # None /\ sock[ws] = "open"
CanSend == wsState = "connected" /\ ws # None /\ sock[ws] = "open"

SendNow(r) ==
    /\ fate[r] = "unsent"
    /\ CanSend
    /\ wire' = [wire EXCEPT ![ws] = Append(@, Ask(r))]
    /\ fate' = [fate EXCEPT ![r] = "sent"]
    /\ UNCHANGED <<worker, storage, sock, carried, peer, up, known, allowed, faults>>

\* A request that was held already is rejected in favour of the new one.
\* (Mutant: it is forgotten.)
HoldForgets(r) ==
    /\ fate[r] = "unsent"
    /\ ~CanSend
    /\ fate' = [fate EXCEPT ![r] = "held"]
    /\ held' = r
    /\ Calls
    /\ UNCHANGED <<wsState, ws, timers, lastTimer, retried, backoffs, storage,
                   network, up, known>>

Hold(r) ==
    /\ fate[r] = "unsent"
    /\ ~CanSend
    /\ fate' = [q \in Request |->
                  IF q = r THEN "held" ELSE IF q = held THEN "dropped" ELSE fate[q]]
    /\ held' = r
    /\ Calls
    /\ UNCHANGED <<wsState, ws, timers, lastTimer, retried, backoffs, storage,
                   network, up, known>>

\* PENDING_REQUEST_TIMEOUT_MS after it was held.  (Mutant: it stays held.)
HoldExpiresKept ==
    /\ held # None
    /\ fate' = [fate EXCEPT ![held] = "dropped"]
    /\ UNCHANGED <<worker, storage, network, up, known, allowed, faults>>

HoldExpires ==
    /\ held # None
    /\ fate' = [fate EXCEPT ![held] = "dropped"]
    /\ held' = None
    /\ UNCHANGED <<wsState, ws, timers, lastTimer, retried, reads, backoffs, doubled,
                   storage, network, up, known, allowed, faults>>

-----------------------------------------------------------------------------
(* The environment.                                                        *)

\* The broker reads the next frame of s (module Handshake, for one origin).
BrokerReads(s) ==
    LET m == Head(wire[s])
    IN  /\ wire[s] # <<>>
        /\ sock[s] \in {"open", "closing"}
        /\ peer[s] \in {"waiting", "granting", "authed"}
        /\ wire' = [wire EXCEPT ![s] = Tail(@)]
        /\ CASE m.kind = "request" ->
                  /\ fate' = [fate EXCEPT ![m.request] =
                                IF peer[s] = "waiting" THEN "lost" ELSE "accepted"]
                  /\ peer' = IF peer[s] = "waiting" THEN [peer EXCEPT ![s] = "refused"] ELSE peer
                  /\ UNCHANGED known
             [] m.kind = "hello" /\ peer[s] # "waiting" -> UNCHANGED <<fate, peer, known>>
             [] m.kind = "hello" /\ peer[s] = "waiting" ->
                  /\ UNCHANGED fate
                  /\ known' = (known \/ m.token = "secret")
                  /\ peer' = [peer EXCEPT ![s] = IF known' THEN "granting" ELSE "refused"]
    /\ UNCHANGED <<worker, storage, sock, carried, up, allowed, faults>>

\* The broker's own hello timer, 3 s after the connection.
BrokerTimesOut(s) ==
    /\ sock[s] \in {"connecting", "open"}
    /\ peer[s] = "waiting"
    /\ \/ sock[s] = "open" /\ wire[s] = <<>> /\ UNCHANGED <<allowed, faults>>
       \/ Misbehaves("slow")
    /\ peer' = [peer EXCEPT ![s] = "refused"]
    /\ UNCHANGED <<worker, storage, sock, carried, wire, up, known, fate>>

BrokerStops ==
    /\ Misbehaves("restart")
    /\ up
    /\ up' = FALSE
    /\ peer' = [s \in Socket |-> "gone"]
    /\ UNCHANGED <<worker, storage, sock, carried, wire, known, fate>>

BrokerStarts ==
    /\ ~up
    /\ up' = TRUE
    /\ UNCHANGED <<worker, storage, network, known, fate, allowed, faults>>

\* The user deletes this install from the pin file.
Revoked ==
    /\ Misbehaves("revoke")
    /\ known
    /\ known' = FALSE
    /\ UNCHANGED <<worker, storage, network, up, fate>>

\* The browser kills the worker: every variable of the script is reset,
\* sockets and timers are gone, the writes it had issued settle or not.
Killed ==
    /\ Misbehaves("kill")
    /\ wsState' = "disconnected" /\ ws' = None
    /\ timers' = {} /\ lastTimer' = None
    /\ retried' = FALSE /\ reads' = 0 /\ backoffs' = FALSE /\ held' = None
    /\ doubled' = 0
    /\ stored' \in {stored} \cup {writes[n].token : n \in 1..Len(writes)}
    /\ writes' = <<>>
    /\ sock' = [s \in Socket |-> "none"]
    /\ carried' = [s \in Socket |-> None]
    /\ wire' = [s \in Socket |-> <<>>]
    /\ peer' = [s \in Socket |-> "gone"]
    /\ fate' = [r \in Request |-> IF fate[r] \in {"held", "sent"} THEN "lost" ELSE fate[r]]
    /\ UNCHANGED <<up, known>>

-----------------------------------------------------------------------------
Network ==
    \E s \in Socket :
        \/ SocketOpens(s) \/ HelloOk(s) \/ SocketCloses(s) \/ HelloTimeout(s)
        \/ BrokerReads(s) \/ BrokerTimesOut(s)

Next ==
    \/ Nudge \/ BackoffFires \/ WriteSettles \/ TokenUnread \/ SocketThrows
    \/ \E s \in Socket : TokenRead(s)
    \/ Network
    \/ \E t \in {"secret", "wrong", None} : SetToken(t)
    \/ \E r \in Request : SendNow(r) \/ Hold(r)
    \/ HoldExpires
    \/ BrokerStops \/ BrokerStarts \/ Revoked \/ Killed

\* The alarm rings for ever, timers fire, storage answers, sockets report what
\* happened to them, and the broker is started again and reads what it gets.
Fairness ==
    /\ WF_vars(Nudge)
    /\ WF_vars(WriteSettles)
    /\ WF_vars(HoldExpires)
    /\ WF_vars(BrokerStarts)
    /\ WF_vars(\E s \in Socket : TokenRead(s))
    /\ \A s \in Socket :
          /\ WF_vars(SocketOpens(s))
          /\ WF_vars(HelloOk(s))
          /\ WF_vars(SocketCloses(s))
          /\ WF_vars(BrokerReads(s))
          /\ WF_vars(Stuck(s) /\ HelloTimeout(s))
          /\ WF_vars(wire[s] = <<>> /\ BrokerTimesOut(s))

Spec == Init /\ [][Next]_vars
FairSpec == Spec /\ Fairness

-----------------------------------------------------------------------------
(* Properties.                                                             *)

TypeOK ==
    /\ wsState \in WsState
    /\ ws \in Socket \cup {None}
    /\ timers \in SUBSET Socket
    /\ lastTimer \in Socket \cup {None}
    /\ retried \in BOOLEAN
    /\ reads \in Nat
    /\ backoffs \in BOOLEAN
    /\ held \in Request \cup {None}
    /\ doubled \in Nat
    /\ stored \in Token \cup {None}
    /\ writes \in Seq(Write)
    /\ sock \in [Socket -> ReadyState]
    /\ carried \in [Socket -> Token \cup {None}]
    /\ \A s \in Socket : \A n \in 1..Len(wire[s]) :
          \/ wire[s][n] \in {Hello(t) : t \in Token \cup {None}}
          \/ wire[s][n] \in {Ask(r) : r \in Request}
    /\ peer \in [Socket -> PeerState]
    /\ up \in BOOLEAN
    /\ known \in BOOLEAN
    /\ fate \in [Request -> Fate]
    /\ allowed \in FaultModels
    /\ faults \in 0..allowed.most

\* A request that waits for the socket is the one in the slot: none is pushed
\* out of it, or left behind by a reconnection, without the panel being told.
NoRequestForgotten == \A r \in Request : fate[r] = "held" => held = r

\* A request has one fate: one the panel was told is abandoned is never sent
\* afterwards, and one that was sent is never sent again or reported as
\* abandoned, whatever reconnections, replays and timeouts interleave.
OneFate ==
    [][\A r \in Request :
          /\ fate[r] \in {"accepted", "dropped", "lost"} => fate'[r] = fate[r]
          /\ fate[r] = "sent" => fate'[r] \in {"sent", "accepted", "lost"}]_vars

\* The worker has one socket (service-worker.js, "WebSocket client"), and one
\* more for each time that two calls of connectIfNeeded overlapped or a token
\* was pasted: through refusals, retries, backoffs and sockets that clear each
\* other's `ws`, no loop of reconnections adds to them.
SocketsCounted == Cardinality({s \in Socket : sock[s] # "none"}) <= 1 + doubled

\* No request reaches the broker before the hello of its connection was
\* granted, which the broker would take for a failed handshake, until two calls
\* overlapped or a token was pasted in the life of this worker.
NeverBeforeHello ==
    [][\A r \in Request : doubled = 0 /\ fate[r] # "sent" /\ fate'[r] = "sent"
          => ws # None /\ peer'[ws] \notin {"waiting", "refused"}]_vars

\* The attempt that follows a refused token carries none, unless the storage
\* kept it: the token that was refused is not sent again (PROTOCOL.md, "Jeton
\* refuse": the removal is awaited before the new attempt).  An overlapping
\* call may have read it before.
RetryCarriesNoToken ==
    doubled = 0 /\ retried /\ stored = None /\ ws # None /\ sock[ws] # "closing"
        => carried[ws] = None

\* A broker that keeps refusing is not asked over and over at once, even when
\* the refused token cannot be removed from the storage.
NoRefusalLoop ==
    <>[](doubled = 0 => \A n \in 1..Len(writes) : writes[n].then # "retry")

\* The panel is shown as connected and its requests leave.
Usable == CanSend /\ peer[ws] = "authed"

\* Once the environment behaves and the broker knows this install, the worker
\* ends up with a connection its requests can use, without anyone's help.
EventuallyUsable == <>[](known => Usable)

\* `new WebSocket` threw: every call of connectIfNeeded returns at "connecting".
Wedged == ws = None /\ wsState = "connecting"

\* The same while no two calls overlapped and no token was pasted in the life
\* of this worker, after finitely many restarts, deaths, revocations, slow
\* handshakes and failures of the storage: the backoff and the alarm do bring
\* the connection back, except from a constructor that threw.
UsableUnlessDoubled == <>[](known /\ doubled = 0 => Usable \/ Wedged)

\* It shows itself as connected with no socket to send on only once two calls
\* overlapped or a token was pasted: never from restarts, refusals, slow
\* handshakes and retries alone.
ConnectedHasSocket == wsState = "connected" /\ ws = None => doubled > 0
=============================================================================
