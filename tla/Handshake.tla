------------------------------ MODULE Handshake ------------------------------
(***************************************************************************)
(* How a WebSocket becomes authenticated: the origin check and hello timer *)
(* of open(), handleHandshakeMessage's decision table, the session token   *)
(* store and the file of pinned Firefox uuids (broker/src/server.ts,       *)
(* session-tokens.ts, config.ts).                                          *)
(*                                                                         *)
(* An origin is a Chromium extension id of the allowlist, a Firefox        *)
(* install (moz-extension://<uuid>, identified with its uuid), or anything *)
(* else.  The pin file is read from disk at each open and each hello, and  *)
(* the user may delete a line of it at any moment between two handlers.    *)
(* The handlers are synchronous: each is one action.                       *)
(***************************************************************************)
EXTENDS Naturals, Sequences, FiniteSets

CONSTANTS
    Conn,          \* the sockets that may be open at the same time
    Chrome,        \* origins of config.allowedExtensionIds
    Firefox,       \* moz-extension:// uuids
    Foreign,       \* any other Origin header, or none
    Token,         \* session tokens, all different: 256 random bits
    TokenCap,      \* SESSION_TOKEN_CAP
    PinCap,        \* FIREFOX_UUID_CAP
    MaxClock,      \* bound: seconds that go by
    PinFileFails,  \* TRUE: reading or writing the pin file may fail
    None           \* "no origin", "no token"

Origin == Chrome \cup Firefox \cup Foreign

ASSUME HandshakeAssumption ==
    /\ Chrome \cap Firefox = {}
    /\ Chrome \cap Foreign = {}
    /\ Firefox \cap Foreign = {}
    /\ None \notin Origin
    /\ None \notin Token
    /\ TokenCap \in Nat \ {0}
    /\ PinCap \in Nat \ {0}
    /\ MaxClock \in Nat \ {0}
    /\ PinFileFails \in BOOLEAN
    /\ IsFiniteSet(Firefox)

VARIABLES
    conn,      \* [Conn -> ConnState]
    origin,    \* [Conn -> Origin \cup {None}]: ConnData.origin
    timer,     \* the sockets whose helloTimer is armed
    held,      \* [Conn -> Token \cup {None}]: the token hello-ok carried
    via,       \* [Conn -> Via]: how it was granted, or why it was refused
    tokens,    \* SessionTokenStore.byHash: least recently used first
    issuedTo,  \* [Token -> Origin \cup {None}]: TokenEntry.origin, kept after eviction
    pins,      \* [Firefox -> 0..MaxClock]: lastSeen of each line, 0 when there is none
    clock,     \* the date, in seconds
    vouched    \* history: the origins that once presented the permanent secret

vars == <<conn, origin, timer, held, via, tokens, issuedTo, pins, clock, vouched>>

\* closed: there is no such socket, or no more.  waiting: no hello yet.
\* closing: rejected, close(4401) was called.
ConnState == {"closed", "waiting", "closing", "authed"}
Grants    == {"silent", "silent-renew", "secret", "session"}
Refusals  == {"origin", "timeout", "not-hello", "untrusted", "grant-failed"}
Via       == {"none"} \cup Grants \cup Refusals

\* What a hello may carry besides a session token.
Absent    == "no-secret"
Permanent == "permanent-secret"
WrongText == "wrong-secret"

-----------------------------------------------------------------------------
Pinned == {u \in Firefox : pins[u] > 0}

\* evaluateOrigin, on the pin file as it is now.
\* (Mutant: on every uuid that was ever pinned.)
KindOfRemembered(o) ==
    IF o \in Chrome THEN "chrome"
    ELSE IF o \in Firefox
         THEN IF o \in vouched THEN "firefox-known" ELSE "firefox-provisional"
         ELSE "rejected"

KindOf(o) ==
    IF o \in Chrome THEN "chrome"
    ELSE IF o \in Firefox
         THEN IF o \in Pinned THEN "firefox-known" ELSE "firefox-provisional"
         ELSE "rejected"

Known(o) == KindOf(o) \in {"chrome", "firefox-known"}

\* The tokens of the store.
Stored == {tokens[n] : n \in 1..Len(tokens)}

Unissued == {t \in Token : issuedTo[t] = None}

-----------------------------------------------------------------------------
(* SessionTokenStore.                                                      *)

\* lookupOrigin deletes and sets again: the entry becomes the last one.
Touch(s, t) ==
    LET p == CHOOSE n \in 1..Len(s) : s[n] = t
    IN  [n \in 1..Len(s) |->
            IF n < p THEN s[n] ELSE IF n < Len(s) THEN s[n + 1] ELSE t]

\* issue: set, then evictOverflow drops the first entries above the cap.
\* (Mutants: the overflow is dropped from the wrong end; or never.)
EnterDropsNewest(s, t) == IF Len(s) < TokenCap THEN Append(s, t) ELSE s
EnterUnbounded(s, t) == Append(s, t)

Enter(s, t) == IF Len(s) < TokenCap THEN Append(s, t) ELSE Append(Tail(s), t)

-----------------------------------------------------------------------------
(* recordFirefoxSeen, on a file that can be read and written.              *)

\* The entries with the oldest lastSeen.  The scan keeps the first of equal
\* dates and the fresh line is the last one, so the fresh line goes only when
\* it alone is the oldest.  (Mutant: the last of equal dates is kept.)
OldestLast(p, fresh) == {u \in Firefox : p[u] > 0 /\ \A w \in Firefox : p[w] > 0 => p[u] <= p[w]}

Oldest(p, fresh) ==
    LET lines == {u \in Firefox : p[u] > 0}
        least == {u \in lines : \A w \in lines : p[u] <= p[w]}
    IN  IF least = {fresh} THEN {fresh} ELSE least \ {fresh}

\* (Mutant: nothing is evicted.)
RecordUnbounded(u, mayCreate) == pins' = [pins EXCEPT ![u] = clock]

Record(u, mayCreate) ==
    LET fresh == [pins EXCEPT ![u] = clock]
    IN  \/ /\ u \in Pinned
           /\ pins' = fresh
        \/ /\ u \notin Pinned
           /\ ~mayCreate
           /\ UNCHANGED pins
        \/ /\ u \notin Pinned
           /\ mayCreate
           /\ IF Cardinality(Pinned) < PinCap
              THEN pins' = fresh
              ELSE \E gone \in Oldest(fresh, u) : pins' = [fresh EXCEPT ![gone] = 0]

-----------------------------------------------------------------------------
Init ==
    /\ conn = [c \in Conn |-> "closed"]
    /\ origin = [c \in Conn |-> None]
    /\ timer = {}
    /\ held = [c \in Conn |-> None]
    /\ via = [c \in Conn |-> "none"]
    /\ tokens = <<>>
    /\ issuedTo = [t \in Token |-> None]
    /\ pins = [u \in Firefox |-> 0]
    /\ clock = 1
    /\ vouched = {}

\* open(): the timer is armed before the pin file is read; an origin that
\* evaluateOrigin rejects, or a file that cannot be read, closes the socket.
\* (Mutant: the timer is only armed for the sockets that are rejected.)
OpenUntimed(c, o) ==
    /\ conn[c] = "closed"
    /\ origin' = [origin EXCEPT ![c] = o]
    /\ \/ /\ KindOf(o) # "rejected"
          /\ conn' = [conn EXCEPT ![c] = "waiting"]
          /\ UNCHANGED <<via, timer>>
       \/ /\ KindOf(o) = "rejected" \/ PinFileFails
          /\ conn' = [conn EXCEPT ![c] = "closing"]
          /\ timer' = timer \cup {c}
          /\ via' = [via EXCEPT ![c] = "origin"]
    /\ UNCHANGED <<held, tokens, issuedTo, pins, clock, vouched>>

Open(c, o) ==
    /\ conn[c] = "closed"
    /\ origin' = [origin EXCEPT ![c] = o]
    /\ timer' = timer \cup {c}
    /\ \/ /\ KindOf(o) # "rejected"
          /\ conn' = [conn EXCEPT ![c] = "waiting"]
          /\ UNCHANGED via
       \/ /\ KindOf(o) = "rejected" \/ PinFileFails
          /\ conn' = [conn EXCEPT ![c] = "closing"]
          /\ via' = [via EXCEPT ![c] = "origin"]
    /\ UNCHANGED <<held, tokens, issuedTo, pins, clock, vouched>>

\* The 3 s timer fires.
HelloTimeout(c) ==
    /\ c \in timer
    /\ timer' = timer \ {c}
    /\ conn' = [conn EXCEPT ![c] = "closing"]
    /\ via' = [via EXCEPT ![c] = "timeout"]
    /\ UNCHANGED <<origin, held, tokens, issuedTo, pins, clock, vouched>>

-----------------------------------------------------------------------------
(* handleHandshakeMessage.  Every branch first clears the timer.           *)

Receives(c) ==
    /\ conn[c] = "waiting"
    /\ timer' = timer \ {c}

\* rejectHandshake.
Reject(c, why) ==
    /\ conn' = [conn EXCEPT ![c] = "closing"]
    /\ via' = [via EXCEPT ![c] = why]
    /\ UNCHANGED <<held, pins>>

\* grant: the pin is recorded first; when that throws the handshake fails.
\* (Mutant: the failure is swallowed.)
GrantSwallows(c, how, t) ==
    LET o == origin[c]
    IN  \/ /\ IF o \in Firefox
              THEN Record(o, how = "secret" /\ KindOf(o) = "firefox-provisional")
              ELSE UNCHANGED pins
           /\ conn' = [conn EXCEPT ![c] = "authed"]
           /\ held' = [held EXCEPT ![c] = t]
           /\ via' = [via EXCEPT ![c] = how]
        \/ /\ PinFileFails
           /\ o \in Firefox
           /\ UNCHANGED <<conn, held, via, pins>>

Grant(c, how, t) ==
    LET o == origin[c]
    IN  \/ /\ IF o \in Firefox
              THEN Record(o, how = "secret" /\ KindOf(o) = "firefox-provisional")
              ELSE UNCHANGED pins
           /\ conn' = [conn EXCEPT ![c] = "authed"]
           /\ held' = [held EXCEPT ![c] = t]
           /\ via' = [via EXCEPT ![c] = how]
        \/ /\ PinFileFails
           /\ o \in Firefox
           /\ Reject(c, "grant-failed")

\* sessionTokens.issue(origin), then grant: the token is in the store whether
\* or not the grant succeeds.
IssueAndGrant(c, how, store) ==
    \E t \in Unissued :
        /\ tokens' = Enter(store, t)
        /\ issuedTo' = [issuedTo EXCEPT ![t] = origin[c]]
        /\ Grant(c, how, t)

\* The first message is not a readable hello.
NotHello(c) ==
    /\ Receives(c)
    /\ Reject(c, "not-hello")
    /\ UNCHANGED <<origin, tokens, issuedTo, clock, vouched>>

\* The origin is evaluated again: one that is rejected now, or a pin file that
\* cannot be read any more, ends the handshake.
HelloRejected(c) ==
    /\ PinFileFails \/ KindOf(origin[c]) = "rejected"
    /\ Receives(c)
    /\ Reject(c, "origin")
    /\ UNCHANGED <<origin, tokens, issuedTo, clock, vouched>>

\* No secret: a silent grant for a known origin, nothing for another.
\* (Mutant: a silent grant for anyone.)
HelloSilentAnyone(c) ==
    /\ Receives(c)
    /\ IssueAndGrant(c, "silent", tokens)
    /\ UNCHANGED <<origin, clock, vouched>>

HelloSilent(c) ==
    /\ Receives(c)
    /\ IF Known(origin[c])
       THEN IssueAndGrant(c, "silent", tokens)
       ELSE Reject(c, "untrusted") /\ UNCHANGED <<tokens, issuedTo>>
    /\ UNCHANGED <<origin, clock, vouched>>

\* The permanent secret: the only way to pin a provisional origin.
HelloPermanent(c) ==
    /\ Receives(c)
    /\ KindOf(origin[c]) # "rejected"
    /\ IssueAndGrant(c, "secret", tokens)
    /\ vouched' = vouched \cup {origin[c]}
    /\ UNCHANGED <<origin, clock>>

\* Anything else, perhaps a session token.  A known origin that presents a
\* stale or foreign one is granted a fresh one; looking a foreign token up
\* has already marked it most recently used.
\* (Mutants: the token's origin is not compared; a stale token is refused;
\* whatever was presented is echoed.)
HelloTokenEchoes(c, s) ==
    /\ Receives(c)
    /\ IF Known(origin[c])
       THEN Grant(c, "session", s)
       ELSE Reject(c, "untrusted")
    /\ UNCHANGED <<origin, tokens, issuedTo, clock, vouched>>

HelloTokenAnyOrigin(c, s) ==
    /\ Receives(c)
    /\ IF ~Known(origin[c])
       THEN Reject(c, "untrusted") /\ UNCHANGED <<tokens, issuedTo>>
       ELSE IF s \in Stored
            THEN /\ tokens' = Touch(tokens, s)
                 /\ Grant(c, "session", s)
                 /\ UNCHANGED issuedTo
            ELSE IssueAndGrant(c, "silent-renew", tokens)
    /\ UNCHANGED <<origin, clock, vouched>>

HelloTokenRefusesStale(c, s) ==
    /\ Receives(c)
    /\ IF Known(origin[c]) /\ s \in Stored /\ issuedTo[s] = origin[c]
       THEN /\ tokens' = Touch(tokens, s)
            /\ Grant(c, "session", s)
            /\ UNCHANGED issuedTo
       ELSE Reject(c, "untrusted") /\ UNCHANGED <<tokens, issuedTo>>
    /\ UNCHANGED <<origin, clock, vouched>>

HelloToken(c, s) ==
    /\ Receives(c)
    /\ IF ~Known(origin[c])
       THEN Reject(c, "untrusted") /\ UNCHANGED <<tokens, issuedTo>>
       ELSE IF s \in Stored /\ issuedTo[s] = origin[c]
            THEN /\ tokens' = Touch(tokens, s)
                 /\ Grant(c, "session", s)
                 /\ UNCHANGED issuedTo
            ELSE IssueAndGrant(c, "silent-renew",
                               IF s \in Stored THEN Touch(tokens, s) ELSE tokens)
    /\ UNCHANGED <<origin, clock, vouched>>

-----------------------------------------------------------------------------
(* The environment.                                                        *)

\* The close callback: after a rejection, or because the client left.
Close(c) ==
    /\ conn[c] # "closed"
    /\ conn' = [conn EXCEPT ![c] = "closed"]
    /\ origin' = [origin EXCEPT ![c] = None]
    /\ held' = [held EXCEPT ![c] = None]
    /\ via' = [via EXCEPT ![c] = "none"]
    /\ timer' = timer \ {c}
    /\ UNCHANGED <<tokens, issuedTo, pins, clock, vouched>>

\* The user deletes a line of the pin file.
Revoke(u) ==
    /\ u \in Pinned
    /\ pins' = [pins EXCEPT ![u] = 0]
    /\ UNCHANGED <<conn, origin, timer, held, via, tokens, issuedTo, clock, vouched>>

Tick ==
    /\ clock < MaxClock
    /\ clock' = clock + 1
    /\ UNCHANGED <<conn, origin, timer, held, via, tokens, issuedTo, pins, vouched>>

\* The broker restarts: sockets and session tokens are gone, the pin file and
\* the permanent secret are not.
Restart ==
    /\ conn' = [c \in Conn |-> "closed"]
    /\ origin' = [c \in Conn |-> None]
    /\ held' = [c \in Conn |-> None]
    /\ via' = [c \in Conn |-> "none"]
    /\ timer' = {}
    /\ tokens' = <<>>
    /\ UNCHANGED <<issuedTo, pins, clock, vouched>>

-----------------------------------------------------------------------------
Hello(c) ==
    \/ NotHello(c)
    \/ HelloRejected(c)
    \/ HelloSilent(c)
    \/ HelloPermanent(c)
    \/ \E s \in (Token \ Unissued) \cup {WrongText} : HelloToken(c, s)

Next ==
    \/ \E c \in Conn, o \in Origin : Open(c, o)
    \/ \E c \in Conn : Hello(c) \/ HelloTimeout(c) \/ Close(c)
    \/ \E u \in Firefox : Revoke(u)
    \/ Tick
    \/ Restart

\* A timer that is armed fires; a socket that was told to close is closed.
Fairness == \A c \in Conn : WF_vars(HelloTimeout(c)) /\ WF_vars(conn[c] = "closing" /\ Close(c))

Spec == Init /\ [][Next]_vars
FairSpec == Spec /\ Fairness

-----------------------------------------------------------------------------
(* Properties.                                                             *)

TypeOK ==
    /\ conn \in [Conn -> ConnState]
    /\ origin \in [Conn -> Origin \cup {None}]
    /\ timer \in SUBSET Conn
    /\ held \in [Conn -> Token \cup {None}]
    /\ via \in [Conn -> Via]
    /\ tokens \in Seq(Token)
    /\ issuedTo \in [Token -> Origin \cup {None}]
    /\ pins \in [Firefox -> 0..MaxClock]
    /\ clock \in 1..MaxClock
    /\ vouched \in SUBSET Origin

\* Nobody is authenticated by its Origin header alone unless that header is on
\* the allowlist: a Firefox install that is authenticated, or pinned, has
\* presented the permanent secret at some time (PROTOCOL.md, "Cas Firefox":
\* "Epingler exige le secret permanent ; rien d'autre ne l'accorde").
OnlyVouched ==
    /\ \A c \in Conn : conn[c] = "authed" => origin[c] \in Chrome \cup vouched
    /\ Pinned \subseteq vouched

\* The token an authenticated socket holds was issued to its own origin: a
\* token taken from another origin is never accepted.
TokenOfItsOrigin ==
    \A c \in Conn : conn[c] = "authed" => held[c] \in Token /\ issuedTo[held[c]] = origin[c]

\* An unauthenticated socket always has a pending deadline, whatever failed in
\* its handshake so far (server.ts, comment L2 above grant), and the deadline
\* never hits an authenticated one.
WaitingIsTimed ==
    \A c \in Conn : /\ conn[c] = "waiting" => c \in timer
                    /\ c \in timer => conn[c] \in {"waiting", "closing"}

\* The store holds at most SESSION_TOKEN_CAP tokens, none twice, all issued.
StoreInv ==
    /\ Len(tokens) <= TokenCap
    /\ \A m, n \in 1..Len(tokens) : tokens[m] = tokens[n] => m = n
    /\ \A n \in 1..Len(tokens) : issuedTo[tokens[n]] # None

\* At most FIREFOX_UUID_CAP installs are pinned.
PinsWithinCap == Cardinality(Pinned) <= PinCap

Authenticates(c) == conn[c] # "authed" /\ conn'[c] = "authed"

\* The token sent in hello-ok can be used at the next reconnection: issuing it
\* or refreshing it never evicts it.
GrantedTokenStored ==
    [][\A c \in Conn : Authenticates(c) =>
          \E n \in 1..Len(tokens') : tokens'[n] = held'[c]]_vars

\* A Firefox install that is granted is pinned when hello-ok leaves: making
\* room for a new pin never evicts the pin being made.
GrantedIsPinned ==
    [][\A c \in Conn : Authenticates(c) /\ origin[c] \in Firefox => pins'[origin[c]] > 0]_vars

\* What hello-ok gives a client is kept when it leaves: neither cap evicts the
\* very entry that the grant has just made.
GrantIsKept == GrantedTokenStored /\ GrantedIsPinned

\* Deleting a line of the pin file takes effect at once: without the permanent
\* secret an install is granted only if its line is there at hello time,
\* whatever token it holds and whatever open() saw.
RevokedStaysOut ==
    [][\A c \in Conn : Authenticates(c) /\ via'[c] # "secret"
          => origin[c] \in Chrome \cup Pinned]_vars

\* A known origin is never turned away for the token it presents: a restart
\* of the broker, an eviction or a foreign token costs it nothing.
KnownNeverRefused ==
    [][\A c \in Conn : via[c] # "untrusted" /\ via'[c] = "untrusted" => ~Known(origin[c])]_vars

\* No socket stays unauthenticated for ever.
HandshakeEnds == \A c \in Conn : conn[c] \in {"waiting", "closing"} ~> conn[c] \in {"authed", "closed"}
=============================================================================
