------------------------------ MODULE Providers ------------------------------
(***************************************************************************)
(* One call of a model provider, from runStream (server.ts) to its         *)
(* terminal: providers/ollama.ts, claude-api.ts, claude-cli.ts and the     *)
(* error classes of model.ts, against a clock.                             *)
(*                                                                         *)
(* The world of a call (what is configured, installed and accepted) does   *)
(* not change while it runs.  Timers are urgent: time does not pass a      *)
(* timer that is due, and a fetch or a query that was aborted settles      *)
(* before time passes.  But the billed probe is only killed by its timer:  *)
(* it answers when its output is closed, which may be never.  Chunks are   *)
(* Streams' matter and are left out.                                       *)
(***************************************************************************)
EXTENDS Naturals

CONSTANTS
    TagsTimeout,   \* ollama's /api/tags
    ModelTimeout,  \* MODEL_TIMEOUT_MS
    StatusTimeout, \* AUTH_STATUS_OUTER_TIMEOUT_MS
    PingTimeout,   \* AUTH_PROBE_TIMEOUT_MS, which kills
    Horizon        \* bound: the clock stops there, after every timer

ASSUME ProvidersAssumption ==
    /\ {TagsTimeout, ModelTimeout, StatusTimeout, PingTimeout, Horizon} \subseteq Nat
    /\ TagsTimeout + ModelTimeout + StatusTimeout + PingTimeout < Horizon

VARIABLES
    world,    \* World
    stage,    \* Stage
    now,      \* the clock
    since,    \* when the stage began
    armed,    \* when the model's timer was armed
    timedOut, \* it fired
    aborted,  \* the request was cancelled, or its connection closed
    lost,     \* the network or a probe gave no answer
    hung,     \* the billed probe was killed and has not closed its output
    terminal  \* Terminal

vars == <<world, stage, now, since, armed, timedOut, aborted, lost, hung, terminal>>

\* exact, prefix, absent: how the configured model is among the installed ones
\* ("llama3.2" among "llama3.2:latest" is prefix).
Ollama == [provider : {"ollama"},
           model : {"none", "exact", "prefix", "absent"},
           daemon : {"up", "empty", "down"}]
Api == [provider : {"claude-api"}, key : {"none", "good", "refused"}]
\* executable: the user's can be run; the SDK's copy hangs or exits.  closed: not
\* logged in.  revoked: logged in here, refused by the server.
Cli == [provider : {"claude-cli"},
        executable : BOOLEAN,
        session : {"open", "revoked", "closed"}]
World == {w \in Ollama : w.daemon = "empty" => w.model \in {"none", "absent"}} \cup Api \cup Cli

Stage == {"start", "tags", "asked", "streaming", "status", "ping", "over"}
Terminal == {"none", "done", "cancelled", "auth-required", "model-unavailable", "internal"}

Init ==
    /\ world \in World
    /\ stage = "start"
    /\ now = 0 /\ since = 0 /\ armed = 0
    /\ timedOut = FALSE /\ aborted = FALSE /\ lost = FALSE /\ hung = FALSE
    /\ terminal = "none"

\* matchesModel.
Installed(w) == w.daemon = "up" /\ w.model \in {"exact", "prefix"}

-----------------------------------------------------------------------------
(* runStream.                                                              *)

Over(t) ==
    /\ stage' = "over" /\ terminal' = t /\ since' = now
    /\ UNCHANGED <<world, now, armed, timedOut, aborted, hung>>

\* The stream ended by itself.
Ends == Over(IF aborted THEN "cancelled" ELSE "done")

\* isAuthRequiredError, isModelUnavailableError; of what is "broken" the text
\* decides.
Codes(error) ==
    CASE error = "auth" -> {"auth-required"}
      [] error \in {"timeout", "unavailable"} -> {"model-unavailable"}
      [] error = "broken" -> {"model-unavailable", "internal"}
      [] error = "other" -> {"internal"}

\* It threw.
Throws(error) ==
    IF aborted THEN Over("cancelled") ELSE \E code \in Codes(error) : Over(code)

\* The provider goes on.
Goes(next) ==
    /\ stage' = next /\ since' = now
    /\ UNCHANGED <<world, now, timedOut, aborted, lost, hung, terminal>>

Keeps == UNCHANGED lost
Loses == lost' = TRUE

\* cancel, or the connection closes.
Cancel ==
    /\ stage \notin {"start", "over"} /\ ~aborted
    /\ aborted' = TRUE
    /\ UNCHANGED <<world, stage, now, since, armed, timedOut, lost, hung, terminal>>

-----------------------------------------------------------------------------
(* What the three providers share: the timer around the stream.            *)

InStream == stage \in {"asked", "streaming"}

\* The query, the fetch or its body was aborted.  (Mutant: the timer only
\* takes note.)
HaltedByUser == InStream /\ aborted
Halted == InStream /\ (aborted \/ timedOut)

ModelTimer ==
    /\ stage \in {"asked", "streaming", "status", "ping"}
    /\ ~timedOut /\ now = armed + ModelTimeout
    /\ timedOut' = TRUE
    /\ UNCHANGED <<world, stage, now, since, armed, aborted, lost, hung, terminal>>

\* An aborted stream throws, or has just ended by itself.
Halt ==
    /\ Halted
    /\ Keeps
    /\ Throws(IF timedOut THEN "timeout" ELSE "broken")

\* The answer begins; it ends.
Serves(w) ==
    CASE w.provider = "ollama" -> Installed(w)
      [] w.provider = "claude-api" -> w.key = "good"
      [] w.provider = "claude-cli" -> w.executable /\ w.session = "open"
Answers ==
    /\ stage = "asked" /\ ~Halted /\ Serves(world)
    /\ Goes("streaming") /\ UNCHANGED armed
\* parseNdjsonStream, parseSseStream and the SDK end with the body, whether or
\* not the answer was complete.
Finishes ==
    /\ stage = "streaming" /\ ~Halted
    /\ Keeps /\ Ends

-----------------------------------------------------------------------------
(* providers/ollama.ts                                                     *)

OllamaBegins ==
    /\ stage = "start" /\ world.provider = "ollama"
    /\ IF world.model = "none" THEN Keeps /\ Throws("unavailable")
       ELSE Goes("tags") /\ UNCHANGED armed

\* fetchModelNames, which no cancel stops.
Tags ==
    /\ stage = "tags" /\ world.daemon # "down"
    /\ IF Installed(world) THEN Goes("asked") /\ armed' = now
       ELSE Keeps /\ Throws("unavailable")
TagsFail ==
    /\ stage = "tags" /\ (world.daemon = "down" \/ now = since + TagsTimeout)
    /\ Loses /\ Throws("unavailable")

\* /api/chat: no connection, not a 2xx, or no body.
OllamaFails ==
    /\ world.provider = "ollama" /\ stage = "asked" /\ ~Halted
    /\ Loses
    /\ \E error \in {"unavailable", "other"} : Throws(error)

\* parseNdjsonStream: a line that names an error, or a broken body.
OllamaBreaks ==
    /\ world.provider = "ollama" /\ stage = "streaming" /\ ~Halted
    /\ Loses /\ Throws("broken")

-----------------------------------------------------------------------------
(* providers/claude-api.ts                                                 *)

ApiBegins ==
    /\ stage = "start" /\ world.provider = "claude-api"
    /\ IF world.key = "none" THEN Keeps /\ Throws("unavailable")
       ELSE Goes("asked") /\ armed' = now

\* 401 and 403.
ApiRefuses ==
    /\ world.provider = "claude-api" /\ stage = "asked" /\ ~Halted
    /\ world.key = "refused"
    /\ Keeps /\ Throws("auth")

\* No connection, 429 and 5xx, or another status.
ApiFails ==
    /\ world.provider = "claude-api" /\ stage = "asked" /\ ~Halted
    /\ Loses
    /\ \E error \in {"unavailable", "other"} : Throws(error)

\* parseSseStream: an error event, or a broken body.
ApiBreaks ==
    /\ world.provider = "claude-api" /\ stage = "streaming" /\ ~Halted
    /\ Loses /\ Throws("broken")

-----------------------------------------------------------------------------
(* providers/claude-cli.ts                                                 *)

CliBegins ==
    /\ stage = "start" /\ world.provider = "claude-cli"
    /\ Goes("asked") /\ armed' = now

\* looksLikeAuthFailure: whether what a process said names the session.  The
\* pattern is tolerant, and finds it where it is not meant (claude-cli.ts:138-144).
LooksLikeAuthFailure == BOOLEAN

\* The process failed, or could not be started.  What it said decides, and then
\* the probes, if there is an executable to ask.
CliFails ==
    /\ world.provider = "claude-cli" /\ InStream /\ ~Halted
    /\ \E named \in LooksLikeAuthFailure :
          IF named THEN Keeps /\ Throws("auth")
          ELSE IF world.executable THEN Goes("status") /\ UNCHANGED armed
          ELSE Keeps /\ Throws("broken")

\* probeAuthFailure, first half: the free probe.  (Mutant: what it says is
\* enough.)
StatusTrusted ==
    /\ stage = "status"
    /\ Keeps /\ Throws(IF world.session = "closed" THEN "auth" ELSE "broken")
Status ==
    /\ stage = "status"
    /\ IF world.session = "closed" THEN Keeps /\ Throws("auth")
       ELSE Goes("ping") /\ UNCHANGED armed

\* No answer, not one that can be read, or none in time.
StatusFails ==
    /\ stage = "status"
    /\ Loses /\ Throws("broken")

\* Second half: the billed one.  It succeeds, or names the session that the
\* server refuses (claude-cli.ts:175-183).
Ping ==
    /\ stage = "ping" /\ ~hung
    /\ Keeps /\ Throws(IF world.session = "revoked" THEN "auth" ELSE "broken")

\* It failed for another reason, or was killed: what it had said decides.
PingFails ==
    /\ stage = "ping"
    /\ Loses
    /\ \E named \in LooksLikeAuthFailure : Throws(IF named THEN "auth" ELSE "broken")

\* It was killed, and some process of its own keeps its output open.
PingHangs ==
    /\ stage = "ping" /\ ~hung /\ now = since + PingTimeout
    /\ hung' = TRUE
    /\ UNCHANGED <<world, stage, now, since, armed, timedOut, aborted, lost, terminal>>

-----------------------------------------------------------------------------
(* Time.                                                                   *)

\* A timer that must fire first, or an abort that must settle.  (Mutant: the
\* fetch of /api/tags has no timeout of its own.)
DueButTags ==
    \/ stage \in {"asked", "streaming", "status", "ping"}
       /\ ~timedOut /\ now >= armed + ModelTimeout
    \/ stage = "status" /\ now >= since + StatusTimeout
    \/ stage = "ping" /\ ~hung /\ now >= since + PingTimeout
    \/ Halted
Due ==
    \/ stage = "tags" /\ now >= since + TagsTimeout
    \/ stage \in {"asked", "streaming", "status", "ping"}
       /\ ~timedOut /\ now >= armed + ModelTimeout
    \/ stage = "status" /\ now >= since + StatusTimeout
    \/ stage = "ping" /\ ~hung /\ now >= since + PingTimeout
    \/ Halted

Tick ==
    /\ stage \notin {"start", "over"} /\ ~Due
    /\ now < Horizon
    /\ now' = now + 1
    /\ UNCHANGED <<world, stage, since, armed, timedOut, aborted, lost, hung, terminal>>

-----------------------------------------------------------------------------
Begins == OllamaBegins \/ ApiBegins \/ CliBegins
TimesOut == ModelTimer \/ TagsFail \/ StatusFails \/ PingFails \/ PingHangs

Next ==
    \/ Begins \/ Cancel
    \/ Answers \/ Finishes \/ Halt
    \/ Tags \/ TagsFail \/ OllamaFails \/ OllamaBreaks
    \/ ApiRefuses \/ ApiFails \/ ApiBreaks
    \/ CliFails \/ Status \/ StatusFails \/ Ping \/ PingFails \/ PingHangs
    \/ ModelTimer \/ Tick

Spec == Init /\ [][Next]_vars

\* Time passes, timers fire and aborts settle; no server and no process need
\* ever answer, nor one that was killed close its output.
FairSpec == Spec /\ WF_vars(Begins) /\ WF_vars(Tick) /\ WF_vars(Due /\ (TimesOut \/ Halt))

-----------------------------------------------------------------------------
(* Properties.                                                             *)

TypeOK ==
    /\ world \in World
    /\ stage \in Stage
    /\ {now, since, armed} \subseteq 0..Horizon
    /\ {timedOut, aborted, lost, hung} \subseteq BOOLEAN
    /\ terminal \in Terminal

\* How long a call may take: the timer of the model does not cover what comes
\* before it (ollama) nor the confirmation of a failure after it (claude-cli).
Longest(w) ==
    CASE w.provider = "ollama" -> TagsTimeout + ModelTimeout
      [] w.provider = "claude-api" -> ModelTimeout
      [] w.provider = "claude-cli" -> ModelTimeout + StatusTimeout + PingTimeout

\* No call outlives its timers, whether it hangs, fails or is cancelled at any
\* moment (model.ts:433-441), but one whose billed probe outlived its kill: it
\* alone has no timer of its own around it (claude-cli.ts:207-228, :254-263).
EndsInTime == now <= Longest(world) \/ hung

\* A session that must be renewed is told as such whatever stage the call failed
\* in and however little the CLI said of it (claude-cli.ts:175-190), but for a
\* timer that fired or a probe or a server that gave no answer.  (The converse
\* does not hold of the CLI: its tolerant pattern may name a session that is
\* open.)
Expired(w) ==
    \/ w.provider = "claude-cli" /\ w.executable /\ w.session # "open"
    \/ w.provider = "claude-api" /\ w.key = "refused"
AuthIsTold ==
    Expired(world) /\ terminal \in {"done", "model-unavailable", "internal"} => timedOut \/ lost

\* Every call gets a terminal (model.ts:433-441), but one whose billed probe
\* outlived its kill.
CallEnds == <>(stage = "over" \/ hung)

\* No billed call is made for a request that was cancelled
\* (claude-cli.ts:198-200, :449-453).
NothingBilledAfterCancel == [][stage # "ping" /\ stage' = "ping" => ~aborted]_vars
=============================================================================
