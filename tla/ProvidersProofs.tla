--------------------------- MODULE ProvidersProofs ---------------------------
(***************************************************************************)
(* Proofs about Providers for every value of the timeouts: a call ends in  *)
(* time unless its billed probe outlives its kill, and a session that must *)
(* be renewed is told.  The inductive invariant bounds the clock stage by stage, and   *)
(* says which worlds reach which stage.                                    *)
(***************************************************************************)
EXTENDS Providers, TLAPS

\* Before a model's timer is armed, ollama may have listed its models.
ArmedBy == IF world.provider = "ollama" THEN TagsTimeout ELSE 0

\* How far the clock may be in each stage.
InTime ==
    /\ stage = "start" => now = 0
    /\ stage = "tags" => since = 0 /\ now <= TagsTimeout
    /\ stage \in {"asked", "streaming"} =>
          armed <= ArmedBy /\ now <= armed + ModelTimeout
    /\ stage = "status" => since <= ModelTimeout /\ now <= since + StatusTimeout
    /\ stage = "ping" =>
          since <= ModelTimeout + StatusTimeout /\ (now <= since + PingTimeout \/ hung)
    /\ stage = "over" => now <= Longest(world) \/ hung

\* Which worlds reach each stage, and what an answer means.
Reached ==
    /\ stage = "tags" => world.provider = "ollama"
    /\ stage = "streaming" => Serves(world)
    /\ stage \in {"status", "ping"} => world.provider = "claude-cli" /\ world.executable
    /\ stage = "ping" => world.session # "closed"
    /\ stage # "over" => terminal = "none"
    /\ terminal = "done" => Serves(world)

Typed ==
    /\ world \in World
    /\ stage \in Stage
    /\ now \in Nat /\ since \in Nat /\ armed \in Nat
    /\ now <= Horizon /\ since <= now /\ armed <= now
    /\ timedOut \in BOOLEAN /\ aborted \in BOOLEAN /\ lost \in BOOLEAN /\ hung \in BOOLEAN
    /\ terminal \in Terminal

IInv == Typed /\ InTime /\ Reached /\ AuthIsTold

\* The durations are natural numbers.
LEMMA Timeouts ==
    /\ TagsTimeout \in Nat /\ ModelTimeout \in Nat /\ StatusTimeout \in Nat
    /\ PingTimeout \in Nat /\ Horizon \in Nat
BY ProvidersAssumption

\* A world is one of three kinds.
LEMMA Kinds ==
    ASSUME NEW w \in World
    PROVE  /\ w.provider \in {"ollama", "claude-api", "claude-cli"}
           /\ w.provider = "claude-cli" =>
                 w.executable \in BOOLEAN /\ w.session \in {"open", "revoked", "closed"}
           /\ w.provider = "claude-api" => w.key \in {"none", "good", "refused"}
BY DEF World, Ollama, Api, Cli

\* A world that serves is not expired.
LEMMA ServesIsWell ==
    ASSUME NEW w \in World, Serves(w)
    PROVE  ~Expired(w)
<1>1. CASE w.provider = "ollama"
  BY <1>1 DEF Serves, Expired
<1>2. CASE w.provider = "claude-api"
  BY <1>2 DEF Serves, Expired
<1>3. CASE w.provider = "claude-cli"
  BY <1>3 DEF Serves, Expired
<1>4. QED BY <1>1, <1>2, <1>3, Kinds

\* In every stage the clock is within the longest call.
LEMMA TimeIsBounded == IInv => EndsInTime
<1> SUFFICES ASSUME IInv PROVE EndsInTime OBVIOUS
<1> USE Timeouts, Kinds DEF IInv, Typed, InTime, ArmedBy, EndsInTime, Longest
<1>1. CASE world.provider = "ollama"
  <2>1. stage \notin {"status", "ping"} BY <1>1 DEF Reached
  <2>2. QED BY <1>1, <2>1 DEF Stage
<1>2. CASE world.provider = "claude-api"
  <2>1. stage \notin {"status", "ping", "tags"} BY <1>2 DEF Reached
  <2>2. QED BY <1>2, <2>1 DEF Stage
<1>3. CASE world.provider = "claude-cli"
  <2>1. stage # "tags" BY <1>3 DEF Reached
  <2>2. QED BY <1>3, <2>1 DEF Stage
<1>4. QED BY <1>1, <1>2, <1>3, Kinds

\* The terminals a call may get without a wrong word about the session.
Fair(t) ==
    /\ t \in Terminal \ {"none"}
    /\ t = "done" => Serves(world)
    /\ Expired(world) /\ t \in {"model-unavailable", "internal"} => timedOut \/ lost'

\* A call that ends with a fair terminal keeps the invariant.
LEMMA EndKeeps ==
    ASSUME IInv, NEW t, Over(t), Fair(t), lost' \in BOOLEAN
    PROVE  IInv'
<1> USE DEF Over
<1>1. Typed' BY DEF IInv, Typed, Stage, Fair
<1>2. InTime'
  <2>1. now' <= Longest(world)' \/ hung' BY TimeIsBounded DEF EndsInTime, Longest
  <2>2. QED BY <2>1 DEF InTime
<1>3. Reached' BY DEF Reached, Fair, Serves, Installed
<1>4. AuthIsTold'
  <2>1. terminal' = "done" => ~Expired(world) BY ServesIsWell DEF Fair, IInv, Typed
  <2>2. QED BY <2>1 DEF AuthIsTold, Expired, Fair
<1>5. QED BY <1>1, <1>2, <1>3, <1>4 DEF IInv

\* An error ends a call fairly if its codes do.
LEMMA ThrowKeeps ==
    ASSUME IInv, NEW error \in {"auth", "timeout", "unavailable", "broken", "other"},
           Throws(error), lost' \in BOOLEAN,
           error # "auth" /\ ~aborted => ~Expired(world) \/ timedOut \/ lost'
    PROVE  IInv'
<1>1. CASE aborted
  <2>1. Over("cancelled") BY <1>1 DEF Throws
  <2>2. Fair("cancelled") BY DEF Fair, Terminal
  <2>3. QED BY <2>1, <2>2, EndKeeps
<1>2. CASE ~aborted
  <2>1. PICK code \in Codes(error) : Over(code) BY <1>2 DEF Throws
  <2>2. Fair(code) BY <1>2 DEF Fair, Codes, Terminal
  <2>3. QED BY <2>1, <2>2, EndKeeps
<1>3. QED BY <1>1, <1>2

\* The provider goes on to a stage that its world reaches, in time.
LEMMA GoKeeps ==
    ASSUME IInv, NEW next \in Stage \ {"start", "over"}, Goes(next), stage # "over",
           armed' \in {armed, now}, InTime', Reached'
    PROVE  IInv'
<1>1. Typed' BY DEF IInv, Typed, Goes, Stage
<1>2. AuthIsTold' BY DEF IInv, Reached, Goes, AuthIsTold
<1>3. QED BY <1>1, <1>2 DEF IInv

\* Nothing of the world or the stage changes; the clock stays in time.
LEMMA StayKeeps ==
    ASSUME IInv, UNCHANGED <<world, stage, since, armed, lost, terminal>>, hung' \in BOOLEAN,
           now' \in Nat, now' >= now, now' <= Horizon, InTime',
           timedOut' \in BOOLEAN, aborted' \in BOOLEAN, timedOut => timedOut'
    PROVE  IInv'
<1>1. Typed' BY DEF IInv, Typed
<1>2. Reached' BY DEF IInv, Reached, Serves, Installed
<1>3. AuthIsTold' BY DEF IInv, AuthIsTold, Expired
<1>4. QED BY <1>1, <1>2, <1>3 DEF IInv

LEMMA InitInvariant == Init => IInv
<1> SUFFICES ASSUME Init PROVE IInv OBVIOUS
<1>1. Typed
  <2>1. now = 0 /\ since = 0 /\ armed = 0 /\ world \in World BY DEF Init
  <2>2. stage \in Stage /\ terminal \in Terminal BY DEF Init, Stage, Terminal
  <2>3. timedOut \in BOOLEAN /\ aborted \in BOOLEAN /\ lost \in BOOLEAN /\ hung \in BOOLEAN BY DEF Init
  <2>4. now <= Horizon /\ since <= now /\ armed <= now BY <2>1, Timeouts
  <2>5. QED BY <2>1, <2>2, <2>3, <2>4 DEF Typed
<1>2. InTime BY DEF Init, InTime
<1>3. Reached BY DEF Init, Reached
<1>4. AuthIsTold BY DEF Init, AuthIsTold
<1>5. QED BY <1>1, <1>2, <1>3, <1>4 DEF IInv

\* The three providers' steps.
LEMMA OllamaKeeps ==
    ASSUME IInv, OllamaBegins \/ Tags \/ TagsFail \/ OllamaFails \/ OllamaBreaks
    PROVE  IInv'
<1> USE DEF Keeps, Loses
<1>1. CASE OllamaBegins
  <2>1. CASE world.model = "none"
    <3>1. Throws("unavailable") /\ lost' \in BOOLEAN
      BY <1>1, <2>1 DEF OllamaBegins, IInv, Typed
    <3>2. ~Expired(world) BY <1>1 DEF OllamaBegins, Expired
    <3>3. QED BY <3>1, <3>2, ThrowKeeps
  <2>2. CASE world.model # "none"
    <3>1. Goes("tags") /\ armed' = armed /\ stage = "start" BY <1>1, <2>2 DEF OllamaBegins
    <3>2. InTime' BY <3>1, Timeouts DEF IInv, InTime, Goes
    <3>3. Reached' BY <1>1, <3>1 DEF OllamaBegins, IInv, Reached, Goes, Serves, Installed
    <3>4. QED BY <3>1, <3>2, <3>3, GoKeeps DEF Stage
  <2>3. QED BY <2>1, <2>2
<1>2. CASE Tags
  <2>1. stage = "tags" /\ world.provider = "ollama" BY <1>2 DEF Tags, IInv, Reached
  <2>2. CASE Installed(world)
    <3>1. Goes("asked") /\ armed' = now BY <1>2, <2>2 DEF Tags
    <3>2. InTime' BY <2>1, <3>1, Timeouts DEF IInv, Typed, InTime, ArmedBy, Goes
    <3>3. Reached' BY <2>1, <3>1 DEF IInv, Reached, Goes, Serves, Installed
    <3>4. QED BY <2>1, <3>1, <3>2, <3>3, GoKeeps DEF Stage
  <2>3. CASE ~Installed(world)
    <3>1. Throws("unavailable") /\ lost' \in BOOLEAN
      BY <1>2, <2>3 DEF Tags, IInv, Typed
    <3>2. ~Expired(world) BY <2>1 DEF Expired
    <3>3. QED BY <3>1, <3>2, ThrowKeeps
  <2>4. QED BY <2>2, <2>3
<1>3. CASE TagsFail
  <2>1. Throws("unavailable") /\ lost' = TRUE BY <1>3 DEF TagsFail
  <2>2. QED BY <2>1, ThrowKeeps
<1>4. CASE OllamaFails
  <2>1. PICK error \in {"unavailable", "other"} : Throws(error) /\ lost' = TRUE
    BY <1>4 DEF OllamaFails
  <2>2. QED BY <2>1, ThrowKeeps
<1>5. CASE OllamaBreaks
  <2>1. Throws("broken") /\ lost' = TRUE BY <1>5 DEF OllamaBreaks
  <2>2. QED BY <2>1, ThrowKeeps
<1>6. QED BY <1>1, <1>2, <1>3, <1>4, <1>5

LEMMA ApiKeeps ==
    ASSUME IInv, ApiBegins \/ ApiRefuses \/ ApiFails \/ ApiBreaks
    PROVE  IInv'
<1> USE DEF Keeps, Loses
<1>1. CASE ApiBegins
  <2>1. CASE world.key = "none"
    <3>1. Throws("unavailable") /\ lost' \in BOOLEAN
      BY <1>1, <2>1 DEF ApiBegins, IInv, Typed
    <3>2. ~Expired(world) BY <1>1, <2>1 DEF ApiBegins, Expired
    <3>3. QED BY <3>1, <3>2, ThrowKeeps
  <2>2. CASE world.key # "none"
    <3>1. Goes("asked") /\ armed' = now /\ stage = "start" BY <1>1, <2>2 DEF ApiBegins
    <3>2. InTime' BY <3>1, Timeouts DEF IInv, InTime, ArmedBy, Goes
    <3>3. Reached' BY <3>1 DEF IInv, Reached, Goes, Serves, Installed
    <3>4. QED BY <3>1, <3>2, <3>3, GoKeeps DEF Stage
  <2>3. QED BY <2>1, <2>2
<1>2. CASE ApiRefuses
  <2>1. Throws("auth") /\ lost' \in BOOLEAN BY <1>2 DEF ApiRefuses, IInv, Typed
  <2>2. QED BY <2>1, ThrowKeeps
<1>3. CASE ApiFails
  <2>1. PICK error \in {"unavailable", "other"} : Throws(error) /\ lost' = TRUE
    BY <1>3 DEF ApiFails
  <2>2. QED BY <2>1, ThrowKeeps
<1>4. CASE ApiBreaks
  <2>1. Throws("broken") /\ lost' = TRUE BY <1>4 DEF ApiBreaks
  <2>2. QED BY <2>1, ThrowKeeps
<1>5. QED BY <1>1, <1>2, <1>3, <1>4

LEMMA CliKeeps ==
    ASSUME IInv, CliBegins \/ CliFails \/ Status \/ StatusFails \/ Ping \/ PingFails \/ PingHangs
    PROVE  IInv'
<1> USE DEF Keeps, Loses
<1>1. CASE CliBegins
  <2>1. Goes("asked") /\ armed' = now /\ stage = "start" BY <1>1 DEF CliBegins
  <2>2. InTime' BY <2>1, Timeouts DEF IInv, InTime, ArmedBy, Goes
  <2>3. Reached' BY <2>1 DEF IInv, Reached, Goes, Serves, Installed
  <2>4. QED BY <2>1, <2>2, <2>3, GoKeeps DEF Stage
<1>2. CASE CliFails
  <2>1. CASE Throws("auth") /\ lost' = lost
    <3>1. lost' \in BOOLEAN BY <2>1 DEF IInv, Typed
    <3>2. QED BY <2>1, <3>1, ThrowKeeps
  <2>2. CASE world.executable /\ Goes("status") /\ armed' = armed
    <3>1. stage \in {"asked", "streaming"} /\ world.provider = "claude-cli" /\ world.executable
      BY <1>2, <2>2 DEF CliFails, InStream
    <3>2. InTime' BY <2>2, <3>1, Timeouts DEF IInv, Typed, InTime, ArmedBy, Goes
    <3>3. Reached' BY <2>2, <3>1 DEF IInv, Reached, Goes, Serves, Installed
    <3>4. QED BY <2>2, <3>1, <3>2, <3>3, GoKeeps DEF Stage
  <2>3. CASE ~world.executable /\ Throws("broken") /\ lost' = lost
    <3>1. ~Expired(world) /\ lost' \in BOOLEAN
      BY <1>2, <2>3 DEF CliFails, Expired, IInv, Typed
    <3>2. QED BY <2>3, <3>1, ThrowKeeps
  <2>4. QED BY <1>2, <2>1, <2>2, <2>3 DEF CliFails
<1>3. CASE Status
  <2>1. stage = "status" /\ world.provider = "claude-cli" /\ world.executable
    BY <1>3 DEF Status, IInv, Reached
  <2>2. CASE world.session = "closed"
    <3>1. Throws("auth") /\ lost' \in BOOLEAN BY <1>3, <2>2 DEF Status, IInv, Typed
    <3>2. QED BY <3>1, ThrowKeeps
  <2>3. CASE world.session # "closed"
    <3>1. Goes("ping") /\ armed' = armed BY <1>3, <2>3 DEF Status
    <3>2. InTime' BY <2>1, <3>1, Timeouts DEF IInv, Typed, InTime, Goes
    <3>3. Reached' BY <2>1, <2>3, <3>1 DEF IInv, Reached, Goes, Serves, Installed
    <3>4. QED BY <2>1, <3>1, <3>2, <3>3, GoKeeps DEF Stage
  <2>4. QED BY <2>2, <2>3
<1>4. CASE StatusFails
  <2>1. Throws("broken") /\ lost' = TRUE BY <1>4 DEF StatusFails
  <2>2. QED BY <2>1, ThrowKeeps
<1>5. CASE PingFails
  <2>1. lost' = TRUE /\ (Throws("auth") \/ Throws("broken")) BY <1>5 DEF PingFails
  <2>2. QED BY <2>1, ThrowKeeps
<1>6. CASE Ping
  <2>1. world.provider = "claude-cli" /\ world.executable /\ world.session # "closed"
    BY <1>6 DEF Ping, IInv, Reached
  <2>2. lost' \in BOOLEAN BY <1>6 DEF Ping, IInv, Typed
  <2>3. CASE world.session = "revoked"
    <3>1. Throws("auth") BY <1>6, <2>3 DEF Ping
    <3>2. QED BY <2>2, <3>1, ThrowKeeps
  <2>4. CASE world.session # "revoked"
    <3>1. Throws("broken") /\ ~Expired(world)
      BY <1>6, <2>1, <2>4, Kinds DEF Ping, Expired, IInv, Typed
    <3>2. QED BY <2>2, <3>1, ThrowKeeps
  <2>5. QED BY <2>3, <2>4
<1>7. CASE PingHangs
  <2>1. InTime' BY <1>7 DEF PingHangs, IInv, InTime
  <2>2. QED BY <1>7, <2>1, StayKeeps DEF PingHangs, IInv, Typed
<1>8. QED BY <1>1, <1>2, <1>3, <1>4, <1>5, <1>6, <1>7

\* What all of them share.
LEMMA StreamKeeps ==
    ASSUME IInv, Cancel \/ ModelTimer \/ Tick \/ Answers \/ Finishes \/ Halt
    PROVE  IInv'
<1>1. CASE Cancel
  <2>1. InTime' BY <1>1 DEF Cancel, IInv, InTime, ArmedBy, Longest
  <2>2. QED BY <1>1, <2>1, StayKeeps DEF Cancel, IInv, Typed
<1>2. CASE ModelTimer
  <2>1. InTime' BY <1>2 DEF ModelTimer, IInv, InTime, ArmedBy, Longest
  <2>2. QED BY <1>2, <2>1, StayKeeps DEF ModelTimer, IInv, Typed
<1>3. CASE Tick
  <2>1. stage \in {"asked", "streaming"} => now < armed + ModelTimeout
    BY <1>3, Timeouts DEF Tick, Due, Halted, InStream, IInv, Typed
  <2>2. stage = "tags" => now < since + TagsTimeout
    BY <1>3, Timeouts DEF Tick, Due, IInv, Typed
  <2>3. /\ stage = "status" => now < since + StatusTimeout
        /\ stage = "ping" => now < since + PingTimeout \/ hung
    BY <1>3, Timeouts DEF Tick, Due, IInv, Typed
  <2>4. InTime'
    BY <1>3, <2>1, <2>2, <2>3, Timeouts DEF Tick, IInv, Typed, InTime, ArmedBy
  <2>5. QED BY <1>3, <2>4, Timeouts, StayKeeps DEF Tick, IInv, Typed
<1>4. CASE Answers
  <2>1. Goes("streaming") /\ armed' = armed /\ stage = "asked" /\ Serves(world)
    BY <1>4 DEF Answers
  <2>2. InTime' BY <2>1 DEF IInv, InTime, ArmedBy, Goes
  <2>3. Reached' BY <2>1 DEF IInv, Reached, Goes, Serves, Installed
  <2>4. QED BY <2>1, <2>2, <2>3, GoKeeps DEF Stage
<1>5. CASE Finishes
  <2>1. lost' \in BOOLEAN /\ Serves(world)
    BY <1>5 DEF Finishes, Keeps, IInv, Typed, Reached
  <2>2. CASE aborted
    <3>1. Over("cancelled") BY <1>5, <2>2 DEF Finishes, Ends
    <3>2. Fair("cancelled") BY DEF Fair, Terminal
    <3>3. QED BY <2>1, <3>1, <3>2, EndKeeps
  <2>3. CASE ~aborted
    <3>1. Over("done") BY <1>5, <2>3 DEF Finishes, Ends
    <3>2. Fair("done") BY <2>1 DEF Fair, Terminal
    <3>3. QED BY <2>1, <3>1, <3>2, EndKeeps
  <2>4. QED BY <2>2, <2>3
<1>6. CASE Halt
  <2>1. lost' \in BOOLEAN BY <1>6 DEF Halt, Keeps, IInv, Typed
  <2>2. CASE timedOut
    <3>1. Throws("timeout") BY <1>6, <2>2 DEF Halt
    <3>2. QED BY <2>1, <2>2, <3>1, ThrowKeeps
  <2>3. CASE ~timedOut
    <3>1. Throws("broken") /\ aborted BY <1>6, <2>3 DEF Halt, Halted
    <3>2. QED BY <2>1, <3>1, ThrowKeeps
  <2>4. QED BY <2>2, <2>3
<1>7. QED BY <1>1, <1>2, <1>3, <1>4, <1>5, <1>6

\* The inductive invariant, for every value of the timeouts.
THEOREM Invariant == Spec => []IInv
<1>1. Init => IInv BY InitInvariant
<1>2. IInv /\ [Next]_vars => IInv'
  <2> SUFFICES ASSUME IInv, [Next]_vars PROVE IInv' OBVIOUS
  <2>1. CASE Begins BY <2>1, OllamaKeeps, ApiKeeps, CliKeeps DEF Begins
  <2>2. CASE Cancel \/ ModelTimer \/ Tick \/ Answers \/ Finishes \/ Halt BY <2>2, StreamKeeps
  <2>3. CASE Tags \/ TagsFail \/ OllamaFails \/ OllamaBreaks BY <2>3, OllamaKeeps
  <2>4. CASE ApiRefuses \/ ApiFails \/ ApiBreaks BY <2>4, ApiKeeps
  <2>5. CASE CliFails \/ Status \/ StatusFails \/ Ping \/ PingFails \/ PingHangs BY <2>5, CliKeeps
  <2>6. CASE UNCHANGED vars
    <3>1. InTime' BY <2>6 DEF vars, IInv, InTime, ArmedBy, Longest
    <3>2. QED BY <2>6, <3>1, StayKeeps DEF vars, IInv, Typed
  <2>7. QED BY <2>1, <2>2, <2>3, <2>4, <2>5, <2>6 DEF Next
<1>3. QED BY <1>1, <1>2, PTL DEF Spec

\* Every variable keeps its type, and the clock its bound.
THEOREM TypeCorrect == Spec => []TypeOK
<1>1. IInv => TypeOK BY Timeouts DEF IInv, Typed, TypeOK
<1>2. QED BY Invariant, <1>1, PTL

\* No call outlives its timers, whatever they are, but for a billed probe that
\* outlives its kill.
THEOREM EndsInTimeHolds == Spec => []EndsInTime
<1>1. IInv => EndsInTime BY TimeIsBounded
<1>2. QED BY Invariant, <1>1, PTL

\* A session that must be renewed is told.
THEOREM AuthIsToldHolds == Spec => []AuthIsTold
<1>1. IInv => AuthIsTold BY DEF IInv
<1>2. QED BY Invariant, <1>1, PTL
=============================================================================
