------------------------------- MODULE Settings -------------------------------
(***************************************************************************)
(* The broker's settings: the configuration in memory and in config.json   *)
(* (settingsCtx and applySettings of broker/src/server.ts, loadConfig and  *)
(* saveConfig of config.ts), and the provider status cache that is cleared *)
(* when they change (provider-status.ts).                                  *)
(*                                                                         *)
(* The handlers are synchronous; what is not is a status check, which      *)
(* settles some time after it was started, whatever happened to the cache  *)
(* meanwhile.  saveConfig writes the file in place, though PROTOCOL.md has *)
(* "ecriture atomique": a process that dies, or a disk that fills up,      *)
(* during the write leaves a torn file, which loadConfig takes for an      *)
(* empty one.                                                              *)
(*                                                                         *)
(* A configuration is the provider and its API key; the model is patched,  *)
(* saved and compared as the provider is.                                  *)
(***************************************************************************)
EXTENDS Naturals

CONSTANTS
    Provider,      \* the providers of the registry
    ApiKey,        \* values of apiKey
    Probe,         \* bound: the status checks remembered at one time
    Ask,           \* the provider.status messages, one per client at a time
    Default,       \* DEFAULT_CONFIG
    Torn,          \* a config.json that cannot be parsed
    None,          \* "no key", "no entry", "no probe"
    Absent,        \* a field that settings.set leaves out
    CacheTtl,      \* CACHE_TTL_MS
    ProbeTimeout,  \* the longest a check runs (AUTH_STATUS_OUTER_TIMEOUT_MS)
    MaxClock,      \* bound: time that goes by
    MaxSets,       \* bound: settings.set messages applied
    MaxFailed      \* bound: saves in a row that throw or are cut short

Config == [provider : Provider, apiKey : ApiKey \cup {None}]

ASSUME SettingsAssumption ==
    /\ Default \in Config
    /\ Torn \notin Config
    /\ None \notin ApiKey \cup Probe
    /\ Absent \notin Provider \cup ApiKey \cup {None}
    /\ CacheTtl \in Nat
    /\ ProbeTimeout \in Nat
    /\ ProbeTimeout < CacheTtl
    /\ MaxClock \in Nat
    /\ MaxSets \in Nat
    /\ MaxFailed \in Nat

VARIABLES
    current,   \* currentConfig
    disk,      \* config.json
    saved,     \* history: what the last settings.set that went through asked for
    failed,    \* history: how many saves threw or were cut short since then
    sets,      \* history: how many settings.set went through
    changed,   \* history: when the last one did
    probe,     \* [Probe -> ProbeState record]
    cache,     \* [StatusKeys -> Probe \cup {None}]: whose result is cached
    expires,   \* [StatusKeys -> Nat]
    inflight,  \* [StatusKeys -> Probe \cup {None}]
    ask,       \* [Ask -> record]
    clock

config == <<current, disk, saved, failed, sets, changed>>
statuses == <<probe, cache, expires, inflight>>
vars == <<config, statuses, ask, clock>>

\* The cache key of a configuration: its key counts by its presence only.
\* (Mutant: not at all.)
StatusKeyOfProvider(c) == <<c.provider, TRUE>>
StatusKey(c) == <<c.provider, c.apiKey # None>>

StatusKeys == {StatusKey(c) : c \in Config}

Idle == [state |-> "idle", of |-> Default, at |-> 0, sets |-> 0, settled |-> 0]
Unsent == [state |-> "unsent", of |-> Default, sets |-> 0, on |-> None, at |-> 0]

Running == {p \in Probe : probe[p].state = "running"}

\* Nothing refers to p any more.
Forgotten(p) ==
    /\ p \notin Running
    /\ \A k \in StatusKeys : cache[k] # p
    /\ \A a \in Ask : ask[a].on # p

Init ==
    /\ disk = Default /\ current = Default
    /\ saved = Default /\ failed = 0
    /\ sets = 0 /\ changed = 0
    /\ probe = [p \in Probe |-> Idle]
    /\ cache = [k \in StatusKeys |-> None]
    /\ expires = [k \in StatusKeys |-> 0]
    /\ inflight = [k \in StatusKeys |-> None]
    /\ ask = [a \in Ask |-> Unsent]
    /\ clock = 0

-----------------------------------------------------------------------------
(* ProviderStatusCache.                                                    *)

\* The message is answered from a's own configuration, by probe p.
Answered(a, p) == [ask[a] EXCEPT !.state = "answered", !.of = current, !.sets = sets,
                                 !.on = p, !.at = clock]
Waiting(a, p)  == [ask[a] EXCEPT !.state = "waiting", !.of = current, !.sets = sets,
                                 !.on = p, !.at = 0]
Started == [state |-> "running", of |-> current, at |-> clock, sets |-> sets, settled |-> 0]

\* (Mutant: every hit prolongs the entry.)
FromCacheProlonged(a, k) ==
    /\ cache[k] # None
    /\ expires[k] > clock
    /\ ask' = [ask EXCEPT ![a] = Answered(a, cache[k])]
    /\ expires' = [expires EXCEPT ![k] = clock + CacheTtl]
    /\ UNCHANGED <<probe, cache, inflight>>

FromCache(a, k) ==
    /\ cache[k] # None
    /\ expires[k] > clock
    /\ ask' = [ask EXCEPT ![a] = Answered(a, cache[k])]
    /\ UNCHANGED statuses

Missed(k) == cache[k] = None \/ expires[k] <= clock

JoinsProbe(a, k) ==
    /\ Missed(k)
    /\ inflight[k] # None
    /\ ask' = [ask EXCEPT ![a] = Waiting(a, inflight[k])]
    /\ UNCHANGED statuses

\* (Mutant: whether or not one is in flight.)
StartsAnother(a, k) ==
    /\ Missed(k)
    /\ \E p \in Probe :
          /\ Forgotten(p)
          /\ probe' = [probe EXCEPT ![p] = Started]
          /\ inflight' = [inflight EXCEPT ![k] = p]
          /\ ask' = [ask EXCEPT ![a] = Waiting(a, p)]
    /\ UNCHANGED <<cache, expires>>

StartsProbe(a, k) ==
    /\ Missed(k)
    /\ inflight[k] = None
    /\ \E p \in Probe :
          /\ Forgotten(p)
          /\ probe' = [probe EXCEPT ![p] = Started]
          /\ inflight' = [inflight EXCEPT ![k] = p]
          /\ ask' = [ask EXCEPT ![a] = Waiting(a, p)]
    /\ UNCHANGED <<cache, expires>>

\* provider.status: get() for the configuration of this very moment.
ProviderStatus(a) ==
    /\ ask[a].state # "waiting"
    /\ LET k == StatusKey(current)
       IN  FromCache(a, k) \/ JoinsProbe(a, k) \/ StartsProbe(a, k)
    /\ UNCHANGED <<config, clock>>

\* A check settles, with a result or, when it throws, as probe-failed: the
\* result is cached under the key it was started for, and that key's entry of
\* inflight is deleted, whosever it is by now.
Settles(p) ==
    /\ probe[p].state = "running"
    /\ LET k == StatusKey(probe[p].of)
       IN  /\ cache' = [cache EXCEPT ![k] = p]
           /\ expires' = [expires EXCEPT ![k] = clock + CacheTtl]
           /\ inflight' = [inflight EXCEPT ![k] = None]
    /\ probe' = [probe EXCEPT ![p] = [@ EXCEPT !.state = "settled", !.settled = sets]]
    /\ ask' = [a \in Ask |->
                 IF ask[a].state = "waiting" /\ ask[a].on = p
                 THEN [ask[a] EXCEPT !.state = "answered", !.at = clock]
                 ELSE ask[a]]
    /\ UNCHANGED <<config, clock>>

\* clear(): both maps; what runs goes on running.  (Mutants: only one map.)
ClearCacheOnly ==
    /\ cache' = [k \in StatusKeys |-> None]
    /\ expires' = [k \in StatusKeys |-> 0]
    /\ UNCHANGED <<probe, inflight>>

ClearInflightOnly ==
    /\ inflight' = [k \in StatusKeys |-> None]
    /\ UNCHANGED <<probe, expires, cache>>

Clear ==
    /\ cache' = [k \in StatusKeys |-> None]
    /\ expires' = [k \in StatusKeys |-> 0]
    /\ inflight' = [k \in StatusKeys |-> None]
    /\ UNCHANGED probe

-----------------------------------------------------------------------------
(* applySettings and loadConfig.                                           *)

\* The current configuration, patched by a settings.set; an empty key means
\* "forget the stored key".  (Mutant: the empty key is stored as it comes.)
PatchedAsItComes(provider, key) ==
    [current EXCEPT !.provider = IF provider = Absent THEN @ ELSE provider,
                    !.apiKey = IF key = Absent THEN @ ELSE IF key = None THEN "" ELSE key]

Patched(provider, key) ==
    [current EXCEPT !.provider = IF provider = Absent THEN @ ELSE provider,
                    !.apiKey = IF key = Absent THEN @ ELSE key]

\* A settings.set that goes through: the new configuration is in memory, then on
\* disk, then the statuses are forgotten.  The reply follows once the providers
\* were asked whether they are available.  (Mutant: what is saved is what it
\* replaces.)
SetSavesOld(provider, key) ==
    /\ sets < MaxSets
    /\ current' = Patched(provider, key)
    /\ disk' = current
    /\ saved' = current' /\ failed' = 0
    /\ sets' = sets + 1 /\ changed' = clock
    /\ Clear
    /\ UNCHANGED <<ask, clock>>

Set(provider, key) ==
    /\ sets < MaxSets
    /\ current' = Patched(provider, key)
    /\ disk' = current'
    /\ saved' = current' /\ failed' = 0
    /\ sets' = sets + 1 /\ changed' = clock
    /\ Clear
    /\ UNCHANGED <<ask, clock>>

\* The save throws, before the file was touched, after it was truncated, or
\* after it was written, in chmodSync: the configuration stays in memory, the
\* statuses stay, the message is never answered.
SetFails(provider, key) ==
    /\ failed < MaxFailed
    /\ current' = Patched(provider, key)
    /\ disk' \in {disk, Torn, current'}
    /\ failed' = failed + 1
    /\ UNCHANGED <<saved, sets, changed, statuses, ask, clock>>

\* The process dies, perhaps in the middle of a save, and starts again with
\* what config.json says; nobody waits for it any longer.
Restart ==
    /\ \/ UNCHANGED <<disk, failed>>
       \/ failed < MaxFailed /\ disk' = Torn /\ failed' = failed + 1
    /\ current' = IF disk' = Torn THEN Default ELSE disk'
    /\ probe' = [p \in Probe |-> IF p \in Running THEN Idle ELSE probe[p]]
    /\ cache' = [k \in StatusKeys |-> None]
    /\ expires' = [k \in StatusKeys |-> 0]
    /\ inflight' = [k \in StatusKeys |-> None]
    /\ ask' = [a \in Ask |-> IF ask[a].state = "waiting" THEN Unsent ELSE ask[a]]
    /\ UNCHANGED <<saved, sets, changed, clock>>

\* A check is over within ProbeTimeout.
Tick ==
    /\ clock < MaxClock
    /\ \A p \in Running : clock < probe[p].at + ProbeTimeout
    /\ clock' = clock + 1
    /\ UNCHANGED <<config, statuses, ask>>

-----------------------------------------------------------------------------
Next ==
    \/ \E a \in Ask : ProviderStatus(a)
    \/ \E p \in Probe : Settles(p)
    \/ \E provider \in Provider \cup {Absent}, key \in ApiKey \cup {None, Absent} :
          Set(provider, key) \/ SetFails(provider, key)
    \/ Restart
    \/ Tick

Spec == Init /\ [][Next]_vars

-----------------------------------------------------------------------------
(* Properties.                                                             *)

ProbeRecord == [state : {"idle", "running", "settled"}, of : Config, at : 0..MaxClock,
                sets : 0..MaxSets, settled : 0..MaxSets]
AskRecord == [state : {"unsent", "waiting", "answered"}, of : Config,
              sets : 0..MaxSets, on : Probe \cup {None}, at : 0..MaxClock]

TypeOK ==
    /\ current \in Config
    /\ disk \in Config \cup {Torn}
    /\ saved \in Config
    /\ failed \in 0..MaxFailed
    /\ sets \in 0..MaxSets
    /\ changed \in 0..MaxClock
    /\ probe \in [Probe -> ProbeRecord]
    /\ cache \in [StatusKeys -> Probe \cup {None}]
    /\ expires \in [StatusKeys -> 0..(MaxClock + CacheTtl)]
    /\ inflight \in [StatusKeys -> Probe \cup {None}]
    /\ ask \in [Ask -> AskRecord]
    /\ clock \in 0..MaxClock

\* An answer is about the configuration that was current when it was asked:
\* the same provider, and a key or none as it had then, whatever was set while
\* the check ran.
AnswerOfItsConfig ==
    \A a \in Ask : ask[a].state = "answered" =>
        LET c == ask[a].of
            d == probe[ask[a].on].of
        IN  c.provider = d.provider /\ (c.apiKey = None <=> d.apiKey = None)

\* An answer rests on a check that was started less than CACHE_TTL plus the
\* longest check ago (PROTOCOL.md, "Cache cote broker : 60 s").
AnswerIsRecent ==
    \A a \in Ask : ask[a].state = "answered" =>
        ask[a].at < probe[ask[a].on].at + ProbeTimeout + CacheTtl

\* A settings.set frees later requests from the checks that were running when
\* it came: they wait for a check of their own (provider-status.ts, clear).
WaitsOnCurrentProbe ==
    \A a \in Ask : ask[a].state = "waiting" => probe[ask[a].on].sets = ask[a].sets

\* A result older than the last settings.set is served only if its check was
\* still running then, and for no longer than that check and CACHE_TTL together
\* may take; nobody waits for it.  What clear() found in the cache is never
\* served again.  PROTOCOL.md ("Un settings.set reussi vide le cache") and
\* provider-status.test.ts:92 promise more: that a check which settles later is
\* not served either, which provider-status.ts:63 does not see to.
OldResultIsLate ==
    /\ WaitsOnCurrentProbe
    /\ \A a \in Ask :
          ask[a].state = "answered" /\ probe[ask[a].on].sets < ask[a].sets =>
              /\ probe[ask[a].on].settled >= ask[a].sets
              /\ ask[a].at < changed + ProbeTimeout + CacheTtl

\* Requests that meet a running check share it: between two settings.set no
\* two checks of one key run at the same time (PROTOCOL.md: "Deux demandes
\* simultanees ... partagent la meme verification").
OneProbeAtATime ==
    \A p, q \in Running :
        /\ StatusKey(probe[p].of) = StatusKey(probe[q].of)
        /\ probe[p].sets = probe[q].sets
        => p = q

\* The broker works with what the last settings.set that went through asked
\* for, and would come back with it: memory and config.json agree, through
\* restarts and whatever the checks do, until a save throws or is cut short.
\* After that they may not, and a restart takes what config.json says.
SettingsSurvive == failed = 0 => current = saved /\ disk = saved
=============================================================================
