---------------------------- MODULE SettingsProofs ----------------------------
(***************************************************************************)
(* Proofs about Settings, for any providers, keys, clients and durations   *)
(* with a check shorter than the life of a cached result.                  *)
(*                                                                         *)
(* The argument: what the two maps hold (CacheInv, InflightInv), what a    *)
(* running check is covered by (RunningInv: its own entry of inflight, or, *)
(* once an older check deleted that, a cached result that outlives it),    *)
(* and what a client waits for or was told (WaitingInv, AnsweredInv).      *)
(***************************************************************************)
EXTENDS Settings, TLAPS

CacheInv ==
    \A k \in StatusKeys : cache[k] # None =>
        /\ probe[cache[k]].state = "settled"
        /\ StatusKey(probe[cache[k]].of) = k
        /\ probe[cache[k]].settled = sets
        /\ expires[k] <= probe[cache[k]].at + ProbeTimeout + CacheTtl

InflightInv ==
    \A k \in StatusKeys : inflight[k] # None =>
        /\ probe[inflight[k]].state = "running"
        /\ StatusKey(probe[inflight[k]].of) = k
        /\ probe[inflight[k]].sets = sets

Covered(p, k) ==
    \/ inflight[k] = p
    \/ cache[k] # None /\ expires[k] >= probe[p].at + CacheTtl

RunningInv ==
    \A p \in Probe : probe[p].state = "running" =>
        /\ probe[p].at <= clock
        /\ clock <= probe[p].at + ProbeTimeout
        /\ probe[p].sets <= sets
        /\ probe[p].sets = sets => Covered(p, StatusKey(probe[p].of))

WaitingInv ==
    \A a \in Ask : ask[a].state = "waiting" =>
        /\ ask[a].on \in Probe
        /\ probe[ask[a].on].state = "running"
        /\ StatusKey(probe[ask[a].on].of) = StatusKey(ask[a].of)
        /\ probe[ask[a].on].sets = ask[a].sets
        /\ ask[a].sets <= sets

AnsweredInv ==
    \A a \in Ask : ask[a].state = "answered" =>
        /\ ask[a].on \in Probe
        /\ probe[ask[a].on].state = "settled"
        /\ StatusKey(probe[ask[a].on].of) = StatusKey(ask[a].of)
        /\ probe[ask[a].on].settled >= ask[a].sets
        /\ ask[a].at < probe[ask[a].on].at + ProbeTimeout + CacheTtl

IInv ==
    /\ TypeOK
    /\ CacheInv
    /\ InflightInv
    /\ RunningInv
    /\ WaitingInv
    /\ AnsweredInv
    /\ OneProbeAtATime

\* A configuration has a key, and a patched configuration is one.
LEMMA KeyKnown == \A c \in Config : StatusKey(c) \in StatusKeys
BY DEF StatusKeys

LEMMA PatchedKnown ==
    ASSUME TypeOK,
           NEW provider \in Provider \cup {Absent}, NEW key \in ApiKey \cup {None, Absent}
    PROVE  Patched(provider, key) \in Config
BY DEF TypeOK, Config, Patched

LEMMA ConstantsKnown ==
    /\ Default \in Config /\ None \notin Probe
    /\ CacheTtl \in Nat /\ ProbeTimeout \in Nat /\ ProbeTimeout < CacheTtl
    /\ MaxClock \in Nat /\ MaxSets \in Nat /\ MaxFailed \in Nat
BY SettingsAssumption

LEMMA WaitingTyped ==
    ASSUME TypeOK, NEW a \in Ask, NEW p \in Probe
    PROVE  Waiting(a, p) \in AskRecord
<1>1. ask[a] \in AskRecord /\ current \in Config /\ sets \in 0..MaxSets BY DEF TypeOK
<1>2. 0 \in 0..MaxClock BY ConstantsKnown
<1>3. QED BY <1>1, <1>2 DEF Waiting, AskRecord

\* A key that is missed, with no check in flight, has none running that was
\* started since the last settings.set: this is where a check must be shorter
\* than the life of a cached result.
LEMMA MissedUncovered ==
    ASSUME TypeOK, RunningInv, NEW k \in StatusKeys, Missed(k), inflight[k] = None,
           NEW q \in Probe, probe[q].state = "running", StatusKey(probe[q].of) = k
    PROVE  probe[q].sets # sets
<1> SUFFICES ASSUME probe[q].sets = sets PROVE FALSE OBVIOUS
<1>1. q # None BY ConstantsKnown
<1>2. cache[k] # None /\ expires[k] >= probe[q].at + CacheTtl
  BY <1>1 DEF RunningInv, Covered
<1>3. clock <= probe[q].at + ProbeTimeout BY DEF RunningInv
<1>4. expires[k] \in Nat /\ probe[q].at \in Nat /\ clock \in Nat
  BY ConstantsKnown DEF TypeOK, ProbeRecord
<1>5. expires[k] <= clock BY <1>2 DEF Missed
<1>6. QED BY <1>2, <1>3, <1>4, <1>5, ConstantsKnown

-----------------------------------------------------------------------------
LEMMA InitHolds == Init => IInv
<1> SUFFICES ASSUME Init PROVE IInv OBVIOUS
<1> USE ConstantsKnown
<1>1. TypeOK
  <2>1. Idle \in ProbeRecord BY DEF Idle, ProbeRecord
  <2>2. Unsent \in AskRecord BY DEF Unsent, AskRecord
  <2>3. QED BY <2>1, <2>2 DEF Init, TypeOK
<1>2. CacheInv /\ InflightInv BY DEF Init, CacheInv, InflightInv
<1>3. RunningInv /\ OneProbeAtATime BY DEF Init, Idle, RunningInv, OneProbeAtATime, Running
<1>4. WaitingInv /\ AnsweredInv BY DEF Init, Unsent, WaitingInv, AnsweredInv
<1>5. QED BY <1>1, <1>2, <1>3, <1>4 DEF IInv

-----------------------------------------------------------------------------
(* A request is answered from the cache, joins a check, or starts one.     *)

LEMMA FromCacheKeeps ==
    ASSUME IInv, NEW a \in Ask, FromCache(a, StatusKey(current)), UNCHANGED <<config, clock>>
    PROVE  IInv'
<1> USE ConstantsKnown
<1> DEFINE k == StatusKey(current)
           p == cache[k]
<1>1. k \in StatusKeys /\ p \in Probe BY KeyKnown DEF IInv, TypeOK, FromCache
<1>2. UNCHANGED <<config, statuses, clock>> BY DEF FromCache
<1>3. /\ ask'[a].state = "answered" /\ ask'[a].of = current /\ ask'[a].sets = sets
      /\ ask'[a].on = p /\ ask'[a].at = clock
      /\ \A b \in Ask : b # a => ask'[b] = ask[b]
      /\ ask' \in [Ask -> AskRecord]
  <2>1. Answered(a, p) \in AskRecord BY <1>1 DEF Answered, AskRecord, IInv, TypeOK
  <2>2. ask' = [ask EXCEPT ![a] = Answered(a, p)] BY DEF FromCache
  <2>3. ask \in [Ask -> AskRecord] BY DEF IInv, TypeOK
  <2>4. ask'[a] = Answered(a, p) BY <2>2, <2>3
  <2>5. ask[a] \in AskRecord BY <2>3
  <2>6. QED BY <2>1, <2>2, <2>3, <2>4, <2>5 DEF Answered, AskRecord
<1>4. /\ probe[p].state = "settled" /\ StatusKey(probe[p].of) = k /\ probe[p].settled = sets
      /\ expires[k] <= probe[p].at + ProbeTimeout + CacheTtl
  BY <1>1 DEF FromCache, IInv, CacheInv
<1>5. clock < probe[p].at + ProbeTimeout + CacheTtl
  <2>1. expires[k] > clock BY DEF FromCache
  <2>2. expires[k] \in Nat /\ clock \in Nat /\ probe[p].at \in Nat
    BY <1>1 DEF IInv, TypeOK, ProbeRecord
  <2>3. QED BY <1>4, <2>1, <2>2
<1> HIDE DEF k, p
<1>6. TypeOK' BY <1>2, <1>3 DEF IInv, TypeOK, config, statuses
<1>7. (CacheInv /\ InflightInv /\ RunningInv /\ OneProbeAtATime)'
  BY <1>2 DEF IInv, CacheInv, InflightInv, RunningInv, Covered, OneProbeAtATime, Running,
              config, statuses
<1>8. WaitingInv' BY <1>2, <1>3 DEF IInv, WaitingInv, config, statuses
<1>9. AnsweredInv'
  <2>1. sets \in Nat BY DEF IInv, TypeOK
  <2> SUFFICES ASSUME NEW b \in Ask, ask'[b].state = "answered"
               PROVE  /\ ask'[b].on \in Probe
                      /\ probe[ask'[b].on].state = "settled"
                      /\ StatusKey(probe[ask'[b].on].of) = StatusKey(ask'[b].of)
                      /\ probe[ask'[b].on].settled >= ask'[b].sets
                      /\ ask'[b].at < probe[ask'[b].on].at + ProbeTimeout + CacheTtl
    BY <1>2 DEF AnsweredInv, statuses
  <2>2. CASE b = a BY <1>1, <1>3, <1>4, <1>5, <2>1, <2>2 DEF k
  <2>3. CASE b # a BY <1>3, <2>3 DEF IInv, AnsweredInv
  <2>4. QED BY <2>2, <2>3
<1>10. QED BY <1>6, <1>7, <1>8, <1>9 DEF IInv

LEMMA JoinsKeeps ==
    ASSUME IInv, NEW a \in Ask, JoinsProbe(a, StatusKey(current)), UNCHANGED <<config, clock>>
    PROVE  IInv'
<1> USE ConstantsKnown
<1> DEFINE k == StatusKey(current)
           p == inflight[k]
<1>1. k \in StatusKeys /\ p \in Probe BY KeyKnown DEF IInv, TypeOK, JoinsProbe
<1>2. UNCHANGED <<config, statuses, clock>> BY DEF JoinsProbe
<1>3. /\ ask'[a].state = "waiting" /\ ask'[a].of = current /\ ask'[a].sets = sets
      /\ ask'[a].on = p
      /\ \A b \in Ask : b # a => ask'[b] = ask[b]
      /\ ask' \in [Ask -> AskRecord]
  <2>1. Waiting(a, p) \in AskRecord BY <1>1, WaitingTyped DEF IInv
  <2>2. ask' = [ask EXCEPT ![a] = Waiting(a, p)] BY DEF JoinsProbe
  <2>3. ask \in [Ask -> AskRecord] BY DEF IInv, TypeOK
  <2>4. ask'[a] = Waiting(a, p) BY <2>2, <2>3
  <2>5. ask[a] \in AskRecord BY <2>3
  <2>6. QED BY <2>1, <2>2, <2>3, <2>4, <2>5 DEF Waiting, AskRecord
<1>4. probe[p].state = "running" /\ StatusKey(probe[p].of) = k /\ probe[p].sets = sets
  BY <1>1 DEF JoinsProbe, IInv, InflightInv
<1> HIDE DEF k, p
<1>6. TypeOK' BY <1>2, <1>3 DEF IInv, TypeOK, config, statuses
<1>7. (CacheInv /\ InflightInv /\ RunningInv /\ OneProbeAtATime)'
  BY <1>2 DEF IInv, CacheInv, InflightInv, RunningInv, Covered, OneProbeAtATime, Running,
              config, statuses
<1>8. AnsweredInv' BY <1>2, <1>3 DEF IInv, AnsweredInv, config, statuses
<1>9. WaitingInv'
  <2>1. sets \in Nat BY DEF IInv, TypeOK
  <2> SUFFICES ASSUME NEW b \in Ask, ask'[b].state = "waiting"
               PROVE  /\ ask'[b].on \in Probe
                      /\ probe[ask'[b].on].state = "running"
                      /\ StatusKey(probe[ask'[b].on].of) = StatusKey(ask'[b].of)
                      /\ probe[ask'[b].on].sets = ask'[b].sets
                      /\ ask'[b].sets <= sets
    BY <1>2 DEF WaitingInv, statuses, config
  <2>2. CASE b = a BY <1>1, <1>3, <1>4, <2>1, <2>2 DEF k
  <2>3. CASE b # a BY <1>3, <2>3 DEF IInv, WaitingInv
  <2>4. QED BY <2>2, <2>3
<1>10. QED BY <1>6, <1>7, <1>8, <1>9 DEF IInv

LEMMA StartsKeeps ==
    ASSUME IInv, NEW a \in Ask, StartsProbe(a, StatusKey(current)), UNCHANGED <<config, clock>>
    PROVE  IInv'
<1> USE ConstantsKnown
<1> DEFINE k == StatusKey(current)
<1>1. PICK p \in Probe : /\ Forgotten(p)
                         /\ probe' = [probe EXCEPT ![p] = Started]
                         /\ inflight' = [inflight EXCEPT ![k] = p]
                         /\ ask' = [ask EXCEPT ![a] = Waiting(a, p)]
  BY DEF StartsProbe
<1>2. UNCHANGED <<config, cache, expires, clock>> BY DEF StartsProbe
<1>3. k \in StatusKeys BY KeyKnown DEF IInv, TypeOK
<1>4. Missed(k) /\ inflight[k] = None BY DEF StartsProbe
<1>5. /\ probe[p].state # "running"
      /\ \A j \in StatusKeys : cache[j] # p
      /\ \A b \in Ask : ask[b].on # p
  BY <1>1 DEF Forgotten, Running
<1>6. \A j \in StatusKeys : inflight[j] # p
  BY <1>5, ConstantsKnown DEF IInv, InflightInv
<1>7. /\ probe'[p].state = "running" /\ probe'[p].of = current /\ probe'[p].at = clock
      /\ probe'[p].sets = sets
      /\ \A q \in Probe : q # p => probe'[q] = probe[q]
      /\ probe' \in [Probe -> ProbeRecord]
  <2>1. probe \in [Probe -> ProbeRecord] BY DEF IInv, TypeOK
  <2>2. probe'[p] = Started BY <1>1, <2>1
  <2>3. Started \in ProbeRecord
    <3>1. current \in Config /\ clock \in 0..MaxClock /\ sets \in 0..MaxSets BY DEF IInv, TypeOK
    <3>2. 0 \in 0..MaxSets BY ConstantsKnown
    <3>3. QED BY <3>1, <3>2 DEF Started, ProbeRecord
  <2>4. QED BY <1>1, <2>1, <2>2, <2>3 DEF Started
<1>8. /\ ask'[a].state = "waiting" /\ ask'[a].of = current /\ ask'[a].sets = sets
      /\ ask'[a].on = p
      /\ \A b \in Ask : b # a => ask'[b] = ask[b]
      /\ ask' \in [Ask -> AskRecord]
  <2>1. Waiting(a, p) \in AskRecord BY WaitingTyped DEF IInv
  <2>2. ask \in [Ask -> AskRecord] BY DEF IInv, TypeOK
  <2>3. ask'[a] = Waiting(a, p) BY <1>1, <2>2
  <2>4. ask[a] \in AskRecord BY <2>2
  <2>5. QED BY <1>1, <2>1, <2>2, <2>3, <2>4 DEF Waiting, AskRecord
<1>9. /\ inflight'[k] = p
      /\ \A j \in StatusKeys : j # k => inflight'[j] = inflight[j]
      /\ inflight' \in [StatusKeys -> Probe \cup {None}]
  BY <1>1, <1>3 DEF IInv, TypeOK
<1>10. sets \in Nat /\ clock \in Nat BY DEF IInv, TypeOK
<1> HIDE DEF k
<1>11. TypeOK' BY <1>2, <1>7, <1>8, <1>9 DEF IInv, TypeOK, config
<1>12. CacheInv'
  <2> SUFFICES ASSUME NEW j \in StatusKeys, cache[j] # None
               PROVE  /\ probe'[cache[j]].state = "settled"
                      /\ StatusKey(probe'[cache[j]].of) = j
                      /\ probe'[cache[j]].settled = sets
                      /\ expires[j] <= probe'[cache[j]].at + ProbeTimeout + CacheTtl
    BY <1>2 DEF CacheInv, config
  <2>1. cache[j] \in Probe /\ cache[j] # p BY <1>5 DEF IInv, TypeOK
  <2>2. probe'[cache[j]] = probe[cache[j]] BY <1>7, <2>1
  <2>3. QED BY <2>2 DEF IInv, CacheInv
<1>13. InflightInv'
  <2> SUFFICES ASSUME NEW j \in StatusKeys, inflight'[j] # None
               PROVE  /\ probe'[inflight'[j]].state = "running"
                      /\ StatusKey(probe'[inflight'[j]].of) = j
                      /\ probe'[inflight'[j]].sets = sets
    BY <1>2 DEF InflightInv, config
  <2>1. CASE j = k BY <1>7, <1>9, <2>1 DEF k
  <2>2. CASE j # k
    <3>1. inflight'[j] = inflight[j] /\ inflight[j] \in Probe /\ inflight[j] # p
      BY <1>6, <1>9, <2>2 DEF IInv, TypeOK
    <3>2. probe'[inflight[j]] = probe[inflight[j]] BY <1>7, <3>1
    <3>3. QED BY <3>1, <3>2 DEF IInv, InflightInv
  <2>3. QED BY <2>1, <2>2
<1>14. RunningInv'
  <2> SUFFICES ASSUME NEW q \in Probe, probe'[q].state = "running"
               PROVE  /\ probe'[q].at <= clock
                      /\ clock <= probe'[q].at + ProbeTimeout
                      /\ probe'[q].sets <= sets
                      /\ probe'[q].sets = sets =>
                            \/ inflight'[StatusKey(probe'[q].of)] = q
                            \/ /\ cache[StatusKey(probe'[q].of)] # None
                               /\ expires[StatusKey(probe'[q].of)] >= probe'[q].at + CacheTtl
    BY <1>2 DEF RunningInv, Covered, config
  <2>1. CASE q = p BY <1>7, <1>9, <1>10, <2>1 DEF k
  <2>2. CASE q # p
    <3>1. probe'[q] = probe[q] BY <1>7, <2>2
    <3>2. CASE StatusKey(probe[q].of) = k
      <4>1. probe[q].sets # sets
        BY <1>3, <1>4, <3>1, <3>2, MissedUncovered DEF IInv
      <4>2. QED BY <3>1, <4>1 DEF IInv, RunningInv
    <3>3. CASE StatusKey(probe[q].of) # k
      <4>1. StatusKey(probe[q].of) \in StatusKeys BY KeyKnown DEF IInv, TypeOK, ProbeRecord
      <4>2. QED BY <1>9, <3>1, <3>3, <4>1 DEF IInv, RunningInv, Covered
    <3>4. QED BY <3>2, <3>3
  <2>3. QED BY <2>1, <2>2
<1>15. WaitingInv'
  <2> SUFFICES ASSUME NEW b \in Ask, ask'[b].state = "waiting"
               PROVE  /\ ask'[b].on \in Probe
                      /\ probe'[ask'[b].on].state = "running"
                      /\ StatusKey(probe'[ask'[b].on].of) = StatusKey(ask'[b].of)
                      /\ probe'[ask'[b].on].sets = ask'[b].sets
                      /\ ask'[b].sets <= sets
    BY <1>2 DEF WaitingInv, config
  <2>1. CASE b = a BY <1>7, <1>8, <1>10, <2>1
  <2>2. CASE b # a
    <3>1. ask'[b] = ask[b] /\ ask[b].on # p BY <1>5, <1>8, <2>2
    <3>2. ask[b].on \in Probe BY <3>1 DEF IInv, WaitingInv
    <3>3. probe'[ask[b].on] = probe[ask[b].on] BY <1>7, <3>1, <3>2
    <3>4. QED BY <3>1, <3>3 DEF IInv, WaitingInv
  <2>3. QED BY <2>1, <2>2
<1>16. AnsweredInv'
  <2> SUFFICES ASSUME NEW b \in Ask, ask'[b].state = "answered"
               PROVE  /\ ask'[b].on \in Probe
                      /\ probe'[ask'[b].on].state = "settled"
                      /\ StatusKey(probe'[ask'[b].on].of) = StatusKey(ask'[b].of)
                      /\ probe'[ask'[b].on].settled >= ask'[b].sets
                      /\ ask'[b].at < probe'[ask'[b].on].at + ProbeTimeout + CacheTtl
    BY DEF AnsweredInv
  <2>1. b # a BY <1>8
  <2>2. ask'[b] = ask[b] /\ ask[b].on # p BY <1>5, <1>8, <2>1
  <2>3. ask[b].on \in Probe BY <2>2 DEF IInv, AnsweredInv
  <2>4. probe'[ask[b].on] = probe[ask[b].on] BY <1>7, <2>2, <2>3
  <2>5. QED BY <2>2, <2>4 DEF IInv, AnsweredInv
<1>17. OneProbeAtATime'
  <2> SUFFICES ASSUME NEW q \in Probe, NEW r \in Probe,
                      probe'[q].state = "running", probe'[r].state = "running",
                      StatusKey(probe'[q].of) = StatusKey(probe'[r].of),
                      probe'[q].sets = probe'[r].sets
               PROVE  q = r
    BY DEF OneProbeAtATime, Running
  <2>1. ASSUME NEW x \in Probe, x # p, probe'[x].state = "running",
               StatusKey(probe'[x].of) = k
        PROVE  probe'[x].sets # sets
    BY <1>3, <1>4, <1>7, <2>1, MissedUncovered DEF IInv
  <2>2. CASE q = p BY <1>7, <2>1, <2>2 DEF k
  <2>3. CASE r = p BY <1>7, <2>1, <2>3 DEF k
  <2>4. CASE q # p /\ r # p
    BY <1>7, <2>4 DEF IInv, OneProbeAtATime, Running
  <2>5. QED BY <2>2, <2>3, <2>4
<1>18. QED BY <1>11, <1>12, <1>13, <1>14, <1>15, <1>16, <1>17 DEF IInv

-----------------------------------------------------------------------------
(* A check settles.                                                        *)

LEMMA SettlesKeeps ==
    ASSUME IInv, NEW p \in Probe, Settles(p)
    PROVE  IInv'
<1> USE ConstantsKnown
<1> DEFINE k == StatusKey(probe[p].of)
<1>1. /\ probe[p].state = "running"
      /\ cache' = [cache EXCEPT ![k] = p]
      /\ expires' = [expires EXCEPT ![k] = clock + CacheTtl]
      /\ inflight' = [inflight EXCEPT ![k] = None]
      /\ probe' = [probe EXCEPT ![p] = [@ EXCEPT !.state = "settled", !.settled = sets]]
      /\ UNCHANGED <<config, clock>>
  BY DEF Settles
<1>2. /\ k \in StatusKeys
      /\ probe[p].at \in Nat /\ clock \in Nat /\ clock <= MaxClock /\ sets \in Nat
      /\ probe[p].at <= clock /\ clock <= probe[p].at + ProbeTimeout
  BY <1>1, KeyKnown DEF IInv, TypeOK, ProbeRecord, RunningInv
<1>3. /\ probe'[p].state = "settled" /\ probe'[p].settled = sets
      /\ probe'[p].of = probe[p].of /\ probe'[p].at = probe[p].at
      /\ probe'[p].sets = probe[p].sets
      /\ \A q \in Probe : q # p => probe'[q] = probe[q]
      /\ probe' \in [Probe -> ProbeRecord]
  <2>1. probe \in [Probe -> ProbeRecord] /\ sets \in 0..MaxSets BY DEF IInv, TypeOK
  <2>2. probe'[p] = [probe[p] EXCEPT !.state = "settled", !.settled = sets] BY <1>1, <2>1
  <2>3. probe[p] \in ProbeRecord BY <2>1
  <2>4. probe'[p] \in ProbeRecord BY <2>1, <2>2, <2>3 DEF ProbeRecord
  <2>5. QED BY <1>1, <2>1, <2>2, <2>3, <2>4 DEF ProbeRecord
<1>4. /\ cache'[k] = p /\ expires'[k] = clock + CacheTtl /\ inflight'[k] = None
      /\ \A j \in StatusKeys : j # k => /\ cache'[j] = cache[j]
                                        /\ expires'[j] = expires[j]
                                        /\ inflight'[j] = inflight[j]
      /\ cache' \in [StatusKeys -> Probe \cup {None}]
      /\ expires' \in [StatusKeys -> 0..(MaxClock + CacheTtl)]
      /\ inflight' \in [StatusKeys -> Probe \cup {None}]
  <2>1. clock + CacheTtl \in 0..(MaxClock + CacheTtl) BY <1>2
  <2>2. QED BY <1>1, <1>2, <2>1 DEF IInv, TypeOK
<1>5. /\ \A a \in Ask : ask[a].state = "waiting" /\ ask[a].on = p =>
              /\ ask'[a].state = "answered" /\ ask'[a].at = clock
              /\ ask'[a].on = p /\ ask'[a].of = ask[a].of /\ ask'[a].sets = ask[a].sets
      /\ \A a \in Ask : ~(ask[a].state = "waiting" /\ ask[a].on = p) => ask'[a] = ask[a]
      /\ ask' \in [Ask -> AskRecord]
  <2>1. ask \in [Ask -> AskRecord] /\ clock \in 0..MaxClock BY DEF IInv, TypeOK
  <2>2. ask' = [a \in Ask |->
                  IF ask[a].state = "waiting" /\ ask[a].on = p
                  THEN [ask[a] EXCEPT !.state = "answered", !.at = clock]
                  ELSE ask[a]]
    BY DEF Settles
  <2>3. ASSUME NEW a \in Ask
        PROVE  [ask[a] EXCEPT !.state = "answered", !.at = clock] \in AskRecord
    <3>1. ask[a] \in AskRecord BY <2>1
    <3>2. QED BY <2>1, <3>1 DEF AskRecord
  <2>4. ask' \in [Ask -> AskRecord] BY <2>1, <2>2, <2>3
  <2>5. ASSUME NEW a \in Ask, ask[a].state = "waiting" /\ ask[a].on = p
        PROVE  /\ ask'[a].state = "answered" /\ ask'[a].at = clock
               /\ ask'[a].on = p /\ ask'[a].of = ask[a].of /\ ask'[a].sets = ask[a].sets
    <3>1. ask[a] \in AskRecord BY <2>1
    <3>2. ask'[a] = [ask[a] EXCEPT !.state = "answered", !.at = clock] BY <2>2, <2>5
    <3>3. QED BY <2>5, <3>1, <3>2 DEF AskRecord
  <2>6. \A a \in Ask : ~(ask[a].state = "waiting" /\ ask[a].on = p) => ask'[a] = ask[a]
    BY <2>2
  <2>7. QED BY <2>4, <2>5, <2>6
<1>6. k = StatusKey(probe[p].of) OBVIOUS
<1> HIDE DEF k
<1>7. TypeOK' BY <1>1, <1>3, <1>4, <1>5 DEF IInv, TypeOK, config
\* What refers to a settled check does not refer to p.
<1>8. CacheInv'
  <2> SUFFICES ASSUME NEW j \in StatusKeys, cache'[j] # None
               PROVE  /\ probe'[cache'[j]].state = "settled"
                      /\ StatusKey(probe'[cache'[j]].of) = j
                      /\ probe'[cache'[j]].settled = sets
                      /\ expires'[j] <= probe'[cache'[j]].at + ProbeTimeout + CacheTtl
    BY <1>1 DEF CacheInv, config
  <2>1. CASE j = k BY <1>2, <1>3, <1>4, <1>6, <2>1
  <2>2. CASE j # k
    <3>1. cache[j] \in Probe /\ cache'[j] = cache[j] /\ expires'[j] = expires[j]
      BY <1>4, <2>2 DEF IInv, TypeOK
    <3>2. cache[j] # p BY <1>1, <3>1 DEF IInv, CacheInv
    <3>3. probe'[cache[j]] = probe[cache[j]] BY <1>3, <3>1, <3>2
    <3>4. QED BY <3>1, <3>3 DEF IInv, CacheInv
  <2>3. QED BY <2>1, <2>2
<1>9. InflightInv'
  <2> SUFFICES ASSUME NEW j \in StatusKeys, inflight'[j] # None
               PROVE  /\ probe'[inflight'[j]].state = "running"
                      /\ StatusKey(probe'[inflight'[j]].of) = j
                      /\ probe'[inflight'[j]].sets = sets
    BY <1>1 DEF InflightInv, config
  <2>1. j # k BY <1>4
  <2>2. inflight[j] \in Probe /\ inflight'[j] = inflight[j] BY <1>4, <2>1 DEF IInv, TypeOK
  <2>3. inflight[j] # p BY <1>6, <2>1, <2>2 DEF IInv, InflightInv
  <2>4. probe'[inflight[j]] = probe[inflight[j]] BY <1>3, <2>2, <2>3
  <2>5. QED BY <2>2, <2>4 DEF IInv, InflightInv
<1>10. RunningInv'
  <2> SUFFICES ASSUME NEW q \in Probe, probe'[q].state = "running"
               PROVE  /\ probe'[q].at <= clock
                      /\ clock <= probe'[q].at + ProbeTimeout
                      /\ probe'[q].sets <= sets
                      /\ probe'[q].sets = sets =>
                            \/ inflight'[StatusKey(probe'[q].of)] = q
                            \/ /\ cache'[StatusKey(probe'[q].of)] # None
                               /\ expires'[StatusKey(probe'[q].of)] >= probe'[q].at + CacheTtl
    BY <1>1 DEF RunningInv, Covered, config
  <2>1. q # p BY <1>3
  <2>2. probe'[q] = probe[q] BY <1>3, <2>1
  <2>3. /\ StatusKey(probe[q].of) \in StatusKeys /\ probe[q].at \in Nat
        /\ probe[q].at <= clock /\ clock <= probe[q].at + ProbeTimeout
        /\ probe[q].sets <= sets
    BY <2>2, KeyKnown DEF IInv, TypeOK, ProbeRecord, RunningInv
  <2>4. CASE StatusKey(probe[q].of) = k BY <1>2, <1>4, <2>2, <2>3, <2>4
  <2>5. CASE StatusKey(probe[q].of) # k
    BY <1>4, <2>2, <2>3, <2>5 DEF IInv, RunningInv, Covered
  <2>6. QED BY <2>4, <2>5
<1>11. WaitingInv'
  <2> SUFFICES ASSUME NEW a \in Ask, ask'[a].state = "waiting"
               PROVE  /\ ask'[a].on \in Probe
                      /\ probe'[ask'[a].on].state = "running"
                      /\ StatusKey(probe'[ask'[a].on].of) = StatusKey(ask'[a].of)
                      /\ probe'[ask'[a].on].sets = ask'[a].sets
                      /\ ask'[a].sets <= sets
    BY <1>1 DEF WaitingInv, config
  <2>1. ask'[a] = ask[a] /\ ask[a].on # p BY <1>5
  <2>2. ask[a].on \in Probe BY <2>1 DEF IInv, WaitingInv
  <2>3. probe'[ask[a].on] = probe[ask[a].on] BY <1>3, <2>1, <2>2
  <2>4. QED BY <2>1, <2>3 DEF IInv, WaitingInv
<1>12. AnsweredInv'
  <2> SUFFICES ASSUME NEW a \in Ask, ask'[a].state = "answered"
               PROVE  /\ ask'[a].on \in Probe
                      /\ probe'[ask'[a].on].state = "settled"
                      /\ StatusKey(probe'[ask'[a].on].of) = StatusKey(ask'[a].of)
                      /\ probe'[ask'[a].on].settled >= ask'[a].sets
                      /\ ask'[a].at < probe'[ask'[a].on].at + ProbeTimeout + CacheTtl
    BY DEF AnsweredInv
  <2>1. CASE ask[a].state = "waiting" /\ ask[a].on = p
    <3>1. StatusKey(probe[p].of) = StatusKey(ask[a].of) /\ ask[a].sets <= sets
      BY <2>1 DEF IInv, WaitingInv
    <3>2. ask[a].sets \in Nat BY DEF IInv, TypeOK, AskRecord
    <3>3. QED BY <1>2, <1>3, <1>5, <2>1, <3>1, <3>2
  <2>2. CASE ~(ask[a].state = "waiting" /\ ask[a].on = p)
    <3>1. ask'[a] = ask[a] BY <1>5, <2>2
    <3>2. ask[a].on \in Probe /\ ask[a].on # p BY <1>1, <3>1 DEF IInv, AnsweredInv
    <3>3. probe'[ask[a].on] = probe[ask[a].on] BY <1>3, <3>2
    <3>4. QED BY <3>1, <3>3 DEF IInv, AnsweredInv
  <2>3. QED BY <2>1, <2>2
<1>13. OneProbeAtATime'
  <2>1. \A q \in Probe : probe'[q].state = "running" => q # p /\ probe'[q] = probe[q]
    BY <1>3
  <2>2. QED BY <2>1 DEF IInv, OneProbeAtATime, Running
<1>14. QED BY <1>7, <1>8, <1>9, <1>10, <1>11, <1>12, <1>13 DEF IInv

-----------------------------------------------------------------------------
(* The settings change, the broker restarts, time goes by.                 *)

LEMMA SetKeeps ==
    ASSUME IInv, NEW provider \in Provider \cup {Absent},
           NEW key \in ApiKey \cup {None, Absent}, Set(provider, key)
    PROVE  IInv'
<1> USE ConstantsKnown
<1>1. /\ current' \in Config /\ disk' = current' /\ saved' = current' /\ failed' = 0
      /\ sets < MaxSets /\ sets' = sets + 1 /\ sets \in Nat /\ changed' = clock
      /\ UNCHANGED <<probe, ask, clock>>
  <2>1. current' = Patched(provider, key) /\ Patched(provider, key) \in Config
    BY PatchedKnown DEF Set, IInv
  <2>2. sets \in Nat BY DEF IInv, TypeOK
  <2>3. QED BY <2>1, <2>2 DEF Set, Clear
<1>2. /\ \A k \in StatusKeys : cache'[k] = None /\ inflight'[k] = None
      /\ cache' \in [StatusKeys -> Probe \cup {None}]
      /\ inflight' \in [StatusKeys -> Probe \cup {None}]
      /\ expires' \in [StatusKeys -> 0..(MaxClock + CacheTtl)]
  BY DEF Set, Clear
<1>3. TypeOK' BY <1>1, <1>2 DEF IInv, TypeOK
<1>4. CacheInv' /\ InflightInv' BY <1>2 DEF CacheInv, InflightInv
<1>5. RunningInv'
  <2>1. \A p \in Probe : probe[p].sets \in Nat BY DEF IInv, TypeOK, ProbeRecord
  <2>2. QED BY <1>1, <2>1 DEF IInv, RunningInv
<1>6. WaitingInv'
  <2>1. \A a \in Ask : ask[a].sets \in Nat BY DEF IInv, TypeOK, AskRecord
  <2>2. QED BY <1>1, <2>1 DEF IInv, WaitingInv
<1>7. AnsweredInv' /\ OneProbeAtATime'
  BY <1>1 DEF IInv, AnsweredInv, OneProbeAtATime, Running
<1>8. QED BY <1>3, <1>4, <1>5, <1>6, <1>7 DEF IInv

LEMMA SetFailsKeeps ==
    ASSUME IInv, NEW provider \in Provider \cup {Absent},
           NEW key \in ApiKey \cup {None, Absent}, SetFails(provider, key)
    PROVE  IInv'
<1>1. /\ current' \in Config /\ disk' \in {disk, Torn, current'}
      /\ UNCHANGED <<saved, sets, changed, statuses, ask, clock>>
  BY PatchedKnown DEF SetFails, IInv
<1>a. failed' \in 0..MaxFailed
  <2>1. failed \in 0..MaxFailed BY DEF IInv, TypeOK
  <2>2. failed < MaxFailed /\ failed' = failed + 1 BY DEF SetFails
  <2>3. QED BY <2>1, <2>2, ConstantsKnown
<1>2. TypeOK' BY <1>1, <1>a DEF IInv, TypeOK, statuses
<1>3. (CacheInv /\ InflightInv /\ RunningInv)'
  BY <1>1 DEF IInv, CacheInv, InflightInv, RunningInv, Covered, statuses
<1>4. (WaitingInv /\ AnsweredInv /\ OneProbeAtATime)'
  BY <1>1 DEF IInv, WaitingInv, AnsweredInv, OneProbeAtATime, Running, statuses
<1>5. QED BY <1>2, <1>3, <1>4 DEF IInv

LEMMA RestartKeeps == IInv /\ Restart => IInv'
<1> SUFFICES ASSUME IInv, Restart PROVE IInv' OBVIOUS
<1> USE ConstantsKnown
<1>1. /\ disk' \in Config \cup {Torn} /\ current' \in Config /\ failed' \in 0..MaxFailed
      /\ UNCHANGED <<saved, sets, changed, clock>>
  BY DEF Restart, IInv, TypeOK
<1>2. /\ \A k \in StatusKeys : cache'[k] = None /\ inflight'[k] = None
      /\ cache' \in [StatusKeys -> Probe \cup {None}]
      /\ inflight' \in [StatusKeys -> Probe \cup {None}]
      /\ expires' \in [StatusKeys -> 0..(MaxClock + CacheTtl)]
  BY DEF Restart
<1>3. /\ probe' \in [Probe -> ProbeRecord]
      /\ \A p \in Probe : probe'[p].state # "running"
      /\ \A p \in Probe : probe[p].state # "running" => probe'[p] = probe[p]
  <2>1. Idle \in ProbeRecord /\ Idle.state = "idle" BY DEF Idle, ProbeRecord
  <2>2. probe' = [p \in Probe |-> IF p \in Running THEN Idle ELSE probe[p]] BY DEF Restart
  <2>3. probe \in [Probe -> ProbeRecord] BY DEF IInv, TypeOK
  <2>4. QED BY <2>1, <2>2, <2>3 DEF Running
<1>4. /\ ask' \in [Ask -> AskRecord]
      /\ \A a \in Ask : ask'[a].state # "waiting"
      /\ \A a \in Ask : ask'[a].state = "answered" => ask'[a] = ask[a]
  <2>1. Unsent \in AskRecord /\ Unsent.state = "unsent" BY DEF Unsent, AskRecord
  <2>2. ask' = [a \in Ask |-> IF ask[a].state = "waiting" THEN Unsent ELSE ask[a]]
    BY DEF Restart
  <2>3. ask \in [Ask -> AskRecord] BY DEF IInv, TypeOK
  <2>4. QED BY <2>1, <2>2, <2>3
<1>5. TypeOK' BY <1>1, <1>2, <1>3, <1>4 DEF IInv, TypeOK
<1>6. CacheInv' /\ InflightInv' BY <1>2 DEF CacheInv, InflightInv
<1>7. RunningInv' /\ WaitingInv' /\ OneProbeAtATime'
  BY <1>3, <1>4 DEF RunningInv, WaitingInv, OneProbeAtATime, Running
<1>8. AnsweredInv'
  <2> SUFFICES ASSUME NEW a \in Ask, ask'[a].state = "answered"
               PROVE  /\ ask'[a].on \in Probe
                      /\ probe'[ask'[a].on].state = "settled"
                      /\ StatusKey(probe'[ask'[a].on].of) = StatusKey(ask'[a].of)
                      /\ probe'[ask'[a].on].settled >= ask'[a].sets
                      /\ ask'[a].at < probe'[ask'[a].on].at + ProbeTimeout + CacheTtl
    BY DEF AnsweredInv
  <2>1. ask'[a] = ask[a] BY <1>4
  <2>2. ask[a].on \in Probe /\ probe[ask[a].on].state = "settled"
    BY <2>1 DEF IInv, AnsweredInv
  <2>3. probe'[ask[a].on] = probe[ask[a].on] BY <1>3, <2>2
  <2>4. QED BY <2>1, <2>3 DEF IInv, AnsweredInv
<1>9. QED BY <1>5, <1>6, <1>7, <1>8 DEF IInv

LEMMA TickKeeps == IInv /\ Tick => IInv'
<1> SUFFICES ASSUME IInv, Tick PROVE IInv' OBVIOUS
<1> USE ConstantsKnown
<1>1. /\ clock < MaxClock /\ clock' = clock + 1 /\ clock \in Nat
      /\ \A p \in Probe : probe[p].state = "running" => clock < probe[p].at + ProbeTimeout
      /\ UNCHANGED <<config, statuses, ask>>
  BY DEF Tick, Running, IInv, TypeOK
<1>2. TypeOK' BY <1>1 DEF IInv, TypeOK, config, statuses
<1>3. (CacheInv /\ InflightInv /\ WaitingInv /\ AnsweredInv /\ OneProbeAtATime)'
  BY <1>1 DEF IInv, CacheInv, InflightInv, WaitingInv, AnsweredInv, OneProbeAtATime, Running,
              config, statuses
<1>4. RunningInv'
  <2>1. \A p \in Probe : probe[p].at \in Nat BY DEF IInv, TypeOK, ProbeRecord
  <2>2. QED BY <1>1, <2>1 DEF IInv, RunningInv, Covered, config, statuses
<1>5. QED BY <1>2, <1>3, <1>4 DEF IInv

LEMMA StepKeeps == IInv /\ [Next]_vars => IInv'
<1> SUFFICES ASSUME IInv, [Next]_vars PROVE IInv' OBVIOUS
<1>1. ASSUME NEW a \in Ask, ProviderStatus(a) PROVE IInv'
  BY <1>1, FromCacheKeeps, JoinsKeeps, StartsKeeps DEF ProviderStatus
<1>2. ASSUME NEW p \in Probe, Settles(p) PROVE IInv' BY <1>2, SettlesKeeps
<1>3. ASSUME NEW provider \in Provider \cup {Absent}, NEW key \in ApiKey \cup {None, Absent},
             Set(provider, key) \/ SetFails(provider, key)
      PROVE  IInv'
  BY <1>3, SetKeeps, SetFailsKeeps
<1>4. CASE Restart BY <1>4, RestartKeeps
<1>5. CASE Tick BY <1>5, TickKeeps
<1>6. CASE UNCHANGED vars
  <2>1. UNCHANGED <<config, statuses, ask, clock>> BY <1>6 DEF vars
  <2>2. TypeOK' BY <2>1 DEF IInv, TypeOK, config, statuses
  <2>3. (CacheInv /\ InflightInv /\ RunningInv)'
    BY <2>1 DEF IInv, CacheInv, InflightInv, RunningInv, Covered, config, statuses
  <2>4. (WaitingInv /\ AnsweredInv /\ OneProbeAtATime)'
    BY <2>1 DEF IInv, WaitingInv, AnsweredInv, OneProbeAtATime, Running, config, statuses
  <2>5. QED BY <2>2, <2>3, <2>4 DEF IInv
<1>7. QED BY <1>1, <1>2, <1>3, <1>4, <1>5, <1>6 DEF Next

-----------------------------------------------------------------------------
(* The theorems.                                                           *)

\* The inductive invariant: what the two maps of the cache hold, what covers a
\* running check, and what a client waits for or was told.
THEOREM Invariant == Spec => []IInv
BY InitHolds, StepKeeps, PTL DEF Spec

\* Every variable keeps its type.
THEOREM TypeCorrect == Spec => []TypeOK
<1>1. IInv => TypeOK BY DEF IInv
<1>2. QED BY <1>1, Invariant, PTL

\* A provider.status answer is about the configuration it was asked for,
\* whatever was set while the check ran.
THEOREM AnswerOfItsConfigHolds == Spec => []AnswerOfItsConfig
<1>1. IInv => AnswerOfItsConfig
  BY DEF IInv, AnsweredInv, AnswerOfItsConfig, StatusKey
<1>2. QED BY <1>1, Invariant, PTL

\* However often the cache is hit, an answer is younger than the life of a
\* cached result and the longest check together.
THEOREM AnswerIsRecentHolds == Spec => []AnswerIsRecent
<1>1. IInv => AnswerIsRecent BY DEF IInv, AnsweredInv, AnswerIsRecent
<1>2. QED BY <1>1, Invariant, PTL

\* No request waits for a check that is older than the settings.set before it.
THEOREM WaitsOnCurrentProbeHolds == Spec => []WaitsOnCurrentProbe
<1>1. IInv => WaitsOnCurrentProbe BY DEF IInv, WaitingInv, WaitsOnCurrentProbe
<1>2. QED BY <1>1, Invariant, PTL

\* A check is as old as the settings.set before it, at least: one that a
\* settings.set overtook was started before it.
LateInv ==
    /\ changed <= clock
    /\ \A p \in Probe :
          /\ probe[p].at <= clock
          /\ probe[p].sets <= sets
          /\ probe[p].sets < sets => probe[p].at <= changed
    /\ \A a \in Ask :
          ask[a].state = "answered" /\ probe[ask[a].on].sets < ask[a].sets =>
              ask[a].at < changed + ProbeTimeout + CacheTtl

LEMMA Numbers ==
    ASSUME TypeOK
    PROVE  /\ clock \in Nat /\ changed \in Nat /\ sets \in Nat
           /\ \A p \in Probe : probe[p].at \in Nat /\ probe[p].sets \in Nat /\ probe[p].settled \in Nat
           /\ \A a \in Ask : ask[a].at \in Nat /\ ask[a].sets \in Nat
BY ConstantsKnown DEF TypeOK, ProbeRecord, AskRecord

LEMMA LateInit == Init => LateInv
BY ConstantsKnown DEF Init, LateInv, Idle, Unsent

LEMMA LateAsk ==
    ASSUME IInv, LateInv, NEW a \in Ask, ProviderStatus(a) PROVE LateInv'
<1> DEFINE k == StatusKey(current)
<1>1. UNCHANGED <<current, sets, changed, clock>> /\ k \in StatusKeys
  BY KeyKnown DEF ProviderStatus, config, IInv, TypeOK
<1>2. ask \in [Ask -> AskRecord] /\ probe \in [Probe -> ProbeRecord] BY DEF IInv, TypeOK
<1>3. ask[a] \in AskRecord BY <1>2
<1>4. CASE FromCache(a, k)
  <2>1. UNCHANGED probe /\ cache[k] \in Probe /\ expires[k] > clock
    BY <1>1, <1>4 DEF FromCache, statuses, IInv, TypeOK
  <2>2. expires[k] <= probe[cache[k]].at + ProbeTimeout + CacheTtl
    BY <1>1, <1>4 DEF FromCache, IInv, CacheInv
  <2>3. /\ ask'[a].on = cache[k] /\ ask'[a].sets = sets /\ ask'[a].at = clock
        /\ \A b \in Ask : b # a => ask'[b] = ask[b]
    BY <1>2, <1>3, <1>4 DEF FromCache, Answered, AskRecord
  <2>4. expires[k] \in Nat /\ clock \in Nat /\ changed \in Nat /\ probe[cache[k]].at \in Nat
    BY <1>1, <2>1, ConstantsKnown, Numbers DEF IInv, TypeOK
  <2>5. probe[cache[k]].sets < sets => clock < changed + ProbeTimeout + CacheTtl
    BY <2>1, <2>2, <2>4, ConstantsKnown DEF LateInv
  <2>6. \A b \in Ask : ask'[b].state = "answered" /\ probe[ask'[b].on].sets < ask'[b].sets =>
                           ask'[b].at < changed + ProbeTimeout + CacheTtl
    BY <2>3, <2>5 DEF LateInv
  <2>7. QED BY <1>1, <2>1, <2>6 DEF LateInv
<1>5. CASE JoinsProbe(a, k)
  <2>1. UNCHANGED probe BY <1>5 DEF JoinsProbe, statuses
  <2>2. ask'[a].state = "waiting" /\ \A b \in Ask : b # a => ask'[b] = ask[b]
    BY <1>2, <1>3, <1>5 DEF JoinsProbe, Waiting, AskRecord
  <2>3. QED BY <1>1, <2>1, <2>2 DEF LateInv
<1>6. CASE StartsProbe(a, k)
  <2>1. PICK p \in Probe : /\ Forgotten(p)
                           /\ probe' = [probe EXCEPT ![p] = Started]
                           /\ ask' = [ask EXCEPT ![a] = Waiting(a, p)]
    BY <1>6 DEF StartsProbe
  <2>2. ask'[a].state = "waiting" /\ \A b \in Ask : b # a => ask'[b] = ask[b] /\ ask[b].on # p
    BY <1>2, <1>3, <2>1 DEF Forgotten, Waiting, AskRecord
  <2>3. /\ probe'[p].at = clock /\ probe'[p].sets = sets
        /\ \A q \in Probe : q # p => probe'[q] = probe[q]
    BY <1>2, <2>1 DEF Started
  <2>4. clock \in Nat /\ sets \in Nat BY Numbers DEF IInv
  <2>5. \A b \in Ask : ask'[b].state = "answered" => b # a /\ probe'[ask'[b].on] = probe[ask[b].on]
    BY <2>2, <2>3 DEF IInv, AnsweredInv
  <2>6. QED BY <1>1, <2>2, <2>3, <2>4, <2>5 DEF LateInv
<1>7. QED BY <1>4, <1>5, <1>6 DEF ProviderStatus

LEMMA LateSettles ==
    ASSUME IInv, LateInv, NEW p \in Probe, Settles(p) PROVE LateInv'
<1>1. UNCHANGED <<sets, changed, clock>> BY DEF Settles, config
<1>2. ask \in [Ask -> AskRecord] /\ probe \in [Probe -> ProbeRecord] BY DEF IInv, TypeOK
<1>3. ASSUME NEW q \in Probe PROVE probe'[q].at = probe[q].at /\ probe'[q].sets = probe[q].sets
  <2>1. probe[q] \in ProbeRecord BY <1>2
  <2>2. probe'[q] = IF q = p THEN [probe[q] EXCEPT !.state = "settled", !.settled = sets] ELSE probe[q]
    BY <1>2 DEF Settles
  <2>3. QED BY <2>1, <2>2 DEF ProbeRecord
<1>a. \A a \in Ask : ask[a].state \in {"waiting", "answered"} => ask[a].on \in Probe
  BY DEF IInv, WaitingInv, AnsweredInv
<1>b. \A a \in Ask : ask'[a].state = "answered" => ask'[a].on = ask[a].on /\ ask[a].on \in Probe
  BY <1>2, <1>a DEF Settles, AskRecord
<1>4. ASSUME NEW a \in Ask, ask'[a].state = "answered", probe[ask'[a].on].sets < ask'[a].sets
      PROVE  ask'[a].at < changed + ProbeTimeout + CacheTtl
  <2>1. CASE ask[a].state = "waiting" /\ ask[a].on = p
    <3>1. ask'[a].on = ask[a].on /\ ask'[a].sets = ask[a].sets
      BY <1>2, <2>1 DEF Settles, AskRecord
    <3>2. probe[ask[a].on].sets = ask[a].sets /\ ask[a].sets \in Nat
      BY <2>1, Numbers DEF IInv, WaitingInv
    <3>3. QED BY <1>4, <3>1, <3>2
  <2>2. CASE ~(ask[a].state = "waiting" /\ ask[a].on = p)
    BY <1>4, <2>2 DEF Settles, LateInv
  <2>3. QED BY <2>1, <2>2
<1>5. QED BY <1>1, <1>b, <1>3, <1>4 DEF LateInv

LEMMA LateSet ==
    ASSUME IInv, LateInv, NEW provider \in Provider \cup {Absent},
           NEW key \in ApiKey \cup {None, Absent}, Set(provider, key)
    PROVE  LateInv'
<1>1. changed' = clock /\ sets' = sets + 1 /\ UNCHANGED <<probe, ask, clock>> BY DEF Set, Clear
<1>2. QED BY <1>1, Numbers, ConstantsKnown DEF LateInv, IInv

LEMMA LateRestart ==
    ASSUME IInv, LateInv, Restart PROVE LateInv'
<1>1. UNCHANGED <<sets, changed, clock>> BY DEF Restart
<1>2. \A p \in Probe : \/ probe[p].state # "running" /\ probe'[p] = probe[p]
                       \/ probe'[p].at = 0 /\ probe'[p].sets = 0
  BY DEF Restart, Running, Idle
<1>3. \A a \in Ask : ask'[a].state = "answered" => ask'[a] = ask[a] BY DEF Restart, Unsent
<1>4. ASSUME NEW a \in Ask, ask'[a].state = "answered" PROVE probe'[ask[a].on] = probe[ask[a].on]
  <2>1. ask[a].on \in Probe /\ probe[ask[a].on].state = "settled"
    BY <1>3, <1>4 DEF IInv, AnsweredInv
  <2>2. QED BY <2>1 DEF Restart, Running
<1>5. QED BY <1>1, <1>2, <1>3, <1>4, Numbers DEF LateInv, IInv

LEMMA LateKept == IInv /\ LateInv /\ [Next]_vars => LateInv'
<1> SUFFICES ASSUME IInv, LateInv, [Next]_vars PROVE LateInv' OBVIOUS
<1>1. ASSUME NEW provider \in Provider \cup {Absent}, NEW key \in ApiKey \cup {None, Absent},
             SetFails(provider, key)
      PROVE  LateInv'
  BY <1>1 DEF SetFails, statuses, LateInv
<1>2. CASE Tick
  <2>1. clock' = clock + 1 /\ UNCHANGED <<sets, changed, probe, ask>>
    BY <1>2 DEF Tick, config, statuses
  <2>2. QED BY <2>1, Numbers DEF LateInv, IInv
<1>3. CASE UNCHANGED vars BY <1>3 DEF vars, config, statuses, LateInv
<1>4. QED BY <1>1, <1>2, <1>3, LateAsk, LateSettles, LateSet, LateRestart DEF Next

\* What clear() found in the cache is never served again, nobody waits for a
\* check that was running then, and its result is served for as long only as
\* that check and the life of a cached result together may last.
THEOREM OldResultIsLateHolds == Spec => []OldResultIsLate
<1>1. IInv /\ LateInv => OldResultIsLate
  BY DEF IInv, LateInv, WaitingInv, AnsweredInv, WaitsOnCurrentProbe, OldResultIsLate
<1>2. QED BY <1>1, LateInit, LateKept, Invariant, PTL DEF Spec

\* Between two settings.set no two checks of one key run at the same time,
\* although a check that settles late deletes the entry of a newer one.
THEOREM OneProbeAtATimeHolds == Spec => []OneProbeAtATime
<1>1. IInv => OneProbeAtATime BY DEF IInv
<1>2. QED BY <1>1, Invariant, PTL
\* Through restarts and whatever the checks do, memory and config.json hold what
\* the last settings.set that went through asked for, until a save throws or is
\* cut short.
THEOREM SettingsSurviveHolds == Spec => []SettingsSurvive
<1>1. Init => SettingsSurvive BY DEF Init, SettingsSurvive
<1>2. IInv /\ SettingsSurvive /\ [Next]_vars => SettingsSurvive'
  <2> SUFFICES ASSUME IInv, SettingsSurvive, [Next]_vars PROVE SettingsSurvive' OBVIOUS
  <2>1. failed \in Nat /\ saved # Torn
    BY ConstantsKnown, SettingsAssumption DEF IInv, TypeOK
  <2>2. ASSUME NEW a \in Ask, ProviderStatus(a) PROVE SettingsSurvive'
    BY <2>2 DEF ProviderStatus, SettingsSurvive, config
  <2>3. ASSUME NEW p \in Probe, Settles(p) PROVE SettingsSurvive'
    BY <2>3 DEF Settles, SettingsSurvive, config
  <2>4. ASSUME NEW provider \in Provider \cup {Absent}, NEW key \in ApiKey \cup {None, Absent},
               Set(provider, key) \/ SetFails(provider, key)
        PROVE  SettingsSurvive'
    BY <2>1, <2>4 DEF Set, SetFails, SettingsSurvive
  <2>5. CASE Restart BY <2>1, <2>5 DEF Restart, SettingsSurvive
  <2>6. CASE Tick BY <2>6 DEF Tick, SettingsSurvive, config
  <2>7. CASE UNCHANGED vars BY <2>7 DEF vars, SettingsSurvive, config
  <2>8. QED BY <2>2, <2>3, <2>4, <2>5, <2>6, <2>7 DEF Next
<1>3. QED BY <1>1, <1>2, Invariant, PTL DEF Spec
=============================================================================
