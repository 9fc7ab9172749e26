--------------------------- MODULE HandshakeProofs ---------------------------
(***************************************************************************)
(* Proofs about Handshake, for any sets of sockets, origins and tokens and *)
(* any caps.                                                               *)
(*                                                                         *)
(* The argument: what a hello does to the token store (TouchKeeps,         *)
(* EnterKeeps), what a grant does to the pin file (RecordEffect,           *)
(* GrantEffect), and from these one summary of every hello (HelloStep,     *)
(* HelloEffect), from which each property follows.                         *)
(***************************************************************************)
EXTENDS Handshake, FiniteSetTheorems, TLAPS

LEMMA ConstantsKnown ==
    /\ Chrome \cap Firefox = {} /\ Chrome \cap Foreign = {} /\ Firefox \cap Foreign = {}
    /\ None \notin Origin /\ None \notin Token
    /\ TokenCap \in Nat /\ TokenCap >= 1
    /\ PinCap \in Nat /\ PinCap >= 1
    /\ MaxClock \in Nat /\ MaxClock >= 1
    /\ IsFiniteSet(Firefox)
BY HandshakeAssumption

-----------------------------------------------------------------------------
(* The token store.                                                        *)

\* What StoreInv says of a store, issuedTo apart.
Bounded(s) ==
    /\ s \in Seq(Token)
    /\ Len(s) <= TokenCap
    /\ \A m, n \in 1..Len(s) : s[m] = s[n] => m = n

In(t, s) == \E n \in 1..Len(s) : s[n] = t

\* Using a token only reorders the store.
LEMMA TouchKeeps ==
    ASSUME NEW s, Bounded(s), NEW t, In(t, s)
    PROVE  /\ Bounded(Touch(s, t))
           /\ In(t, Touch(s, t))
           /\ \A x : In(x, Touch(s, t)) => In(x, s)
<1> DEFINE p == CHOOSE n \in 1..Len(s) : s[n] = t
           q == Touch(s, t)
<1>1. p \in 1..Len(s) /\ s[p] = t BY DEF In
<1>2. Len(s) \in Nat /\ s \in [1..Len(s) -> Token] BY DEF Bounded
<1>3. t \in Token BY <1>1, <1>2
<1>4. q = [n \in 1..Len(s) |-> IF n < p THEN s[n] ELSE IF n < Len(s) THEN s[n + 1] ELSE t]
  BY DEF Touch
<1> HIDE DEF p, q
<1>5. q \in Seq(Token) /\ Len(q) = Len(s)
  <2>1. \A n \in 1..Len(s) : n < Len(s) => n + 1 \in 1..Len(s) BY <1>2
  <2>2. q \in [1..Len(s) -> Token] BY <1>2, <1>3, <1>4, <2>1
  <2>3. QED BY <1>2, <2>2
\* Where the n-th entry of the new store was in the old one.
<1> DEFINE from(n) == IF n < p THEN n ELSE IF n < Len(s) THEN n + 1 ELSE p
<1>6. \A n \in 1..Len(s) : from(n) \in 1..Len(s) /\ q[n] = s[from(n)]
  BY <1>1, <1>2, <1>4
<1>7. \A m, n \in 1..Len(s) : from(m) = from(n) => m = n
  BY <1>1, <1>2
<1> HIDE DEF from
<1>8. \A m, n \in 1..Len(q) : q[m] = q[n] => m = n
  BY <1>5, <1>6, <1>7, SMTT(30) DEF Bounded
<1>9. Bounded(q) BY <1>5, <1>8 DEF Bounded
<1>10. In(t, q)
  <2>1. Len(s) \in 1..Len(s) BY <1>1, <1>2
  <2>2. q[Len(s)] = t BY <1>1, <1>2, <1>4, <2>1
  <2>3. QED BY <1>5, <2>1, <2>2 DEF In
<1>11. \A x : In(x, q) => In(x, s) BY <1>5, <1>6 DEF In
<1>12. QED BY <1>9, <1>10, <1>11 DEF q

\* A token that enters the store is in it, and it brings nothing else in.
LEMMA EnterKeeps ==
    ASSUME NEW s, Bounded(s), NEW t \in Token, ~In(t, s)
    PROVE  /\ Bounded(Enter(s, t))
           /\ In(t, Enter(s, t))
           /\ \A x : In(x, Enter(s, t)) => x = t \/ In(x, s)
<1>1. Len(s) \in Nat /\ s \in [1..Len(s) -> Token] BY DEF Bounded
<1>2. CASE Len(s) < TokenCap
  <2> DEFINE q == Append(s, t)
  <2>1. q \in Seq(Token) /\ Len(q) = Len(s) + 1 /\ q[Len(s) + 1] = t
        /\ \A n \in 1..Len(s) : q[n] = s[n]
    BY <1>1 DEF Bounded
  <2> HIDE DEF q
  <2>2. \A n \in 1..Len(q) : n \in 1..Len(s) \/ n = Len(s) + 1 BY <1>1, <2>1
  <2>3. Bounded(q)
    <3>1. Len(q) <= TokenCap BY <1>1, <1>2, <2>1, ConstantsKnown
    <3>2. QED BY <2>1, <2>2, <3>1 DEF Bounded, In
  <2>4. In(t, q) BY <1>1, <2>1 DEF In
  <2>5. \A x : In(x, q) => x = t \/ In(x, s) BY <2>1, <2>2 DEF In
  <2>6. Enter(s, t) = q BY <1>2 DEF Enter, q
  <2>7. QED BY <2>3, <2>4, <2>5, <2>6
<1>3. CASE ~(Len(s) < TokenCap)
  <2> DEFINE q == Append(Tail(s), t)
  <2>1. Len(s) = TokenCap /\ Len(s) >= 1
    <3>1. Len(s) <= TokenCap BY DEF Bounded
    <3>2. TokenCap \in Nat /\ TokenCap >= 1 BY ConstantsKnown
    <3>3. Len(s) \in Nat BY <1>1
    <3>4. ASSUME NEW l \in Nat, l <= TokenCap, ~(l < TokenCap) PROVE l = TokenCap /\ l >= 1
      BY <3>2, <3>4
    <3>5. QED BY <1>3, <3>1, <3>3, <3>4
  <2>2. Tail(s) \in Seq(Token) /\ Len(Tail(s)) = Len(s) - 1
        /\ \A n \in 1..Len(s) - 1 : Tail(s)[n] = s[n + 1]
    BY <1>1, <2>1 DEF Bounded
  <2>3. q \in Seq(Token) /\ Len(q) = Len(s) /\ q[Len(s)] = t
        /\ \A n \in 1..Len(s) - 1 : q[n] = s[n + 1]
    BY <1>1, <2>1, <2>2
  <2> HIDE DEF q
  <2>4. \A n \in 1..Len(q) : (n \in 1..Len(s) - 1 /\ n + 1 \in 1..Len(s)) \/ n = Len(s)
    BY <1>1, <2>1, <2>3
  <2>5. Bounded(q)
    <3>1. ASSUME NEW m \in 1..Len(q), NEW n \in 1..Len(q), q[m] = q[n] PROVE m = n
      <4>1. CASE m # Len(s) /\ n # Len(s)
        <5>1. s[m + 1] = s[n + 1] BY <2>3, <2>4, <3>1, <4>1
        <5>2. m + 1 = n + 1 BY <2>4, <4>1, <5>1 DEF Bounded
        <5>3. QED BY <1>1, <2>3, <5>2
      <4>2. CASE m = Len(s) /\ n # Len(s) BY <2>3, <2>4, <3>1, <4>2 DEF In
      <4>3. CASE m # Len(s) /\ n = Len(s) BY <2>3, <2>4, <3>1, <4>3 DEF In
      <4>4. QED BY <4>1, <4>2, <4>3
    <3>2. QED BY <2>1, <2>3, <3>1 DEF Bounded
  <2>6. In(t, q) BY <1>1, <2>1, <2>3 DEF In
  <2>7. \A x : In(x, q) => x = t \/ In(x, s) BY <2>3, <2>4 DEF In
  <2>8. Enter(s, t) = q BY <1>3 DEF Enter, q
  <2>9. QED BY <2>5, <2>6, <2>7, <2>8
<1>4. QED BY <1>2, <1>3

-----------------------------------------------------------------------------
(* The pin file.                                                           *)

\* The lines of a pin file.
Lines(p) == {u \in Firefox : p[u] > 0}

\* What PinsWithinCap says of a file, and that no line is from the future.
Sound(p) ==
    /\ p \in [Firefox -> 0..MaxClock]
    /\ \A u \in Firefox : p[u] <= clock
    /\ Cardinality(Lines(p)) <= PinCap

LEMMA LinesFinite ==
    ASSUME NEW p
    PROVE  IsFiniteSet(Lines(p)) /\ Cardinality(Lines(p)) \in Nat
<1>1. Lines(p) \in SUBSET Firefox BY DEF Lines
<1>2. QED BY <1>1, ConstantsKnown, FS_Subset, FS_CardinalityType

\* Among lines that are not from the future, the one just written is evicted
\* only when it is alone.
LEMMA OldestIsOther ==
    ASSUME NEW p \in [Firefox -> 0..MaxClock], NEW u \in Firefox, clock \in 1..MaxClock,
           p[u] = clock, \A w \in Firefox : p[w] <= clock,
           \E w \in Firefox : w # u /\ p[w] > 0,
           NEW gone \in Oldest(p, u)
    PROVE  gone # u /\ gone \in Lines(p)
<1> DEFINE lines == {w \in Firefox : p[w] > 0}
           least == {w \in lines : \A x \in lines : p[w] <= p[x]}
<1>1. Oldest(p, u) = IF least = {u} THEN {u} ELSE least \ {u} BY DEF Oldest
<1>2. ASSUME least = {u} PROVE FALSE
  <2>1. PICK w \in Firefox : w # u /\ p[w] > 0 OBVIOUS
  <2>2. u \in least BY <1>2
  <2>3. p[u] <= p[w] BY <2>1, <2>2
  <2>4. \A x \in Firefox : p[x] \in Nat BY ConstantsKnown
  <2>5. clock \in Nat /\ p[w] = clock BY <2>1, <2>3, <2>4
  <2>6. \A x \in lines : p[w] <= p[x] BY <2>2, <2>5
  <2>7. w \in least BY <2>1, <2>6
  <2>8. QED BY <1>2, <2>1, <2>7
<1>3. gone \in least \ {u} BY <1>1, <1>2
<1>4. QED BY <1>3 DEF Lines

\* Recording an install keeps the file sound, pins nobody else, pins nobody at
\* all unless it was pinned or may be, and ends with that install pinned.
RecordEffect(u, mayCreate) ==
    /\ Sound(pins')
    /\ Lines(pins') \subseteq Lines(pins) \cup {u}
    /\ ~mayCreate => Lines(pins') \subseteq Lines(pins)
    /\ mayCreate \/ u \in Lines(pins) => u \in Lines(pins')

LEMMA RecordKeeps ==
    ASSUME Sound(pins), clock \in 1..MaxClock, clock' = clock,
           NEW u \in Firefox, NEW mayCreate \in BOOLEAN, Record(u, mayCreate)
    PROVE  RecordEffect(u, mayCreate)
<1> DEFINE fresh == [pins EXCEPT ![u] = clock]
<1>1. clock \in Nat /\ clock >= 1 /\ clock <= MaxClock BY ConstantsKnown
<1>2. Pinned = Lines(pins) BY DEF Pinned, Lines
<1>3. fresh \in [Firefox -> 0..MaxClock] /\ (\A w \in Firefox : fresh[w] <= clock) /\ fresh[u] = clock
  BY <1>1, ConstantsKnown DEF Sound
<1>4. Lines(fresh) = Lines(pins) \cup {u}
  BY <1>1, <1>3 DEF Sound, Lines
<1>5. CASE u \in Lines(pins) /\ pins' = fresh
  <2>1. Lines(fresh) = Lines(pins) BY <1>4, <1>5
  <2>2. QED BY <1>3, <1>5, <2>1 DEF Sound, RecordEffect
<1>6. CASE u \notin Lines(pins) /\ ~mayCreate /\ pins' = pins
  BY <1>6 DEF Sound, RecordEffect
<1>7. CASE u \notin Lines(pins) /\ mayCreate /\ Cardinality(Lines(pins)) < PinCap /\ pins' = fresh
  <2>1. Cardinality(Lines(fresh)) = Cardinality(Lines(pins)) + 1
    BY <1>4, <1>7, LinesFinite, FS_AddElement
  <2>2. Cardinality(Lines(fresh)) <= PinCap BY <1>7, <2>1, LinesFinite, ConstantsKnown
  <2>3. QED BY <1>3, <1>4, <1>7, <2>2 DEF Sound, RecordEffect
<1>8. CASE /\ u \notin Lines(pins) /\ mayCreate /\ ~(Cardinality(Lines(pins)) < PinCap)
           /\ \E gone \in Oldest(fresh, u) : pins' = [fresh EXCEPT ![gone] = 0]
  <2>1. PICK gone \in Oldest(fresh, u) : pins' = [fresh EXCEPT ![gone] = 0] BY <1>8
  <2>2. Lines(pins) # {}
    <3>1. Cardinality(Lines(pins)) # 0 BY <1>8, LinesFinite, ConstantsKnown
    <3>2. QED BY <3>1, FS_EmptySet
  <2>3. \E w \in Firefox : w # u /\ fresh[w] > 0
    <3>1. PICK w \in Lines(pins) : TRUE BY <2>2
    <3>2. w # u /\ w \in Firefox /\ pins[w] > 0 BY <1>8, <3>1 DEF Lines
    <3>3. fresh[w] = pins[w] BY <3>2 DEF Sound
    <3>4. QED BY <3>2, <3>3
  <2>4. gone # u /\ gone \in Lines(fresh) BY <1>3, <2>1, <2>3, OldestIsOther
  <2>5. pins' \in [Firefox -> 0..MaxClock]
    <3>1. 0 \in 0..MaxClock BY ConstantsKnown
    <3>2. QED BY <1>3, <2>1, <3>1
  <2>6. \A w \in Firefox : pins'[w] <= clock BY <1>1, <1>3, <2>1
  <2>7. Lines(pins') = (Lines(pins) \cup {u}) \ {gone} BY <1>3, <1>4, <2>1 DEF Lines
  <2>8. gone \in Lines(pins) BY <1>4, <2>4
  <2>9. Lines(pins') = (Lines(pins) \ {gone}) \cup {u} BY <2>4, <2>7
  <2>10. Cardinality(Lines(pins')) = Cardinality(Lines(pins))
    <3>1. IsFiniteSet(Lines(pins) \ {gone})
          /\ Cardinality(Lines(pins) \ {gone}) = Cardinality(Lines(pins)) - 1
      BY <2>8, LinesFinite, FS_RemoveElement
    <3>2. u \notin Lines(pins) \ {gone} BY <1>8
    <3>3. Cardinality(Lines(pins')) = Cardinality(Lines(pins) \ {gone}) + 1
      BY <2>9, <3>1, <3>2, FS_AddElement
    <3>4. QED BY <3>1, <3>3, LinesFinite
  <2>11. QED BY <1>8, <2>5, <2>6, <2>8, <2>9, <2>10 DEF Sound, RecordEffect
<1>9. QED BY <1>2, <1>5, <1>6, <1>7, <1>8 DEF Record

-----------------------------------------------------------------------------
(* The invariant, and what a hello does.                                   *)

\* A socket has an origin from open() to the close callback.
OpenHasOrigin == \A c \in Conn : conn[c] # "closed" => origin[c] \in Origin

\* What an authenticated socket may rely on.  (OnlyVouched and
\* TokenOfItsOrigin, of one socket.)
Trusted(c) ==
    /\ origin[c] \in Chrome \cup vouched
    /\ held[c] \in Token
    /\ issuedTo[held[c]] = origin[c]

IInv ==
    /\ TypeOK
    /\ OpenHasOrigin
    /\ \A c \in Conn : conn[c] = "authed" => Trusted(c)
    /\ WaitingIsTimed
    /\ Bounded(tokens)
    /\ \A t : In(t, tokens) => issuedTo[t] # None
    /\ Sound(pins)
    /\ Lines(pins) \subseteq vouched

\* What a hello on c does, whichever it is.
HelloStep(c) ==
    /\ conn[c] = "waiting"
    /\ timer' = timer \ {c} /\ origin' = origin /\ clock' = clock
    /\ vouched' \in SUBSET Origin /\ vouched \subseteq vouched'
    /\ Bounded(tokens')
    /\ issuedTo' \in [Token -> Origin \cup {None}]
    /\ \A t \in Token : issuedTo[t] # None => issuedTo'[t] = issuedTo[t]
    /\ \A t : In(t, tokens') => issuedTo'[t] # None
    /\ Sound(pins')
    /\ Lines(pins') \subseteq vouched'
    /\ \/ /\ conn' = [conn EXCEPT ![c] = "closing"]
          /\ held' = held
          /\ \E why \in Refusals :
                /\ via' = [via EXCEPT ![c] = why]
                /\ why = "untrusted" => ~Known(origin[c])
       \/ /\ conn' = [conn EXCEPT ![c] = "authed"]
          /\ \E t \in Token :
                /\ held' = [held EXCEPT ![c] = t]
                /\ issuedTo'[t] = origin[c]
                /\ In(t, tokens')
          /\ \E how \in Grants :
                /\ via' = [via EXCEPT ![c] = how]
                /\ how # "secret" => origin[c] \in Chrome \cup Lines(pins)
          /\ origin[c] \in Chrome \cup vouched'
          /\ origin[c] \in Firefox => origin[c] \in Lines(pins')

\* What remains of HelloStep once the store and the token are known.
GrantStep(c, how, t) ==
    /\ Sound(pins')
    /\ \/ /\ conn' = [conn EXCEPT ![c] = "closing"]
          /\ held' = held
          /\ via' = [via EXCEPT ![c] = "grant-failed"]
          /\ pins' = pins
       \/ /\ conn' = [conn EXCEPT ![c] = "authed"]
          /\ held' = [held EXCEPT ![c] = t]
          /\ via' = [via EXCEPT ![c] = how]
          /\ Lines(pins') \subseteq Lines(pins) \cup (IF how = "secret" THEN {origin[c]} ELSE {})
          /\ origin[c] \in Firefox /\ (how = "secret" \/ origin[c] \in Lines(pins))
                => origin[c] \in Lines(pins')

LEMMA KnownIs ==
    ASSUME NEW o \in Origin
    PROVE  /\ Known(o) <=> o \in Chrome \cup Lines(pins)
           /\ o \in Firefox => (KindOf(o) = "firefox-provisional" <=> o \notin Lines(pins))
           /\ KindOf(o) # "rejected" <=> o \in Chrome \cup Firefox
BY ConstantsKnown DEF Known, KindOf, Pinned, Lines, Origin

LEMMA GrantEffect ==
    ASSUME IInv, clock' = clock, NEW c \in Conn, origin[c] \in Origin,
           NEW how, NEW t, Grant(c, how, t)
    PROVE  GrantStep(c, how, t)
<1> DEFINE o == origin[c]
           pinning == how = "secret" /\ KindOf(o) = "firefox-provisional"
<1>1. Sound(pins) /\ clock \in 1..MaxClock BY DEF IInv, TypeOK
<1>2. CASE PinFileFails /\ o \in Firefox /\ Reject(c, "grant-failed")
  BY <1>1, <1>2 DEF Reject, GrantStep, Sound
<1>3. CASE /\ IF o \in Firefox THEN Record(o, pinning) ELSE UNCHANGED pins
           /\ conn' = [conn EXCEPT ![c] = "authed"]
           /\ held' = [held EXCEPT ![c] = t]
           /\ via' = [via EXCEPT ![c] = how]
  <2>1. CASE o \in Firefox
    <3>1. pinning \in BOOLEAN OBVIOUS
    <3>2. Record(o, pinning) BY <1>3, <2>1
    <3>3. RecordEffect(o, pinning)
      <4> HIDE DEF o, pinning
      <4>1. QED BY <1>1, <2>1, <3>1, <3>2, RecordKeeps
    <3>4. pinning <=> how = "secret" /\ o \notin Lines(pins) BY <2>1, KnownIs
    <3>5. QED BY <1>3, <2>1, <3>3, <3>4 DEF RecordEffect, GrantStep
  <2>2. CASE o \notin Firefox BY <1>1, <1>3, <2>2 DEF GrantStep, Sound
  <2>3. QED BY <2>1, <2>2
<1>4. QED BY <1>2, <1>3 DEF Grant

\* What a hello may do to the store.
StoreStep ==
    /\ Bounded(tokens')
    /\ issuedTo' \in [Token -> Origin \cup {None}]
    /\ \A t \in Token : issuedTo[t] # None => issuedTo'[t] = issuedTo[t]
    /\ \A t : In(t, tokens') => issuedTo'[t] # None

LEMMA StoreUnchanged ==
    ASSUME IInv, UNCHANGED <<tokens, issuedTo>>
    PROVE  StoreStep
BY DEF IInv, TypeOK, StoreStep, Bounded, In

LEMMA IssueEffect ==
    ASSUME IInv, clock' = clock, NEW c \in Conn, origin[c] \in Origin,
           NEW how, NEW store, Bounded(store), \A x : In(x, store) => In(x, tokens),
           IssueAndGrant(c, how, store)
    PROVE  /\ StoreStep
           /\ \E t \in Token : GrantStep(c, how, t) /\ issuedTo'[t] = origin[c] /\ In(t, tokens')
<1>1. PICK t \in Unissued :
        /\ tokens' = Enter(store, t)
        /\ issuedTo' = [issuedTo EXCEPT ![t] = origin[c]]
        /\ Grant(c, how, t)
  BY DEF IssueAndGrant
<1>2. t \in Token /\ issuedTo[t] = None BY DEF Unissued
<1>3. ~In(t, store) BY <1>2 DEF IInv
<1>4. Bounded(tokens') /\ In(t, tokens') /\ \A x : In(x, tokens') => x = t \/ In(x, store)
  BY <1>1, <1>2, <1>3, EnterKeeps
<1>5. issuedTo' \in [Token -> Origin \cup {None}] /\ issuedTo'[t] = origin[c]
  BY <1>1, <1>2 DEF IInv, TypeOK
<1>6. \A x \in Token : issuedTo[x] # None => issuedTo'[x] = issuedTo[x]
  BY <1>1, <1>2 DEF IInv, TypeOK
<1>7. ASSUME NEW x, In(x, tokens') PROVE issuedTo'[x] # None
  <2>1. CASE x = t BY <1>5, <2>1, ConstantsKnown
  <2>2. CASE x # t
    <3>1. In(x, tokens) BY <1>4, <1>7, <2>2
    <3>2. x \in Token BY <3>1 DEF IInv, Bounded, In
    <3>3. QED BY <1>6, <3>1, <3>2 DEF IInv
  <2>3. QED BY <2>1, <2>2
<1>8. GrantStep(c, how, t) BY <1>1, GrantEffect
<1>9. QED BY <1>2, <1>4, <1>5, <1>6, <1>7, <1>8 DEF StoreStep

\* From the parts to the summary: a hello that is refused...
LEMMA RejectEffect ==
    ASSUME IInv, NEW c \in Conn, Receives(c), NEW why \in Refusals, Reject(c, why),
           why = "untrusted" => ~Known(origin[c]),
           UNCHANGED <<origin, tokens, issuedTo, clock, vouched>>
    PROVE  HelloStep(c)
<1>1. StoreStep BY StoreUnchanged
<1>2. Sound(pins') /\ Lines(pins') \subseteq vouched' BY DEF IInv, Reject, Sound
<1>3. QED BY <1>1, <1>2 DEF IInv, TypeOK, Receives, Reject, StoreStep, HelloStep

\* ... and one that is granted.
LEMMA GrantedEffect ==
    ASSUME IInv, NEW c \in Conn, Receives(c), origin' = origin, clock' = clock,
           vouched' \in SUBSET Origin, vouched \subseteq vouched', origin[c] \in Origin,
           StoreStep, NEW how \in Grants, NEW t \in Token, GrantStep(c, how, t),
           issuedTo'[t] = origin[c], In(t, tokens'),
           how = "secret" => origin[c] \in vouched' /\ origin[c] \in Chrome \cup Firefox,
           how # "secret" => Known(origin[c])
    PROVE  HelloStep(c)
<1>1. Lines(pins) \subseteq vouched BY DEF IInv
<1>2. how # "secret" => origin[c] \in Chrome \cup Lines(pins) BY KnownIs
<1>3. CASE /\ conn' = [conn EXCEPT ![c] = "closing"]
           /\ held' = held
           /\ via' = [via EXCEPT ![c] = "grant-failed"]
           /\ pins' = pins
  <2>1. "grant-failed" \in Refusals BY DEF Refusals
  <2>2. Lines(pins') \subseteq vouched' BY <1>1, <1>3
  <2>3. QED BY <1>3, <2>1, <2>2 DEF GrantStep, StoreStep, HelloStep, Receives
<1>4. CASE /\ conn' = [conn EXCEPT ![c] = "authed"]
           /\ held' = [held EXCEPT ![c] = t]
           /\ via' = [via EXCEPT ![c] = how]
           /\ Lines(pins') \subseteq Lines(pins) \cup (IF how = "secret" THEN {origin[c]} ELSE {})
           /\ origin[c] \in Firefox /\ (how = "secret" \/ origin[c] \in Lines(pins))
                 => origin[c] \in Lines(pins')
  <2>1. Lines(pins') \subseteq vouched' BY <1>1, <1>4
  <2>2. origin[c] \in Chrome \cup vouched' BY <1>1, <1>2
  <2>3. origin[c] \in Firefox => origin[c] \in Lines(pins') BY <1>2, <1>4, ConstantsKnown
  <2>4. QED BY <1>2, <1>4, <2>1, <2>2, <2>3 DEF GrantStep, StoreStep, HelloStep, Receives
<1>5. QED BY <1>3, <1>4 DEF GrantStep

LEMMA HelloEffect ==
    ASSUME IInv, NEW c \in Conn, Hello(c)
    PROVE  HelloStep(c)
<1> USE DEF Refusals, Grants
<1>1. CASE NotHello(c) BY <1>1, RejectEffect DEF NotHello
<1>2. CASE HelloRejected(c) BY <1>2, RejectEffect DEF HelloRejected
<1>3. Bounded(tokens) /\ \A x : In(x, tokens) => In(x, tokens) BY DEF IInv
<1>4. CASE HelloSilent(c)
  <2>1. Receives(c) /\ UNCHANGED <<origin, clock, vouched>> BY <1>4 DEF HelloSilent
  <2>2. origin[c] \in Origin BY <2>1 DEF IInv, OpenHasOrigin, Receives
  <2>3. vouched' \in SUBSET Origin BY <2>1 DEF IInv, TypeOK
  <2>4. CASE ~Known(origin[c]) BY <1>4, <2>4, RejectEffect DEF HelloSilent
  <2>5. CASE Known(origin[c])
    <3>1. IssueAndGrant(c, "silent", tokens) BY <1>4, <2>5 DEF HelloSilent
    <3>2. QED BY <1>3, <2>1, <2>2, <2>3, <2>5, <3>1, IssueEffect, GrantedEffect
  <2>6. QED BY <2>4, <2>5
<1>5. CASE HelloPermanent(c)
  <2>1. /\ Receives(c) /\ UNCHANGED <<origin, clock>>
        /\ vouched' = vouched \cup {origin[c]}
        /\ IssueAndGrant(c, "secret", tokens)
        /\ KindOf(origin[c]) # "rejected"
    BY <1>5 DEF HelloPermanent
  <2>2. origin[c] \in Origin BY <2>1 DEF IInv, OpenHasOrigin, Receives
  <2>3. vouched' \in SUBSET Origin BY <2>1, <2>2 DEF IInv, TypeOK
  <2>4. origin[c] \in Chrome \cup Firefox BY <2>1, <2>2, KnownIs
  <2>5. QED BY <1>3, <2>1, <2>2, <2>3, <2>4, IssueEffect, GrantedEffect
<1>6. CASE \E s \in (Token \ Unissued) \cup {WrongText} : HelloToken(c, s)
  <2>1. PICK s : HelloToken(c, s) BY <1>6
  <2>2. Receives(c) /\ UNCHANGED <<origin, clock, vouched>> BY <2>1 DEF HelloToken
  <2>3. origin[c] \in Origin BY <2>2 DEF IInv, OpenHasOrigin, Receives
  <2>4. vouched' \in SUBSET Origin BY <2>2 DEF IInv, TypeOK
  <2>5. CASE ~Known(origin[c]) BY <2>1, <2>5, RejectEffect DEF HelloToken
  <2>6. s \in Stored <=> In(s, tokens) BY DEF Stored, In
  <2>7. CASE Known(origin[c]) /\ s \in Stored /\ issuedTo[s] = origin[c]
    <3>1. tokens' = Touch(tokens, s) /\ Grant(c, "session", s) /\ UNCHANGED issuedTo
      BY <2>1, <2>7 DEF HelloToken
    <3>2. Bounded(tokens') /\ In(s, tokens') /\ \A x : In(x, tokens') => In(x, tokens)
      BY <1>3, <2>6, <2>7, <3>1, TouchKeeps
    <3>3. StoreStep BY <3>1, <3>2 DEF IInv, TypeOK, StoreStep
    <3>4. s \in Token BY <2>6, <2>7 DEF IInv, Bounded, In
    <3>5. GrantStep(c, "session", s) BY <2>2, <2>3, <3>1, GrantEffect
    <3>6. QED BY <2>2, <2>3, <2>4, <2>7, <3>1, <3>2, <3>3, <3>4, <3>5, GrantedEffect
  <2>8. CASE Known(origin[c]) /\ ~(s \in Stored /\ issuedTo[s] = origin[c])
    <3> DEFINE store == IF s \in Stored THEN Touch(tokens, s) ELSE tokens
    <3>1. IssueAndGrant(c, "silent-renew", store) BY <2>1, <2>8 DEF HelloToken
    <3>2. Bounded(store) /\ \A x : In(x, store) => In(x, tokens)
      BY <1>3, <2>6, TouchKeeps
    <3> HIDE DEF store
    <3>3. QED BY <2>2, <2>3, <2>4, <2>8, <3>1, <3>2, IssueEffect, GrantedEffect
  <2>9. QED BY <2>5, <2>7, <2>8
<1>7. QED BY <1>1, <1>2, <1>4, <1>5, <1>6 DEF Hello

-----------------------------------------------------------------------------
(* The invariant is inductive.                                             *)

LEMMA InitHolds == Init => IInv
<1> SUFFICES ASSUME Init PROVE IInv OBVIOUS
<1> USE DEF Init
<1>1. TypeOK
  <2>1. 0 \in 0..MaxClock /\ 1 \in 1..MaxClock BY ConstantsKnown
  <2>2. QED BY <2>1 DEF TypeOK, ConnState, Via
<1>2. Lines(pins) = {} BY DEF Lines
<1>3. Sound(pins)
  <2>1. Cardinality(Lines(pins)) = 0 BY <1>2, FS_EmptySet
  <2>2. QED BY <1>1, <2>1, ConstantsKnown DEF Sound, TypeOK
<1>4. Bounded(tokens) /\ \A t : ~In(t, tokens)
  BY ConstantsKnown DEF Bounded, In
<1>5. QED BY <1>1, <1>2, <1>3, <1>4 DEF IInv, OpenHasOrigin, WaitingIsTimed

LEMMA HelloKeeps ==
    ASSUME IInv, NEW c \in Conn, HelloStep(c)
    PROVE  IInv'
<1> USE DEF HelloStep
<1>1. TypeOK'
  <2>1. conn' \in [Conn -> ConnState] BY DEF IInv, TypeOK, ConnState
  <2>2. held' \in [Conn -> Token \cup {None}] BY DEF IInv, TypeOK
  <2>3. via' \in [Conn -> Via] BY DEF IInv, TypeOK, Via
  <2>4. QED BY <2>1, <2>2, <2>3 DEF IInv, TypeOK, Bounded, Sound
<1>2. OpenHasOrigin' BY DEF IInv, TypeOK, OpenHasOrigin
<1>3. ASSUME NEW d \in Conn, conn'[d] = "authed" PROVE Trusted(d)'
  <2>1. CASE d = c BY <1>3, <2>1 DEF IInv, TypeOK, Trusted
  <2>2. CASE d # c
    <3>1. conn[d] = "authed" /\ held'[d] = held[d] BY <1>3, <2>2 DEF IInv, TypeOK
    <3>2. Trusted(d) BY <3>1 DEF IInv
    <3>3. origin[d] \in Origin BY <3>1 DEF IInv, OpenHasOrigin
    <3>4. issuedTo[held[d]] # None BY <3>2, <3>3, ConstantsKnown DEF Trusted
    <3>5. QED BY <3>1, <3>2, <3>4 DEF Trusted
  <2>3. QED BY <2>1, <2>2
<1>4. WaitingIsTimed' BY DEF IInv, TypeOK, WaitingIsTimed
<1>5. Sound(pins)' BY DEF Sound
<1>6. Bounded(tokens)' /\ \A t : In(t, tokens') => issuedTo'[t] # None OBVIOUS
<1>7. QED BY <1>1, <1>2, <1>3, <1>4, <1>5, <1>6 DEF IInv

LEMMA NextKeeps == IInv /\ [Next]_vars => IInv'
<1> SUFFICES ASSUME IInv, [Next]_vars PROVE IInv'
  OBVIOUS
<1> USE DEF IInv
<1>1. ASSUME NEW c \in Conn, NEW o \in Origin, Open(c, o) PROVE IInv'
  <2> USE <1>1 DEF Open
  <2>1. TypeOK' BY DEF TypeOK, ConnState, Via, Refusals
  <2>2. OpenHasOrigin' BY DEF TypeOK, OpenHasOrigin
  <2>3. ASSUME NEW d \in Conn, conn'[d] = "authed" PROVE Trusted(d)'
    <3>1. d # c /\ conn[d] = "authed" BY <2>3 DEF TypeOK
    <3>2. QED BY <3>1 DEF TypeOK, Trusted
  <2>4. WaitingIsTimed' BY DEF TypeOK, WaitingIsTimed
  <2>5. QED BY <2>1, <2>2, <2>3, <2>4 DEF Sound
<1>2. ASSUME NEW c \in Conn, Hello(c) PROVE IInv'
  BY <1>2, HelloEffect, HelloKeeps
<1>3. ASSUME NEW c \in Conn, HelloTimeout(c) PROVE IInv'
  <2> USE <1>3 DEF HelloTimeout
  <2>1. TypeOK' BY DEF TypeOK, ConnState, Via, Refusals
  <2>2. OpenHasOrigin' BY DEF TypeOK, OpenHasOrigin, WaitingIsTimed
  <2>3. ASSUME NEW d \in Conn, conn'[d] = "authed" PROVE Trusted(d)'
    BY <2>3 DEF TypeOK, Trusted
  <2>4. WaitingIsTimed' BY DEF TypeOK, WaitingIsTimed
  <2>5. QED BY <2>1, <2>2, <2>3, <2>4 DEF Sound
<1>4. ASSUME NEW c \in Conn, Close(c) PROVE IInv'
  <2> USE <1>4 DEF Close
  <2>1. TypeOK' BY DEF TypeOK, ConnState, Via
  <2>2. OpenHasOrigin' BY DEF TypeOK, OpenHasOrigin
  <2>3. ASSUME NEW d \in Conn, conn'[d] = "authed" PROVE Trusted(d)'
    BY <2>3 DEF TypeOK, Trusted
  <2>4. WaitingIsTimed' BY DEF TypeOK, WaitingIsTimed
  <2>5. QED BY <2>1, <2>2, <2>3, <2>4 DEF Sound
<1>5. ASSUME NEW u \in Firefox, Revoke(u) PROVE IInv'
  <2> USE <1>5 DEF Revoke
  <2>1. 0 \in 0..MaxClock /\ clock \in Nat BY ConstantsKnown DEF TypeOK
  <2>2. Lines(pins') \subseteq Lines(pins) BY DEF TypeOK, Lines
  <2>3. Cardinality(Lines(pins')) <= Cardinality(Lines(pins))
    BY <2>2, LinesFinite, FS_Subset
  <2>4. Sound(pins)'
    BY <2>1, <2>3, LinesFinite, ConstantsKnown DEF Sound
  <2>5. QED BY <2>1, <2>2, <2>4 DEF TypeOK, OpenHasOrigin, WaitingIsTimed, Trusted, Sound
<1>6. CASE Tick
  <2> USE <1>6 DEF Tick
  <2>1. clock' \in 1..MaxClock /\ clock <= clock' BY ConstantsKnown DEF TypeOK
  <2>2. Sound(pins)'
    <3>1. \A u \in Firefox : pins[u] <= clock /\ pins[u] \in Nat /\ clock \in Nat /\ clock' \in Nat
      BY <2>1, ConstantsKnown DEF Sound, TypeOK
    <3>2. \A u \in Firefox : pins[u] <= clock' BY <2>1, <3>1
    <3>3. QED BY <3>2 DEF Sound
  <2>3. QED BY <2>1, <2>2 DEF TypeOK, OpenHasOrigin, WaitingIsTimed, Trusted
<1>7. CASE Restart
  <2> USE <1>7 DEF Restart
  <2>1. TypeOK' BY DEF TypeOK, ConnState, Via
  <2>2. Bounded(tokens)' /\ \A t : ~In(t, tokens') BY ConstantsKnown DEF Bounded, In
  <2>3. QED BY <2>1, <2>2 DEF OpenHasOrigin, WaitingIsTimed, Sound
<1>8. CASE UNCHANGED vars
  BY <1>8 DEF vars, TypeOK, OpenHasOrigin, WaitingIsTimed, Trusted, Sound, Lines, Bounded, In
<1>9. QED BY <1>1, <1>2, <1>3, <1>4, <1>5, <1>6, <1>7, <1>8 DEF Next

-----------------------------------------------------------------------------
(* The theorems.                                                           *)

\* The inductive invariant: besides the properties below it says that a socket
\* has an origin until it is closed, and that no line of the pin file is from
\* the future.
THEOREM Invariant == Spec => []IInv
BY InitHolds, NextKeeps, PTL DEF Spec

\* Every variable keeps its type.
THEOREM TypeCorrect == Spec => []TypeOK
<1>1. IInv => TypeOK BY DEF IInv
<1>2. QED BY Invariant, <1>1, PTL

\* Only an origin of the allowlist, or one that presented the permanent
\* secret, is ever authenticated or pinned.
THEOREM OnlyVouchedHolds == Spec => []OnlyVouched
<1>1. IInv => OnlyVouched BY DEF IInv, Trusted, Pinned, Lines, OnlyVouched
<1>2. QED BY Invariant, <1>1, PTL

\* A token only ever serves the origin it was issued to.
THEOREM TokenOfItsOriginHolds == Spec => []TokenOfItsOrigin
<1>1. IInv => TokenOfItsOrigin BY DEF IInv, Trusted, TokenOfItsOrigin
<1>2. QED BY Invariant, <1>1, PTL

\* An unauthenticated socket always has a deadline, an authenticated one none.
THEOREM WaitingIsTimedHolds == Spec => []WaitingIsTimed
<1>1. IInv => WaitingIsTimed BY DEF IInv
<1>2. QED BY Invariant, <1>1, PTL

\* The token store keeps its cap, its keys are distinct, and all were issued.
THEOREM StoreInvHolds == Spec => []StoreInv
<1>1. IInv => StoreInv BY DEF IInv, Bounded, In, StoreInv
<1>2. QED BY Invariant, <1>1, PTL

\* The pin file keeps its cap.
THEOREM PinsWithinCapHolds == Spec => []PinsWithinCap
<1>1. IInv => PinsWithinCap
  <2>1. Pinned = Lines(pins) BY DEF Pinned, Lines
  <2>2. QED BY <2>1 DEF IInv, Sound, PinsWithinCap
<1>2. QED BY Invariant, <1>1, PTL

\* A socket only becomes authenticated by a hello of its own, and is only
\* turned away as untrusted by one.
LEMMA OnlyHello ==
    ASSUME IInv, [Next]_vars, NEW c \in Conn,
           Authenticates(c) \/ (via[c] # "untrusted" /\ via'[c] = "untrusted")
    PROVE  HelloStep(c)
<1> USE DEF IInv, TypeOK, Authenticates
<1>1. ASSUME NEW d \in Conn, NEW o \in Origin, Open(d, o) PROVE FALSE BY <1>1 DEF Open
<1>2. ASSUME NEW d \in Conn, Hello(d) PROVE HelloStep(c)
  <2>1. HelloStep(d) BY <1>2, HelloEffect
  <2>2. d = c BY <2>1 DEF HelloStep
  <2>3. QED BY <2>1, <2>2
<1>3. ASSUME NEW d \in Conn, HelloTimeout(d) PROVE FALSE BY <1>3 DEF HelloTimeout
<1>4. ASSUME NEW d \in Conn, Close(d) PROVE FALSE BY <1>4 DEF Close
<1>5. ASSUME NEW u \in Firefox, Revoke(u) PROVE FALSE BY <1>5 DEF Revoke
<1>6. CASE Tick BY <1>6 DEF Tick
<1>7. CASE Restart BY <1>7 DEF Restart
<1>8. CASE UNCHANGED vars BY <1>8 DEF vars
<1>9. QED BY <1>1, <1>2, <1>3, <1>4, <1>5, <1>6, <1>7, <1>8 DEF Next

\* The token of a hello-ok is in the store when it leaves.
THEOREM GrantedTokenStoredHolds == Spec => GrantedTokenStored
<1>1. ASSUME IInv, [Next]_vars, NEW c \in Conn, Authenticates(c)
      PROVE  \E n \in 1..Len(tokens') : tokens'[n] = held'[c]
  <2>1. HelloStep(c) BY <1>1, OnlyHello
  <2>2. QED BY <1>1, <2>1 DEF HelloStep, IInv, TypeOK, Authenticates, In
<1>2. IInv /\ [Next]_vars =>
        [\A c \in Conn : Authenticates(c) =>
            \E n \in 1..Len(tokens') : tokens'[n] = held'[c]]_vars
  BY <1>1
<1>3. QED BY Invariant, <1>2, PTL DEF Spec, GrantedTokenStored

\* An install that is granted is pinned when hello-ok leaves.
THEOREM GrantedIsPinnedHolds == Spec => GrantedIsPinned
<1>1. ASSUME IInv, [Next]_vars, NEW c \in Conn, Authenticates(c), origin[c] \in Firefox
      PROVE  pins'[origin[c]] > 0
  <2>1. HelloStep(c) BY <1>1, OnlyHello
  <2>2. QED BY <1>1, <2>1 DEF HelloStep, IInv, TypeOK, Authenticates, Lines
<1>2. IInv /\ [Next]_vars =>
        [\A c \in Conn : Authenticates(c) /\ origin[c] \in Firefox => pins'[origin[c]] > 0]_vars
  BY <1>1
<1>3. QED BY Invariant, <1>2, PTL DEF Spec, GrantedIsPinned

\* What a grant enters in the two stores is there when hello-ok leaves.
THEOREM GrantIsKeptHolds == Spec => GrantIsKept
BY GrantedTokenStoredHolds, GrantedIsPinnedHolds DEF GrantIsKept

\* Without the permanent secret, an install is granted only if its line is in
\* the pin file at that moment.
THEOREM RevokedStaysOutHolds == Spec => RevokedStaysOut
<1>1. ASSUME IInv, [Next]_vars, NEW c \in Conn, Authenticates(c), via'[c] # "secret"
      PROVE  origin[c] \in Chrome \cup Pinned
  <2>1. HelloStep(c) BY <1>1, OnlyHello
  <2>2. origin[c] \in Chrome \cup Lines(pins)
    BY <1>1, <2>1 DEF HelloStep, IInv, TypeOK, Authenticates
  <2>3. QED BY <2>2 DEF Lines, Pinned
<1>2. IInv /\ [Next]_vars =>
        [\A c \in Conn : Authenticates(c) /\ via'[c] # "secret"
            => origin[c] \in Chrome \cup Pinned]_vars
  BY <1>1
<1>3. QED BY Invariant, <1>2, PTL DEF Spec, RevokedStaysOut

\* A known origin is never turned away for the token it presents.
THEOREM KnownNeverRefusedHolds == Spec => KnownNeverRefused
<1>1. ASSUME IInv, [Next]_vars, NEW c \in Conn, via[c] # "untrusted", via'[c] = "untrusted"
      PROVE  ~Known(origin[c])
  <2>1. HelloStep(c) BY <1>1, OnlyHello
  <2>2. QED BY <1>1, <2>1 DEF HelloStep, IInv, TypeOK, Grants
<1>2. IInv /\ [Next]_vars =>
        [\A c \in Conn : via[c] # "untrusted" /\ via'[c] = "untrusted" => ~Known(origin[c])]_vars
  BY <1>1
<1>3. QED BY Invariant, <1>2, PTL DEF Spec, KnownNeverRefused
=============================================================================
