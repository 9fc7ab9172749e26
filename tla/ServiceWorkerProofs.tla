------------------------ MODULE ServiceWorkerProofs ------------------------
(***************************************************************************)
(* Theorems about ServiceWorker, for any number of sockets, requests,      *)
(* pending calls and writes, and for every fault model.  That a request    *)
(* has one fate rests on where it is: in the slot, or in one frame of one  *)
(* socket, never both, and nowhere once its fate is sealed.                *)
(*                                                                         *)
(* The sockets are counted against the calls of connectIfNeeded that       *)
(* overlapped and the tokens that were pasted (`doubled`).  As long as      *)
(* there were none in the life of this worker, the socket that lives is    *)
(* the one it holds, and a call is pending only while it holds none.       *)
(***************************************************************************)
EXTENDS ServiceWorker, SequenceTheorems, FunctionTheorems, FiniteSetTheorems, TLAPS

Frame == {Hello(t) : t \in Token \cup {None}} \cup {Ask(r) : r \in Request}

\* The types of what the worker, the storage, the network and the rest hold.
WorkerTyped ==
    /\ wsState \in WsState
    /\ ws \in Socket \cup {None}
    /\ timers \in SUBSET Socket
    /\ lastTimer \in Socket \cup {None}
    /\ retried \in BOOLEAN
    /\ reads \in Nat
    /\ backoffs \in BOOLEAN
    /\ held \in Request \cup {None}
    /\ doubled \in Nat

StorageTyped ==
    /\ stored \in Token \cup {None}
    /\ writes \in Seq(Write)

NetworkTyped ==
    /\ sock \in [Socket -> ReadyState]
    /\ carried \in [Socket -> Token \cup {None}]
    /\ wire \in [Socket -> Seq(Frame)]
    /\ peer \in [Socket -> PeerState]

WorldTyped ==
    /\ up \in BOOLEAN
    /\ known \in BOOLEAN
    /\ fate \in [Request -> Fate]
    /\ allowed \in FaultModels
    /\ faults \in 0..allowed.most

Typed == WorkerTyped /\ StorageTyped /\ NetworkTyped /\ WorldTyped

\* The request in the slot is held, and no other is.
SlotInv ==
    /\ held # None => fate[held] = "held"
    /\ NoRequestForgotten

\* The request of a frame under way was sent...
WireInv ==
    \A s \in Socket : \A n \in 1..Len(wire[s]) : \A r \in Request :
        wire[s][n] = Ask(r) => fate[r] = "sent"

\* ... in that frame only.
OnceInv ==
    \A s1, s2 \in Socket : \A n1 \in 1..Len(wire[s1]), n2 \in 1..Len(wire[s2]) : \A r \in Request :
        wire[s1][n1] = Ask(r) /\ wire[s2][n2] = Ask(r) => s1 = s2 /\ n1 = n2

IInv == Typed /\ SlotInv /\ WireInv /\ OnceInv

\* OneFate, of one step.
FateKept ==
    \A r \in Request :
        /\ fate[r] \in {"accepted", "dropped", "lost"} => fate'[r] = fate[r]
        /\ fate[r] = "sent" => fate'[r] \in {"sent", "accepted", "lost"}

-----------------------------------------------------------------------------
(* Frames.                                                                 *)

\* A request's frame is no hello and no other request's.
LEMMA Frames ==
    /\ \A r \in Request : Ask(r).kind = "request" /\ Ask(r).request = r
    /\ \A t \in Token \cup {None} : Hello(t).kind = "hello"
    /\ \A r, q \in Request : Ask(r) = Ask(q) => r = q
    /\ \A r \in Request : \A t \in Token \cup {None} : Ask(r) # Hello(t)
<1>1. \A r \in Request : Ask(r).kind = "request" /\ Ask(r).request = r BY DEF Ask
<1>2. \A t \in Token \cup {None} : Hello(t).kind = "hello" BY DEF Hello
<1>3. "request" # "hello" OBVIOUS
<1>4. QED BY <1>1, <1>2, <1>3

\* A frame that is appended is the last one; the others are where they were.
LEMMA Appended ==
    ASSUME wire \in [Socket -> Seq(Frame)], NEW s \in Socket, NEW m \in Frame,
           wire' = [wire EXCEPT ![s] = Append(@, m)]
    PROVE  /\ wire' \in [Socket -> Seq(Frame)]
           /\ \A q \in Socket : \A n \in 1..Len(wire'[q]) :
                 \/ n \in 1..Len(wire[q]) /\ wire'[q][n] = wire[q][n]
                 \/ q = s /\ n = Len(wire[s]) + 1 /\ wire'[q][n] = m
<1>1. wire[s] \in Seq(Frame) OBVIOUS
<1>2. /\ Append(wire[s], m) \in Seq(Frame)
      /\ Len(Append(wire[s], m)) = Len(wire[s]) + 1
      /\ \A n \in 1..Len(wire[s]) : Append(wire[s], m)[n] = wire[s][n]
      /\ Append(wire[s], m)[Len(wire[s]) + 1] = m
  BY <1>1, AppendProperties
<1>3. Len(wire[s]) \in Nat BY <1>1
<1>4. wire'[s] = Append(wire[s], m) OBVIOUS
<1>5. \A q \in Socket \ {s} : wire'[q] = wire[q] OBVIOUS
<1>6. QED BY <1>2, <1>3, <1>4, <1>5

\* Without its first frame, what was second is first.
LEMMA Shortened ==
    ASSUME wire \in [Socket -> Seq(Frame)], NEW s \in Socket, wire[s] # <<>>,
           wire' = [wire EXCEPT ![s] = Tail(@)]
    PROVE  /\ wire' \in [Socket -> Seq(Frame)]
           /\ Head(wire[s]) = wire[s][1] /\ 1 \in 1..Len(wire[s]) /\ Head(wire[s]) \in Frame
           /\ \A q \in Socket : \A n \in 1..Len(wire'[q]) :
                 \/ q # s /\ n \in 1..Len(wire[q]) /\ wire'[q][n] = wire[q][n]
                 \/ q = s /\ n + 1 \in 1..Len(wire[s]) /\ wire'[q][n] = wire[s][n + 1]
<1>1. wire[s] \in Seq(Frame) /\ wire[s] # <<>> OBVIOUS
<1>2. /\ Tail(wire[s]) \in Seq(Frame)
      /\ Len(Tail(wire[s])) = Len(wire[s]) - 1
      /\ \A n \in 1..Len(Tail(wire[s])) : Tail(wire[s])[n] = wire[s][n + 1]
      /\ Head(wire[s]) = wire[s][1] /\ Head(wire[s]) \in Frame
      /\ Len(wire[s]) \in Nat \ {0}
  BY <1>1, HeadTailProperties, EmptySeq
<1>3. wire'[s] = Tail(wire[s]) OBVIOUS
<1>4. \A q \in Socket \ {s} : wire'[q] = wire[q] OBVIOUS
<1>5. QED BY <1>2, <1>3, <1>4

\* A frame that holds a request holds a request of Request.
LEMMA FrameOfRequest ==
    ASSUME NEW m \in Frame, m.kind = "request"
    PROVE  m.request \in Request /\ m = Ask(m.request)
BY Frames DEF Frame

-----------------------------------------------------------------------------
(* The requests: what each way of touching the slot and the wire does.     *)

Requests == SlotInv /\ WireInv /\ OnceInv

\* No request moves: the frames that are new, if any, are hellos.
LEMMA NoneMoves ==
    ASSUME Requests, UNCHANGED <<held, fate>>,
           \A q \in Socket : \A n \in 1..Len(wire'[q]) :
               \/ n \in 1..Len(wire[q]) /\ wire'[q][n] = wire[q][n]
               \/ \A r \in Request : wire'[q][n] # Ask(r)
    PROVE  Requests' /\ FateKept
<1>1. SlotInv' BY DEF Requests, SlotInv, NoRequestForgotten
<1>2. WireInv' BY DEF Requests, WireInv
<1>3. OnceInv'
  <2> SUFFICES ASSUME NEW s1 \in Socket, NEW s2 \in Socket,
                      NEW n1 \in 1..Len(wire'[s1]), NEW n2 \in 1..Len(wire'[s2]), NEW r \in Request,
                      wire'[s1][n1] = Ask(r), wire'[s2][n2] = Ask(r)
               PROVE  s1 = s2 /\ n1 = n2
    BY DEF OnceInv
  <2>1. n1 \in 1..Len(wire[s1]) /\ wire[s1][n1] = Ask(r) OBVIOUS
  <2>2. n2 \in 1..Len(wire[s2]) /\ wire[s2][n2] = Ask(r) OBVIOUS
  <2>3. QED BY <2>1, <2>2 DEF Requests, OnceInv
<1>4. FateKept BY DEF FateKept
<1>5. QED BY <1>1, <1>2, <1>3, <1>4 DEF Requests

\* A request that was not sent yet is, on one socket, and leaves the slot if it
\* was there.
LEMMA OneIsSent ==
    ASSUME Typed, Requests, NEW r \in Request, NEW s \in Socket,
           fate[r] \in {"unsent", "held"},
           fate' = [fate EXCEPT ![r] = "sent"],
           wire' = [wire EXCEPT ![s] = Append(@, Ask(r))],
           IF fate[r] = "held" THEN held' = None ELSE held' = held
    PROVE  Requests' /\ FateKept
<1>. /\ fate \in [Request -> Fate] /\ held \in Request \cup {None}
     /\ wire \in [Socket -> Seq(Frame)]
  BY DEF Typed, WorkerTyped, NetworkTyped, WorldTyped
<1>1. Ask(r) \in Frame BY DEF Frame
<1>2. \A q \in Socket : \A n \in 1..Len(wire'[q]) :
          \/ n \in 1..Len(wire[q]) /\ wire'[q][n] = wire[q][n]
          \/ q = s /\ n = Len(wire[s]) + 1 /\ wire'[q][n] = Ask(r)
  BY <1>1, Appended
<1>3. \A q \in Socket : \A n \in 1..Len(wire[q]) : wire[q][n] # Ask(r)
  BY DEF Requests, WireInv
<1>4. SlotInv'
  BY ServiceWorkerAssumption DEF Requests, SlotInv, NoRequestForgotten
<1>5. WireInv'
  <2> SUFFICES ASSUME NEW q \in Socket, NEW n \in 1..Len(wire'[q]), NEW x \in Request,
                      wire'[q][n] = Ask(x)
               PROVE  fate'[x] = "sent"
    BY DEF WireInv
  <2>1. CASE x = r BY <2>1
  <2>2. CASE x # r
    <3>1. wire'[q][n] # Ask(r) BY <2>2, Frames
    <3>2. n \in 1..Len(wire[q]) /\ wire[q][n] = Ask(x) BY <1>2, <3>1
    <3>3. fate[x] = "sent" BY <3>2 DEF Requests, WireInv
    <3>4. QED BY <2>2, <3>3
  <2>3. QED BY <2>1, <2>2
<1>6. OnceInv'
  <2> SUFFICES ASSUME NEW s1 \in Socket, NEW s2 \in Socket,
                      NEW n1 \in 1..Len(wire'[s1]), NEW n2 \in 1..Len(wire'[s2]), NEW x \in Request,
                      wire'[s1][n1] = Ask(x), wire'[s2][n2] = Ask(x)
               PROVE  s1 = s2 /\ n1 = n2
    BY DEF OnceInv
  <2>1. CASE x = r
    <3>1. s1 = s /\ n1 = Len(wire[s]) + 1 BY <1>2, <1>3, <2>1
    <3>2. s2 = s /\ n2 = Len(wire[s]) + 1 BY <1>2, <1>3, <2>1
    <3>3. QED BY <3>1, <3>2
  <2>2. CASE x # r
    <3>1. Ask(x) # Ask(r) BY <2>2, Frames
    <3>2. n1 \in 1..Len(wire[s1]) /\ wire[s1][n1] = Ask(x) BY <1>2, <3>1
    <3>3. n2 \in 1..Len(wire[s2]) /\ wire[s2][n2] = Ask(x) BY <1>2, <3>1
    <3>4. QED BY <3>2, <3>3 DEF Requests, OnceInv
  <2>3. QED BY <2>1, <2>2
<1>7. FateKept BY DEF FateKept
<1>8. QED BY <1>4, <1>5, <1>6, <1>7 DEF Requests

\* A request takes the slot; the one that was there is dropped.
LEMMA HoldKeeps ==
    ASSUME Typed, Requests, NEW r \in Request, Hold(r)
    PROVE  Requests' /\ FateKept
<1>. fate \in [Request -> Fate] /\ held \in Request \cup {None} /\ held # r
  BY ServiceWorkerAssumption DEF Typed, WorkerTyped, NetworkTyped, WorldTyped, Requests, SlotInv, Hold
<1>0. \A q \in Request : q = held => fate[q] = "held"
  BY ServiceWorkerAssumption DEF Requests, SlotInv
<1>1. /\ fate' = [q \in Request |->
                    IF q = r THEN "held" ELSE IF q = held THEN "dropped" ELSE fate[q]]
      /\ held' = r /\ fate[r] = "unsent" /\ UNCHANGED wire
  BY DEF Hold, network
<1>2. SlotInv' BY <1>1 DEF Requests, SlotInv, NoRequestForgotten
<1>3. WireInv' BY <1>0, <1>1 DEF Requests, WireInv
<1>4. OnceInv' BY <1>1 DEF Requests, OnceInv
<1>5. FateKept BY <1>0, <1>1 DEF FateKept
<1>6. QED BY <1>2, <1>3, <1>4, <1>5 DEF Requests

\* The request in the slot is given up.
LEMMA HoldExpiresKeeps ==
    ASSUME Typed, Requests, HoldExpires
    PROVE  Requests' /\ FateKept
<1>. fate \in [Request -> Fate] /\ held \in Request
  BY DEF Typed, WorkerTyped, NetworkTyped, WorldTyped, HoldExpires
<1>1. /\ fate' = [fate EXCEPT ![held] = "dropped"] /\ held' = None
      /\ fate[held] = "held" /\ UNCHANGED wire
  BY DEF HoldExpires, network, Requests, SlotInv
<1>2. SlotInv' BY <1>1 DEF Requests, SlotInv, NoRequestForgotten
<1>3. WireInv' BY <1>1 DEF Requests, WireInv
<1>4. OnceInv' BY <1>1 DEF Requests, OnceInv
<1>5. FateKept BY <1>1 DEF FateKept
<1>6. QED BY <1>2, <1>3, <1>4, <1>5 DEF Requests

\* The broker takes a request off the wire, and accepts it or closes.
LEMMA OneArrives ==
    ASSUME Typed, Requests, NEW s \in Socket, NEW f \in {"accepted", "lost"},
           wire[s] # <<>>, Head(wire[s]).kind = "request",
           fate' = [fate EXCEPT ![Head(wire[s]).request] = f],
           wire' = [wire EXCEPT ![s] = Tail(@)],
           held' = held
    PROVE  Requests' /\ FateKept
<1>. fate \in [Request -> Fate] /\ wire \in [Socket -> Seq(Frame)]
  BY DEF Typed, WorkerTyped, NetworkTyped, WorldTyped
<1>1. /\ Head(wire[s]) = wire[s][1] /\ 1 \in 1..Len(wire[s]) /\ Head(wire[s]) \in Frame
      /\ \A q \in Socket : \A n \in 1..Len(wire'[q]) :
            \/ q # s /\ n \in 1..Len(wire[q]) /\ wire'[q][n] = wire[q][n]
            \/ q = s /\ n + 1 \in 1..Len(wire[s]) /\ wire'[q][n] = wire[s][n + 1]
  BY Shortened
<1>2. PICK r \in Request : r = Head(wire[s]).request /\ wire[s][1] = Ask(r)
  BY <1>1, FrameOfRequest
<1>3. fate[r] = "sent" BY <1>1, <1>2 DEF Requests, WireInv
<1>4. fate' = [fate EXCEPT ![r] = f] BY <1>2
<1>5. SlotInv' BY <1>3, <1>4 DEF Requests, SlotInv, NoRequestForgotten
<1>6. \A q \in Socket : \A n \in 1..Len(wire'[q]) : wire'[q][n] # Ask(r)
  <2> SUFFICES ASSUME NEW q \in Socket, NEW n \in 1..Len(wire'[q]), wire'[q][n] = Ask(r)
               PROVE  FALSE
    OBVIOUS
  <2>1. CASE q # s
    <3>1. n \in 1..Len(wire[q]) /\ wire[q][n] = Ask(r) BY <1>1, <2>1
    <3>2. q = s BY <1>1, <1>2, <3>1 DEF Requests, OnceInv
    <3>3. QED BY <2>1, <3>2
  <2>2. CASE q = s
    <3>1. n + 1 \in 1..Len(wire[s]) /\ wire[s][n + 1] = Ask(r) BY <1>1, <2>2
    <3>2. n + 1 = 1 BY <1>1, <1>2, <3>1 DEF Requests, OnceInv
    <3>3. QED BY <3>2
  <2>3. QED BY <2>1, <2>2
<1>7. WireInv'
  <2> SUFFICES ASSUME NEW q \in Socket, NEW n \in 1..Len(wire'[q]), NEW x \in Request,
                      wire'[q][n] = Ask(x)
               PROVE  fate'[x] = "sent"
    BY DEF WireInv
  <2>1. x # r BY <1>6
  <2>2. fate[x] = "sent" BY <1>1 DEF Requests, WireInv
  <2>3. QED BY <1>4, <2>1, <2>2
<1>8. ASSUME NEW s1 \in Socket, NEW s2 \in Socket,
             NEW n1 \in 1..Len(wire'[s1]), NEW n2 \in 1..Len(wire'[s2]), NEW x \in Request,
             wire'[s1][n1] = Ask(x), wire'[s2][n2] = Ask(x)
      PROVE  s1 = s2 /\ n1 = n2
  <2>1. PICK m1 \in 1..Len(wire[s1]) :
           wire[s1][m1] = Ask(x) /\ (IF s1 = s THEN m1 = n1 + 1 ELSE m1 = n1)
    BY <1>1, <1>8
  <2>2. PICK m2 \in 1..Len(wire[s2]) :
           wire[s2][m2] = Ask(x) /\ (IF s2 = s THEN m2 = n2 + 1 ELSE m2 = n2)
    BY <1>1, <1>8
  <2>3. s1 = s2 /\ m1 = m2 BY <2>1, <2>2 DEF Requests, OnceInv
  <2>4. QED BY <2>1, <2>2, <2>3
<1>9. OnceInv' BY ONLY <1>8 DEF OnceInv
<1>10. FateKept BY <1>3, <1>4 DEF FateKept
<1>11. QED BY <1>5, <1>7, <1>9, <1>10 DEF Requests

\* The broker takes another frame off the wire: the requests move up.
LEMMA HelloArrives ==
    ASSUME Typed, Requests, NEW s \in Socket, UNCHANGED <<held, fate>>,
           \A q \in Socket : \A n \in 1..Len(wire'[q]) :
               \/ q # s /\ n \in 1..Len(wire[q]) /\ wire'[q][n] = wire[q][n]
               \/ q = s /\ n + 1 \in 1..Len(wire[s]) /\ wire'[q][n] = wire[s][n + 1]
    PROVE  Requests' /\ FateKept
<1>1. SlotInv' BY DEF Requests, SlotInv, NoRequestForgotten
<1>2. WireInv' BY DEF Requests, WireInv
<1>3. ASSUME NEW s1 \in Socket, NEW s2 \in Socket,
             NEW n1 \in 1..Len(wire'[s1]), NEW n2 \in 1..Len(wire'[s2]), NEW x \in Request,
             wire'[s1][n1] = Ask(x), wire'[s2][n2] = Ask(x)
      PROVE  s1 = s2 /\ n1 = n2
  <2>1. PICK m1 \in 1..Len(wire[s1]) :
           wire[s1][m1] = Ask(x) /\ (IF s1 = s THEN m1 = n1 + 1 ELSE m1 = n1)
    BY <1>3
  <2>2. PICK m2 \in 1..Len(wire[s2]) :
           wire[s2][m2] = Ask(x) /\ (IF s2 = s THEN m2 = n2 + 1 ELSE m2 = n2)
    BY <1>3
  <2>3. s1 = s2 /\ m1 = m2 BY <2>1, <2>2 DEF Requests, OnceInv
  <2>4. QED BY <2>1, <2>2, <2>3
<1>4. OnceInv' BY ONLY <1>3 DEF OnceInv
<1>5. FateKept BY DEF FateKept
<1>6. QED BY <1>1, <1>2, <1>4, <1>5 DEF Requests

\* What a closed socket had not delivered is lost.
LEMMA CloseKeeps ==
    ASSUME Typed, Requests, NEW s \in Socket, SocketCloses(s)
    PROVE  Requests' /\ FateKept
<1>. fate \in [Request -> Fate] /\ wire \in [Socket -> Seq(Frame)]
  BY DEF Typed, WorkerTyped, NetworkTyped, WorldTyped
<1>1. /\ wire' = [wire EXCEPT ![s] = <<>>] /\ held' = held
      /\ fate' = [r \in Request |->
                    IF \E n \in 1..Len(wire[s]) : wire[s][n] = Ask(r) THEN "lost" ELSE fate[r]]
  BY DEF SocketCloses
<1>2. \A q \in Socket : \A n \in 1..Len(wire'[q]) : q # s /\ wire'[q] = wire[q]
  BY <1>1, EmptySeq
<1>3. \A r \in Request : fate'[r] # fate[r] => fate[r] = "sent" /\ fate'[r] = "lost"
  BY <1>1 DEF Requests, WireInv
<1>4. SlotInv'
  BY <1>1, <1>3, ServiceWorkerAssumption DEF Requests, SlotInv, NoRequestForgotten, Typed, WorkerTyped, NetworkTyped, WorldTyped
<1>5. WireInv'
  <2> SUFFICES ASSUME NEW q \in Socket, NEW n \in 1..Len(wire'[q]), NEW x \in Request,
                      wire'[q][n] = Ask(x)
               PROVE  fate'[x] = "sent"
    BY DEF WireInv
  <2>1. q # s /\ n \in 1..Len(wire[q]) /\ wire[q][n] = Ask(x) BY <1>2
  <2>2. \A m \in 1..Len(wire[s]) : wire[s][m] # Ask(x) BY <2>1 DEF Requests, OnceInv
  <2>3. fate[x] = "sent" BY <2>1 DEF Requests, WireInv
  <2>4. QED BY <1>1, <2>2, <2>3
<1>6. OnceInv' BY <1>2 DEF Requests, OnceInv
<1>7. FateKept BY <1>3 DEF FateKept
<1>8. QED BY <1>4, <1>5, <1>6, <1>7 DEF Requests

\* With the worker, all that it had not delivered is lost.
LEMMA KillKeeps ==
    ASSUME Typed, Requests, Killed
    PROVE  Requests' /\ FateKept
<1>. fate \in [Request -> Fate] BY DEF Typed, WorkerTyped, NetworkTyped, WorldTyped
<1>1. /\ wire' = [s \in Socket |-> <<>>] /\ held' = None
      /\ fate' = [r \in Request |-> IF fate[r] \in {"held", "sent"} THEN "lost" ELSE fate[r]]
  BY DEF Killed
<1>2. \A q \in Socket : 1..Len(wire'[q]) = {} BY <1>1, EmptySeq
<1>3. SlotInv' BY <1>1 DEF SlotInv, NoRequestForgotten
<1>4. WireInv' /\ OnceInv' BY <1>2 DEF WireInv, OnceInv
<1>5. FateKept BY <1>1 DEF FateKept
<1>6. QED BY <1>3, <1>4, <1>5 DEF Requests

-----------------------------------------------------------------------------
(* Types.                                                                  *)

\* What was written, or is being, is a token or none.
LEMMA WritesTyped ==
    ASSUME writes \in Seq(Write)
    PROVE  /\ \A n \in 1..Len(writes) : writes[n].token \in Token \cup {None}
           /\ writes # <<>> =>
                /\ Head(writes).token \in Token \cup {None}
                /\ Head(writes).then \in Then
                /\ Tail(writes) \in Seq(Write)
           /\ \A t \in Token \cup {None}, w \in Then :
                Append(writes, [token |-> t, then |-> w]) \in Seq(Write)
<1>1. \A n \in 1..Len(writes) : writes[n] \in Write OBVIOUS
<1>2. writes # <<>> => Head(writes) \in Write /\ Tail(writes) \in Seq(Write)
  BY HeadTailProperties
<1>3. \A t \in Token \cup {None}, w \in Then : [token |-> t, then |-> w] \in Write BY DEF Write
<1>4. \A w \in Write : Append(writes, w) \in Seq(Write) BY AppendProperties
<1>5. QED BY <1>1, <1>2, <1>3, <1>4 DEF Write

\* The wire's type says what TypeOK does of its frames.
LEMMA FramesTyped ==
    ASSUME wire \in [Socket -> Seq(Frame)]
    PROVE  \A s \in Socket : \A n \in 1..Len(wire[s]) :
              \/ wire[s][n] \in {Hello(t) : t \in Token \cup {None}}
              \/ wire[s][n] \in {Ask(r) : r \in Request}
<1>1. \A s \in Socket : \A n \in 1..Len(wire[s]) : wire[s][n] \in Frame OBVIOUS
<1>2. QED BY <1>1 DEF Frame

LEMMA InitTyped == Init => Typed
<1> SUFFICES ASSUME Init PROVE Typed OBVIOUS
<1>1. <<>> \in Seq(Write) /\ <<>> \in Seq(Frame) BY EmptySeq
<1>2. \A m \in FaultModels : m.most \in Nat BY ServiceWorkerAssumption DEF FaultModel
<1>3. WorkerTyped BY DEF Init, WorkerTyped, WsState
<1>4. StorageTyped BY <1>1 DEF Init, StorageTyped
<1>5. NetworkTyped BY <1>1 DEF Init, NetworkTyped, ReadyState, PeerState
<1>6. WorldTyped BY <1>2 DEF Init, WorldTyped, Fate
<1>7. QED BY <1>3, <1>4, <1>5, <1>6 DEF Typed

LEMMA MisbehavesTyped ==
    ASSUME WorldTyped, NEW kind, Misbehaves(kind)
    PROVE  allowed' \in FaultModels /\ faults' \in 0..allowed'.most
<1>1. allowed.most \in Nat BY ServiceWorkerAssumption DEF WorldTyped, FaultModel
<1>2. QED BY <1>1 DEF Misbehaves, WorldTyped

LEMMA WorldStays == WorldTyped /\ UNCHANGED <<up, known, fate, allowed, faults>> => WorldTyped'
BY DEF WorldTyped

LEMMA StorageStays == StorageTyped /\ UNCHANGED storage => StorageTyped'
BY DEF StorageTyped, storage

LEMMA NetworkStays == NetworkTyped /\ UNCHANGED network => NetworkTyped'
BY DEF NetworkTyped, network

LEMMA WorkerStays == WorkerTyped /\ UNCHANGED worker => WorkerTyped'
BY DEF WorkerTyped, worker

\* A call of connectIfNeeded changes reads, and counts an overlap.
LEMMA CallsTyped ==
    ASSUME Typed, Calls
    PROVE  /\ reads' \in Nat /\ doubled' \in Nat
           /\ allowed' \in FaultModels /\ faults' \in 0..allowed'.most
<1>1. reads' \in Nat BY DEF Typed, WorkerTyped, Calls, ConnectIfNeeded
<1>2. doubled' \in Nat BY DEF Typed, WorkerTyped, Calls
<1>3. allowed' \in FaultModels /\ faults' \in 0..allowed'.most
  BY MisbehavesTyped DEF Typed, WorldTyped, Calls
<1>4. QED BY <1>1, <1>2, <1>3

LEMMA ConnectTyped ==
    ASSUME Typed, Nudge \/ BackoffFires PROVE Typed'
<1>0. Calls BY DEF Nudge, BackoffFires
<1>1. WorkerTyped' BY <1>0, CallsTyped DEF Typed, WorkerTyped, Nudge, BackoffFires
<1>2. UNCHANGED <<storage, network, up, known, fate>> BY DEF Nudge, BackoffFires
<1>3. WorldTyped' BY <1>0, <1>2, CallsTyped DEF Typed, WorldTyped
<1>4. QED BY <1>1, <1>2, <1>3, StorageStays, NetworkStays DEF Typed

LEMMA NoSocketTyped ==
    ASSUME Typed, TokenUnread \/ SocketThrows PROVE Typed'
<1>1. reads \in Nat /\ reads > 0 /\ reads' = reads - 1
  BY DEF Typed, WorkerTyped, TokenUnread, SocketThrows
<1>a. reads' \in Nat BY <1>1
<1>b. WorkerTyped'
  <2>1. CASE TokenUnread BY <2>1, <1>a DEF Typed, WorkerTyped, TokenUnread
  <2>2. CASE SocketThrows BY <2>2, <1>a DEF Typed, WorkerTyped, SocketThrows, WsState
  <2>3. QED BY <2>1, <2>2
<1>2. UNCHANGED <<storage, network, up, known, fate>> BY DEF TokenUnread, SocketThrows
<1>3. WorldTyped' BY <1>2, MisbehavesTyped DEF Typed, WorldTyped, TokenUnread, SocketThrows
<1>4. QED BY <1>b, <1>2, <1>3, StorageStays, NetworkStays DEF Typed

LEMMA TokenReadTyped ==
    ASSUME Typed, NEW s \in Socket, TokenRead(s) PROVE Typed'
<1>1. WorkerTyped' BY DEF Typed, WorkerTyped, TokenRead, WsState
<1>2. \A t \in {stored} \cup {writes[n].token : n \in 1..Len(writes)} : t \in Token \cup {None}
  BY WritesTyped DEF Typed, StorageTyped
<1>3. carried' \in [Socket -> Token \cup {None}]
  BY <1>2 DEF Typed, NetworkTyped, TokenRead
<1>4. wire' \in [Socket -> Seq(Frame)] BY EmptySeq DEF Typed, NetworkTyped, TokenRead
<1>5. NetworkTyped'
  BY <1>3, <1>4 DEF Typed, NetworkTyped, TokenRead, ReadyState, PeerState
<1>6. UNCHANGED <<storage, up, known, fate, allowed, faults>> BY DEF TokenRead, world
<1>7. QED BY <1>1, <1>5, <1>6, WorldStays, StorageStays DEF Typed

LEMMA SocketOpensTyped ==
    ASSUME Typed, NEW s \in Socket, SocketOpens(s) PROVE Typed'
<1>1. WorkerTyped' BY DEF Typed, WorkerTyped, SocketOpens, WsState
<1>2. wire' \in [Socket -> Seq(Frame)]
  <2>1. Hello(carried[s]) \in Frame BY DEF Typed, NetworkTyped, Frame
  <2>2. ws # None => ws \in Socket BY DEF Typed, WorkerTyped
  <2>3. \A q \in Socket : wire[q] \in Seq(Frame) BY DEF Typed, NetworkTyped
  <2>4. \A q \in Socket : Append(wire[q], Hello(carried[s])) \in Seq(Frame)
    BY <2>1, <2>3, AppendProperties
  <2>5. QED BY <2>2, <2>4 DEF Typed, NetworkTyped, SocketOpens
<1>3. NetworkTyped' BY <1>2 DEF Typed, NetworkTyped, SocketOpens, ReadyState
<1>4. UNCHANGED <<storage, up, known, fate, allowed, faults>> BY DEF SocketOpens, world
<1>5. QED BY <1>1, <1>3, <1>4, WorldStays, StorageStays DEF Typed

LEMMA HelloTimeoutTyped ==
    ASSUME Typed, NEW s \in Socket, HelloTimeout(s) PROVE Typed'
<1>1. WorkerTyped' BY DEF Typed, WorkerTyped, HelloTimeout, WsState
<1>2. NetworkTyped' BY DEF Typed, WorkerTyped, NetworkTyped, HelloTimeout, ReadyState
<1>3. allowed' \in FaultModels /\ faults' \in 0..allowed'.most
  BY MisbehavesTyped DEF Typed, WorldTyped, HelloTimeout
<1>4. WorldTyped' BY <1>3 DEF Typed, WorldTyped, HelloTimeout
<1>5. UNCHANGED storage BY DEF HelloTimeout
<1>6. QED BY <1>1, <1>2, <1>4, <1>5, StorageStays DEF Typed

LEMMA HelloOkTyped ==
    ASSUME Typed, NEW s \in Socket, HelloOk(s) PROVE Typed'
<1>1. WorkerTyped' BY DEF Typed, WorkerTyped, HelloOk, Flush, WsState
<1>2. writes' \in Seq(Write)
  BY WritesTyped DEF Typed, StorageTyped, HelloOk, Token, Then
<1>3. StorageTyped' BY <1>2 DEF Typed, StorageTyped, HelloOk
<1>4. wire' \in [Socket -> Seq(Frame)]
  <2>1. held # None => Ask(held) \in Frame BY DEF Typed, WorkerTyped, Frame
  <2>2. ws # None => ws \in Socket BY DEF Typed, WorkerTyped
  <2>3. \A q \in Socket : wire[q] \in Seq(Frame) BY DEF Typed, NetworkTyped
  <2>4. \A q \in Socket : held # None => Append(wire[q], Ask(held)) \in Seq(Frame)
    BY <2>1, <2>3, AppendProperties
  <2>5. QED BY <2>2, <2>4 DEF Typed, NetworkTyped, HelloOk, Flush
<1>5. NetworkTyped' BY <1>4 DEF Typed, NetworkTyped, HelloOk, PeerState
<1>6. WorldTyped' BY DEF Typed, WorldTyped, HelloOk, Flush, Fate
<1>7. QED BY <1>1, <1>3, <1>5, <1>6 DEF Typed

LEMMA SocketClosesTyped ==
    ASSUME Typed, NEW s \in Socket, SocketCloses(s) PROVE Typed'
<1>1. PICK code \in {"4401", "other"} : CloseListener(s, code)
  BY DEF SocketCloses
<1>2. WorkerTyped'
  BY <1>1 DEF Typed, WorkerTyped, SocketCloses, CloseListener, Retry, NoRetry, WsState
<1>3. writes' \in Seq(Write)
  BY <1>1, WritesTyped DEF Typed, StorageTyped, CloseListener, Retry, NoRetry, Then
<1>4. StorageTyped' BY <1>3 DEF Typed, StorageTyped, SocketCloses
<1>5. wire' \in [Socket -> Seq(Frame)] BY EmptySeq DEF Typed, NetworkTyped, SocketCloses
<1>6. NetworkTyped'
  BY <1>5 DEF Typed, NetworkTyped, SocketCloses, ReadyState, PeerState
<1>7. WorldTyped' BY DEF Typed, WorldTyped, SocketCloses, Fate
<1>8. QED BY <1>2, <1>4, <1>6, <1>7 DEF Typed

LEMMA SetTokenTyped ==
    ASSUME Typed, NEW t \in {"secret", "wrong", None}, SetToken(t) PROVE Typed'
<1>1. writes' \in Seq(Write) BY WritesTyped DEF Typed, StorageTyped, SetToken, Token, Then
<1>2. StorageTyped' BY <1>1 DEF Typed, StorageTyped, SetToken
<1>3. WorldTyped' BY MisbehavesTyped DEF Typed, WorldTyped, SetToken
<1>4. WorkerTyped' /\ UNCHANGED network BY DEF Typed, WorkerTyped, SetToken
<1>5. QED BY <1>2, <1>3, <1>4, NetworkStays DEF Typed

LEMMA WriteSettlesTyped ==
    ASSUME Typed, WriteSettles PROVE Typed'
<1>1. /\ Head(writes).token \in Token \cup {None} /\ Head(writes).then \in Then
      /\ Tail(writes) \in Seq(Write)
  BY WritesTyped DEF Typed, StorageTyped, WriteSettles
<1>2. StorageTyped' BY <1>1 DEF Typed, StorageTyped, WriteSettles
<1>3. \/ UNCHANGED <<wsState, ws, retried, reads, sock>>
      \/ ConnectIfNeeded /\ UNCHANGED <<wsState, ws, retried, sock>>
      \/ ForceReconnect
  BY <1>1 DEF WriteSettles, Then
<1>4. reads' \in Nat /\ retried' \in BOOLEAN /\ ws' \in Socket \cup {None} /\ wsState' \in WsState
  <2>1. reads \in Nat /\ retried \in BOOLEAN /\ ws \in Socket \cup {None} /\ wsState \in WsState
    BY DEF Typed, WorkerTyped
  <2>2. ConnectIfNeeded => reads' \in Nat BY <2>1 DEF ConnectIfNeeded
  <2>3. ForceReconnect => reads' \in Nat /\ retried' = FALSE /\ ws' = None /\ wsState' \in WsState
    BY <2>1 DEF ForceReconnect, WsState
  <2>4. QED BY <1>3, <2>1, <2>2, <2>3
<1>5. WorkerTyped' BY <1>4 DEF Typed, WorkerTyped, WriteSettles
<1>6. sock' \in [Socket -> ReadyState]
  BY <1>3 DEF Typed, WorkerTyped, NetworkTyped, ForceReconnect, ReadyState
<1>7. NetworkTyped' BY <1>6 DEF Typed, NetworkTyped, WriteSettles
<1>8. UNCHANGED <<up, known, fate, allowed, faults>> BY DEF WriteSettles, world
<1>9. QED BY <1>2, <1>5, <1>7, <1>8, WorldStays DEF Typed

LEMMA SendNowTyped ==
    ASSUME Typed, NEW r \in Request, SendNow(r) PROVE Typed'
<1>1. ws \in Socket BY DEF Typed, WorkerTyped, SendNow, CanSend
<1>2. wire' \in [Socket -> Seq(Frame)]
  <2>1. Ask(r) \in Frame BY DEF Frame
  <2>2. QED BY <1>1, <2>1, Appended DEF Typed, NetworkTyped, SendNow
<1>3. NetworkTyped' BY <1>2 DEF Typed, NetworkTyped, SendNow
<1>4. WorldTyped' BY DEF Typed, WorldTyped, SendNow, Fate
<1>5. UNCHANGED <<worker, storage>> BY DEF SendNow
<1>6. QED BY <1>3, <1>4, <1>5, WorkerStays, StorageStays DEF Typed

LEMMA HoldTyped ==
    ASSUME Typed, NEW r \in Request, Hold(r) PROVE Typed'
<1>1. Calls BY DEF Hold
<1>2. WorkerTyped' BY <1>1, CallsTyped DEF Typed, WorkerTyped, Hold
<1>3. WorldTyped' BY <1>1, CallsTyped DEF Typed, WorldTyped, Hold, Fate
<1>4. UNCHANGED <<storage, network>> BY DEF Hold
<1>5. QED BY <1>2, <1>3, <1>4, StorageStays, NetworkStays DEF Typed

LEMMA HoldExpiresTyped ==
    ASSUME Typed, HoldExpires PROVE Typed'
<1>1. WorkerTyped' BY DEF Typed, WorkerTyped, HoldExpires
<1>2. WorldTyped' BY DEF Typed, WorldTyped, HoldExpires, Fate
<1>3. UNCHANGED <<storage, network>> BY DEF HoldExpires
<1>4. QED BY <1>1, <1>2, <1>3, StorageStays, NetworkStays DEF Typed

\* The three things the broker does with a frame.
LEMMA BrokerReadsOne ==
    ASSUME Typed, NEW s \in Socket, BrokerReads(s)
    PROVE  LET m == Head(wire[s])
           IN  /\ wire[s] # <<>> /\ wire' = [wire EXCEPT ![s] = Tail(@)]
               /\ \/ /\ m.kind = "request" /\ m.request \in Request
                     /\ \E f \in {"accepted", "lost"} : fate' = [fate EXCEPT ![m.request] = f]
                  \/ UNCHANGED fate
               /\ peer' \in [Socket -> PeerState]
               /\ known' \in BOOLEAN
<1> DEFINE m == Head(wire[s])
<1>1. m \in Frame BY Shortened DEF Typed, NetworkTyped, BrokerReads
<1>2. CASE m.kind = "request"
  <2>1. m.request \in Request BY <1>1, <1>2, FrameOfRequest
  <2>2. QED
    BY <1>2, <2>1 DEF BrokerReads, Typed, NetworkTyped, WorldTyped, PeerState
<1>3. CASE m.kind = "hello"
  <2>1. UNCHANGED fate BY <1>3 DEF BrokerReads
  <2>2. known' \in BOOLEAN BY <1>3 DEF BrokerReads, Typed, WorldTyped
  <2>3. peer' \in [Socket -> PeerState]
    BY <1>3 DEF BrokerReads, Typed, NetworkTyped, PeerState
  <2>4. QED BY <2>1, <2>2, <2>3 DEF BrokerReads
<1>4. m.kind \in {"request", "hello"} BY <1>1, Frames DEF Frame
<1>5. QED BY <1>2, <1>3, <1>4

LEMMA BrokerReadsTyped ==
    ASSUME Typed, NEW s \in Socket, BrokerReads(s) PROVE Typed'
<1>1. wire' \in [Socket -> Seq(Frame)]
  BY BrokerReadsOne, Shortened DEF Typed, NetworkTyped
<1>2. NetworkTyped' BY <1>1, BrokerReadsOne DEF Typed, NetworkTyped, BrokerReads
<1>3. fate' \in [Request -> Fate] BY BrokerReadsOne DEF Typed, WorldTyped, Fate
<1>4. WorldTyped' BY <1>3, BrokerReadsOne DEF Typed, WorldTyped, BrokerReads
<1>5. UNCHANGED <<worker, storage>> BY DEF BrokerReads
<1>6. QED BY <1>2, <1>4, <1>5, WorkerStays, StorageStays DEF Typed

LEMMA BrokerTyped ==
    ASSUME Typed,
           (\E s \in Socket : BrokerTimesOut(s)) \/ BrokerStops \/ BrokerStarts \/ Revoked
    PROVE  Typed'
<1>1. NetworkTyped'
  BY DEF Typed, NetworkTyped, BrokerTimesOut, BrokerStops, BrokerStarts, Revoked, network, PeerState
<1>2. allowed' \in FaultModels /\ faults' \in 0..allowed'.most
  BY MisbehavesTyped DEF Typed, WorldTyped, BrokerTimesOut, BrokerStops, BrokerStarts, Revoked
<1>3. WorldTyped'
  BY <1>2 DEF Typed, WorldTyped, BrokerTimesOut, BrokerStops, BrokerStarts, Revoked
<1>4. UNCHANGED <<worker, storage>>
  BY DEF BrokerTimesOut, BrokerStops, BrokerStarts, Revoked
<1>5. QED BY <1>1, <1>3, <1>4, WorkerStays, StorageStays DEF Typed

LEMMA KilledTyped ==
    ASSUME Typed, Killed PROVE Typed'
<1>1. WorkerTyped' BY DEF WorkerTyped, Killed, WsState
<1>2. writes' \in Seq(Write) BY EmptySeq DEF Killed
<1>3. StorageTyped' BY <1>2, WritesTyped DEF Typed, StorageTyped, Killed
<1>4. wire' \in [Socket -> Seq(Frame)] BY EmptySeq DEF Killed
<1>5. NetworkTyped' BY <1>4 DEF NetworkTyped, Killed, ReadyState, PeerState
<1>6. WorldTyped' BY MisbehavesTyped DEF Typed, WorldTyped, Killed, Fate
<1>7. QED BY <1>1, <1>3, <1>5, <1>6 DEF Typed

-----------------------------------------------------------------------------
(* Every step.                                                             *)

LEMMA InitHolds == Init => IInv
<1> SUFFICES ASSUME Init PROVE IInv OBVIOUS
<1>1. SlotInv BY DEF Init, SlotInv, NoRequestForgotten
<1>2. \A s \in Socket : 1..Len(wire[s]) = {} BY EmptySeq DEF Init
<1>3. WireInv /\ OnceInv BY <1>2 DEF WireInv, OnceInv
<1>4. QED BY <1>1, <1>3, InitTyped DEF IInv

LEMMA TypedKept == Typed /\ [Next]_vars => Typed'
<1> SUFFICES ASSUME Typed, [Next]_vars PROVE Typed' OBVIOUS
<1>1. ASSUME NEW s \in Socket,
             \/ TokenRead(s) \/ SocketOpens(s) \/ HelloOk(s) \/ SocketCloses(s)
             \/ HelloTimeout(s) \/ BrokerReads(s)
      PROVE  Typed'
  BY <1>1, TokenReadTyped, SocketOpensTyped, HelloOkTyped, SocketClosesTyped, HelloTimeoutTyped,
     BrokerReadsTyped
<1>2. ASSUME NEW t \in {"secret", "wrong", None}, SetToken(t) PROVE Typed' BY <1>2, SetTokenTyped
<1>3. ASSUME NEW r \in Request, SendNow(r) \/ Hold(r) PROVE Typed'
  BY <1>3, SendNowTyped, HoldTyped
<1>4. CASE \/ Nudge \/ BackoffFires \/ TokenUnread \/ SocketThrows
           \/ WriteSettles \/ HoldExpires \/ Killed
  BY <1>4, ConnectTyped, NoSocketTyped, WriteSettlesTyped, HoldExpiresTyped, KilledTyped
<1>5. CASE (\E s \in Socket : BrokerTimesOut(s)) \/ BrokerStops \/ BrokerStarts \/ Revoked
  BY <1>5, BrokerTyped
<1>6. CASE UNCHANGED vars
  <2>1. UNCHANGED <<worker, storage, network, up, known, fate, allowed, faults>>
    BY <1>6 DEF vars, world
  <2>2. QED BY <2>1, WorkerStays, StorageStays, NetworkStays, WorldStays DEF Typed
<1>7. QED BY <1>1, <1>2, <1>3, <1>4, <1>5, <1>6 DEF Next, Network

LEMMA RequestsKept == IInv /\ [Next]_vars => Requests' /\ FateKept
<1> SUFFICES ASSUME Typed, Requests, [Next]_vars PROVE Requests' /\ FateKept
  BY DEF IInv, Requests
<1>1. ASSUME UNCHANGED <<wire, held, fate>> PROVE Requests' /\ FateKept
  BY <1>1, NoneMoves
<1>2. ASSUME NEW s \in Socket, TokenRead(s) PROVE Requests' /\ FateKept
  <2>1. /\ wire' = [wire EXCEPT ![s] = <<>>] /\ wire \in [Socket -> Seq(Frame)]
        /\ UNCHANGED <<held, fate>>
    BY <1>2 DEF TokenRead, world, Typed, NetworkTyped
  <2>2. \A q \in Socket : \A n \in 1..Len(wire'[q]) : n \in 1..Len(wire[q]) /\ wire'[q][n] = wire[q][n]
    BY <2>1, EmptySeq
  <2>3. QED BY <2>1, <2>2, NoneMoves
<1>3. ASSUME NEW s \in Socket, SocketOpens(s) PROVE Requests' /\ FateKept
  <2>1. UNCHANGED <<held, fate>> BY <1>3 DEF SocketOpens, world
  <2>2. CASE UNCHANGED wire BY <1>1, <2>1, <2>2
  <2>3. CASE ws \in Socket /\ wire' = [wire EXCEPT ![ws] = Append(@, Hello(carried[s]))]
    <3>1. carried[s] \in Token \cup {None} BY DEF Typed, NetworkTyped
    <3>2. Hello(carried[s]) \in Frame BY <3>1 DEF Frame
    <3>3. \A q \in Socket : \A n \in 1..Len(wire'[q]) :
             \/ n \in 1..Len(wire[q]) /\ wire'[q][n] = wire[q][n]
             \/ wire'[q][n] = Hello(carried[s])
      BY <2>3, <3>2, Appended DEF Typed, NetworkTyped
    <3>4. QED BY <2>1, <3>1, <3>3, Frames, NoneMoves
  <2>4. QED BY <1>3, <2>2, <2>3 DEF SocketOpens, Typed, WorkerTyped
<1>4. ASSUME NEW s \in Socket, HelloOk(s) PROVE Requests' /\ FateKept
  <2>1. CASE UNCHANGED <<wire, fate, held>> BY <1>1, <2>1
  <2>2. CASE /\ held # None /\ ws # None
             /\ wire' = [wire EXCEPT ![ws] = Append(@, Ask(held))]
             /\ fate' = [fate EXCEPT ![held] = "sent"]
             /\ held' = None
    <3>1. held \in Request /\ ws \in Socket BY <2>2 DEF Typed, WorkerTyped
    <3>2. fate[held] = "held" BY <2>2 DEF Requests, SlotInv
    <3>3. QED BY <2>2, <3>1, <3>2, OneIsSent
  <2>3. QED BY <1>4, <2>1, <2>2 DEF HelloOk, Flush
<1>5. ASSUME NEW s \in Socket, SocketCloses(s) PROVE Requests' /\ FateKept BY <1>5, CloseKeeps
<1>6. ASSUME NEW s \in Socket, BrokerReads(s) PROVE Requests' /\ FateKept
  <2>1. held' = held BY <1>6 DEF BrokerReads, worker
  <2>2. CASE Head(wire[s]).kind = "request"
    <3>1. QED BY <1>6, <2>1, <2>2, OneArrives DEF BrokerReads
  <2>3. CASE Head(wire[s]).kind # "request"
    <3>1. UNCHANGED <<held, fate>> BY <1>6, <2>1, <2>3, BrokerReadsOne
    <3>2. \A q \in Socket : \A n \in 1..Len(wire'[q]) :
             \/ q # s /\ n \in 1..Len(wire[q]) /\ wire'[q][n] = wire[q][n]
             \/ q = s /\ n + 1 \in 1..Len(wire[s]) /\ wire'[q][n] = wire[s][n + 1]
      BY <1>6, Shortened DEF BrokerReads, Typed, NetworkTyped
    <3>3. QED BY <3>1, <3>2, HelloArrives
  <2>4. QED BY <2>2, <2>3
<1>7. ASSUME NEW r \in Request, SendNow(r) PROVE Requests' /\ FateKept
  <2>1. ws \in Socket BY <1>7 DEF Typed, WorkerTyped, SendNow, CanSend
  <2>2. held' = held BY <1>7 DEF SendNow, worker
  <2>3. QED BY <1>7, <2>1, <2>2, OneIsSent DEF SendNow
<1>8. ASSUME NEW r \in Request, Hold(r) PROVE Requests' /\ FateKept BY <1>8, HoldKeeps
<1>9. CASE HoldExpires BY <1>9, HoldExpiresKeeps
<1>10. CASE Killed BY <1>10, KillKeeps
<1>11. CASE \/ Nudge \/ BackoffFires \/ WriteSettles \/ TokenUnread \/ SocketThrows
            \/ \E t \in {"secret", "wrong", None} : SetToken(t)
            \/ \E s \in Socket : HelloTimeout(s) \/ BrokerTimesOut(s)
            \/ BrokerStops \/ BrokerStarts \/ Revoked \/ UNCHANGED vars
  <2>1. UNCHANGED <<wire, held, fate>>
    BY <1>11 DEF Nudge, BackoffFires, TokenUnread, SocketThrows, WriteSettles, SetToken, HelloTimeout, BrokerTimesOut,
                 BrokerStops, BrokerStarts, Revoked, vars, worker, network, world
  <2>2. QED BY <1>1, <2>1
<1>12. QED
  BY <1>2, <1>3, <1>4, <1>5, <1>6, <1>7, <1>8, <1>9, <1>10, <1>11 DEF Next, Network

-----------------------------------------------------------------------------
(* The theorems.                                                           *)

\* The inductive invariant: the types, and where a request is in each fate.
THEOREM Invariant == Spec => []IInv
<1>1. IInv /\ [Next]_vars => IInv'
  BY TypedKept, RequestsKept DEF IInv, Requests
<1>2. QED BY InitHolds, <1>1, PTL DEF Spec

\* Every variable keeps its type.
THEOREM TypeCorrect == Spec => []TypeOK
<1>1. IInv => TypeOK
  BY FramesTyped DEF IInv, Typed, WorkerTyped, StorageTyped, NetworkTyped, WorldTyped, TypeOK
<1>2. QED BY <1>1, Invariant, PTL

\* A request that waits is the one in the slot: none is pushed out of it, or
\* left behind by a reconnection, without the panel being told.
THEOREM NoRequestForgottenHolds == Spec => []NoRequestForgotten
<1>1. IInv => NoRequestForgotten BY DEF IInv, SlotInv
<1>2. QED BY <1>1, Invariant, PTL

\* A request has one fate, however many callers of connectIfNeeded, pasted
\* tokens and deaths of the worker there are.
THEOREM OneFateHolds == Spec => OneFate
<1>1. IInv /\ [Next]_vars => [FateKept]_vars BY RequestsKept
<1>2. Spec => [][FateKept]_vars BY <1>1, Invariant, PTL DEF Spec
<1>3. QED BY <1>2, PTL DEF OneFate, FateKept

-----------------------------------------------------------------------------
(* One connection.                                                         *)

\* A call is suspended, or due, only while the worker has no socket; there is
\* one at most.
CallInv ==
    /\ reads \in {0, 1}
    /\ reads = 1 => Due = {}
    /\ reads = 1 \/ Due # {} => ws = None

\* The one write it waits for is the removal of the token, issued last.
WriteInv ==
    /\ \A n \in 1..Len(writes) : writes[n].then \in {"nothing", "retry"}
    /\ \A n \in Due : n = Len(writes) /\ writes[n].token = None

\* The sockets that live are the one the worker holds, and it says "connected"
\* only once the broker granted the hello of that one.
SocketInv ==
    /\ \A s \in Socket : sock[s] # "none" => s = ws
    /\ ws # None => sock[ws] # "none"
    /\ wsState = "connected" => ws # None /\ peer[ws] \in {"authed", "gone"}

\* After a refused token nothing is left to be written once it was removed, and
\* the next socket carries what the storage held then.
TokenInv ==
    retried =>
        /\ Due = {} => writes = <<>>
        /\ writes = <<>> /\ stored = None /\ ws # None => carried[ws] = None

Conn == CallInv /\ WriteInv /\ SocketInv /\ TokenInv

\* NeverBeforeHello, of one step.
AskedAfterHello ==
    \A r \in Request :
        fate[r] # "sent" /\ fate'[r] = "sent" => ws # None /\ peer'[ws] \notin {"waiting", "refused"}

\* The calls that are pending can be counted.
LEMMA CallersCounted ==
    ASSUME Typed
    PROVE  /\ IsFiniteSet(Due) /\ Cardinality(Due) \in Nat /\ Len(writes) \in Nat
           /\ reads \in Nat /\ Callers \in Nat /\ Callers = reads + Cardinality(Due)
           /\ Callers = 0 => reads = 0 /\ Due = {}
<1>1. Len(writes) \in Nat /\ reads \in Nat BY DEF Typed, StorageTyped, WorkerTyped
<1>2. IsFiniteSet(1..Len(writes)) BY <1>1, FS_Interval
<1>3. IsFiniteSet(Due) BY <1>2, FS_Subset DEF Due
<1>4. Cardinality(Due) \in Nat BY <1>3, FS_CardinalityType
<1>5. Callers = reads + Cardinality(Due) BY DEF Callers
<1>6. Callers = 0 => reads = 0 /\ Cardinality(Due) = 0 BY <1>1, <1>4, <1>5
<1>7. QED BY <1>1, <1>3, <1>4, <1>5, <1>6, FS_EmptySet

\* A write is added last; the others stay where they are.
LEMMA WriteAppended ==
    ASSUME Typed, NEW t \in Token \cup {None}, NEW w \in {"nothing", "retry"}, Due = {},
           \A n \in 1..Len(writes) : writes[n].then \in {"nothing", "retry"},
           writes' = Append(writes, [token |-> t, then |-> w])
    PROVE  /\ Len(writes') = Len(writes) + 1 /\ Len(writes) \in Nat /\ writes' # <<>>
           /\ \A n \in 1..Len(writes') : writes'[n].then \in {"nothing", "retry"}
           /\ Due' = IF w = "retry" THEN {Len(writes')} ELSE {}
           /\ writes'[Len(writes')].token = t
<1>1. writes \in Seq(Write) /\ [token |-> t, then |-> w] \in Write
  BY DEF Typed, StorageTyped, Write, Then
<1>2. /\ writes' \in Seq(Write) /\ Len(writes') = Len(writes) + 1
      /\ \A n \in 1..Len(writes) : writes'[n] = writes[n]
      /\ writes'[Len(writes) + 1] = [token |-> t, then |-> w]
  BY <1>1, AppendProperties
<1>3. Len(writes) \in Nat BY <1>1
<1>4. \A n \in 1..Len(writes') : n \in 1..Len(writes) \/ n = Len(writes) + 1 BY <1>2, <1>3
<1>5. writes' # <<>> BY <1>2, <1>3, EmptySeq
<1>6. \A n \in 1..Len(writes') : writes'[n].then \in {"nothing", "retry"} BY <1>2, <1>4
<1>7. \A n \in 1..Len(writes) : writes'[n].then = "nothing" BY <1>2 DEF Due
<1>8. writes'[Len(writes')].then = w /\ writes'[Len(writes')].token = t BY <1>2
<1>9. Due' = IF w = "retry" THEN {Len(writes')} ELSE {}
  BY <1>2, <1>3, <1>4, <1>7, <1>8 DEF Due
<1>10. QED BY <1>2, <1>3, <1>5, <1>6, <1>8, <1>9

\* The first write settles.  If a call waits for it, it was the only one.
LEMMA WriteTaken ==
    ASSUME Typed, WriteInv, writes # <<>>, writes' = Tail(writes)
    PROVE  /\ Head(writes).then \in {"nothing", "retry"}
           /\ WriteInv'
           /\ Head(writes).then = "nothing" => (Due' = {} <=> Due = {})
           /\ Head(writes).then = "retry" => Due # {} /\ Due' = {} /\ writes' = <<>>
<1>1. writes \in Seq(Write) BY DEF Typed, StorageTyped
<1>2. /\ writes' \in Seq(Write) /\ Len(writes') = Len(writes) - 1
      /\ \A n \in 1..Len(writes') : writes'[n] = writes[n + 1]
      /\ Head(writes) = writes[1] /\ Len(writes) \in Nat \ {0} /\ Len(writes') \in Nat
  BY <1>1, HeadTailProperties, EmptySeq
<1>3. Head(writes).then \in {"nothing", "retry"} BY <1>2 DEF WriteInv
<1>4. \A n \in 1..Len(writes') : n + 1 \in 1..Len(writes) BY <1>2
<1>5. \A n \in Due' : n \in 1..Len(writes') /\ n + 1 \in Due BY <1>2, <1>4 DEF Due
<1>6. WriteInv' BY <1>2, <1>4, <1>5 DEF WriteInv
<1>7. ASSUME Head(writes).then = "nothing" PROVE Due' = {} <=> Due = {}
  <2>1. Due' = {} => Due = {}
    <3> SUFFICES ASSUME NEW n \in Due PROVE Due' # {} OBVIOUS
    <3>1. n \in 1..Len(writes) /\ n # 1 BY <1>2, <1>7 DEF Due
    <3>2. n - 1 \in 1..Len(writes') /\ (n - 1) + 1 = n BY <1>2, <3>1
    <3>3. writes'[n - 1] = writes[n] BY <1>2, <3>2
    <3>4. n - 1 \in Due' BY <3>2, <3>3 DEF Due
    <3>5. QED BY <3>4
  <2>2. QED BY <1>5, <2>1
<1>8. ASSUME Head(writes).then = "retry" PROVE Due # {} /\ Due' = {} /\ writes' = <<>>
  <2>1. 1 \in Due BY <1>2, <1>8 DEF Due
  <2>2. Len(writes) = 1 BY <2>1 DEF WriteInv
  <2>3. Len(writes') = 0 BY <1>2, <2>2
  <2>4. QED BY <1>2, <1>5, <2>1, <2>3, EmptySeq
<1>9. QED BY <1>3, <1>6, <1>7, <1>8

\* Nudge, BackoffFires, Hold: connectIfNeeded may be called.
LEMMA CallKeeps ==
    ASSUME Typed, Conn, Calls, doubled' = 0,
           UNCHANGED <<wsState, ws, retried, stored, writes, sock, carried, peer>>
    PROVE  Conn'
<1>1. Due' = Due BY DEF Due
<1>2. CASE GoesOn
  <2>1. reads = 0 /\ Due = {} /\ ws = None
    BY <1>2, CallersCounted DEF Calls, GoesOn, Typed, WorkerTyped
  <2>2. reads' = 1 BY <1>2, <2>1 DEF Calls, ConnectIfNeeded
  <2>3. CallInv' BY <1>1, <2>1, <2>2 DEF CallInv
  <2>4. QED BY <1>1, <2>3 DEF Conn, WriteInv, SocketInv, TokenInv
<1>3. CASE ~GoesOn
  <2>1. CallInv' BY <1>1, <1>3 DEF Conn, CallInv, Calls, ConnectIfNeeded
  <2>2. QED BY <1>1, <2>1 DEF Conn, WriteInv, SocketInv, TokenInv
<1>4. QED BY <1>2, <1>3

\* A step that creates no socket and ends none, and starts no call.
LEMMA QuietKeeps ==
    ASSUME Conn, UNCHANGED <<ws, retried, reads, stored, writes, carried>>,
           \A s \in Socket : sock'[s] = "none" <=> sock[s] = "none",
           ws \in Socket \cup {None},
           wsState' = "connected" =>
               wsState = "connected" /\ (ws \in Socket /\ peer[ws] \in {"authed", "gone"}
                                            => peer'[ws] \in {"authed", "gone"})
    PROVE  Conn'
<1>1. Due' = Due BY DEF Due
<1>2. CallInv' /\ WriteInv' /\ TokenInv' BY <1>1 DEF Conn, CallInv, WriteInv, TokenInv
<1>3. SocketInv' BY DEF Conn, SocketInv
<1>4. QED BY <1>2, <1>3 DEF Conn

LEMMA TokenReadKeeps ==
    ASSUME Typed, Conn, NEW s \in Socket, TokenRead(s) PROVE Conn'
<1>1. /\ reads = 1 /\ Due = {} /\ ws = None /\ Due' = Due
      /\ sock[s] = "none" /\ s # None
      /\ UNCHANGED <<writes, stored, retried>>
  BY ServiceWorkerAssumption DEF TokenRead, Typed, WorkerTyped, Conn, CallInv, Due, storage
<1>2. reads' = 0 /\ ws' = s /\ wsState' = "connecting" /\ sock' = [sock EXCEPT ![s] = "connecting"]
  BY <1>1 DEF TokenRead
<1>3. CallInv' BY <1>1, <1>2 DEF CallInv
<1>4. WriteInv' BY <1>1 DEF Conn, WriteInv
<1>5. SocketInv'
  <2>1. \A q \in Socket : sock[q] = "none"
    BY <1>1, ServiceWorkerAssumption DEF Conn, SocketInv
  <2>2. \A q \in Socket : sock'[q] # "none" <=> q = s
    BY <1>2, <2>1 DEF Typed, NetworkTyped
  <2>3. QED BY <1>1, <1>2, <2>2 DEF SocketInv
<1>6. ASSUME retried, stored = None PROVE carried'[s] = None
  <2>1. writes = <<>> BY <1>1, <1>6 DEF Conn, TokenInv
  <2>2. {writes[n].token : n \in 1..Len(writes)} = {} BY <2>1, EmptySeq
  <2>3. QED BY <1>6, <2>2 DEF TokenRead, Typed, NetworkTyped
<1>7. TokenInv' BY <1>1, <1>2, <1>6 DEF Conn, TokenInv
<1>8. QED BY <1>3, <1>4, <1>5, <1>7 DEF Conn

LEMMA HelloOkKeeps ==
    ASSUME Typed, Conn, NEW s \in Socket, HelloOk(s) PROVE Conn' /\ AskedAfterHello
<1>1. /\ ws = s /\ ws # None /\ Due = {} /\ UNCHANGED <<ws, reads, sock>>
      /\ peer' = [peer EXCEPT ![s] = "authed"] /\ retried' = FALSE
      /\ writes' = Append(writes, [token |-> "session", then |-> "nothing"])
  BY ServiceWorkerAssumption DEF HelloOk, Conn, SocketInv, CallInv
<1>2. /\ \A n \in 1..Len(writes') : writes'[n].then \in {"nothing", "retry"}
      /\ Due' = {}
  BY <1>1, WriteAppended DEF Conn, WriteInv, Token
<1>3. WriteInv' /\ CallInv' BY <1>1, <1>2 DEF WriteInv, CallInv, Conn
<1>4. peer'[ws] = "authed" BY <1>1 DEF Typed, NetworkTyped
<1>5. SocketInv' BY <1>1, <1>4 DEF Conn, SocketInv
<1>6. TokenInv' BY <1>1 DEF TokenInv
<1>7. AskedAfterHello BY <1>1, <1>4 DEF AskedAfterHello
<1>8. QED BY <1>3, <1>5, <1>6, <1>7 DEF Conn

LEMMA SocketClosesKeeps ==
    ASSUME Typed, Conn, NEW s \in Socket, SocketCloses(s) PROVE Conn'
<1>1. PICK code \in {"4401", "other"} : CloseListener(s, code) BY DEF SocketCloses
<1>2. ws = s /\ ws # None /\ reads = 0 /\ Due = {} /\ ws' = None /\ stored' = stored
  BY <1>1, ServiceWorkerAssumption DEF SocketCloses, CloseListener, Conn, SocketInv, CallInv
<1>3. sock' = [sock EXCEPT ![s] = "none"] BY DEF SocketCloses
<1>4. SocketInv'
  <2>1. wsState' # "connected" BY <1>1 DEF CloseListener, Retry, NoRetry
  <2>2. QED BY <1>2, <1>3, <2>1 DEF Conn, SocketInv, Typed, NetworkTyped
<1>5. CASE RetryDue(s, code)
  <2>1. reads' = 0 /\ writes' = Append(writes, [token |-> None, then |-> "retry"])
    BY <1>1, <1>2, <1>5 DEF CloseListener, Retry
  <2>2. /\ \A n \in 1..Len(writes') : writes'[n].then \in {"nothing", "retry"}
        /\ Due' = {Len(writes')} /\ writes'[Len(writes')].token = None
    BY <1>2, <2>1, WriteAppended DEF Conn, WriteInv
  <2>3. WriteInv' /\ CallInv' BY <1>2, <2>1, <2>2 DEF WriteInv, CallInv
  <2>4. TokenInv' BY <1>2, <2>2 DEF TokenInv
  <2>5. QED BY <1>4, <2>3, <2>4 DEF Conn
<1>6. CASE ~RetryDue(s, code)
  <2>1. UNCHANGED <<reads, writes, retried>> /\ Due' = Due
    BY <1>1, <1>6 DEF CloseListener, NoRetry, Due
  <2>2. WriteInv' /\ CallInv' /\ TokenInv'
    BY <1>2, <2>1 DEF Conn, WriteInv, CallInv, TokenInv
  <2>3. QED BY <1>4, <2>2 DEF Conn
<1>7. QED BY <1>5, <1>6

LEMMA WriteSettlesKeeps ==
    ASSUME Typed, Conn, WriteSettles PROVE Conn'
<1>1. /\ writes # <<>> /\ writes' = Tail(writes) /\ UNCHANGED <<carried, peer>>
      /\ Head(writes).then \in {"nothing", "retry"}
      /\ WriteInv'
      /\ Head(writes).then = "nothing" => (Due' = {} <=> Due = {})
      /\ Head(writes).then = "retry" => Due # {} /\ Due' = {} /\ writes' = <<>>
  BY WriteTaken DEF WriteSettles, Conn
<1>2. CASE Head(writes).then = "nothing"
  <2>1. UNCHANGED <<wsState, ws, retried, reads, sock>> BY <1>2 DEF WriteSettles
  <2>2. CallInv' /\ SocketInv' BY <1>1, <1>2, <2>1 DEF Conn, CallInv, SocketInv
  <2>3. retried => Due # {} /\ ws = None BY <1>1 DEF Conn, TokenInv, CallInv
  <2>4. TokenInv' BY <1>1, <1>2, <2>1, <2>3 DEF TokenInv
  <2>5. QED BY <1>1, <2>2, <2>4 DEF Conn
<1>3. CASE Head(writes).then = "retry"
  <2>1. ConnectIfNeeded /\ UNCHANGED <<wsState, ws, retried, sock>> BY <1>3 DEF WriteSettles
  <2>2. reads = 0 /\ ws = None BY <1>1, <1>3 DEF Conn, CallInv
  <2>3. reads' \in {0, 1} BY <2>1, <2>2 DEF ConnectIfNeeded
  <2>4. CallInv' BY <1>1, <1>3, <2>1, <2>2, <2>3 DEF CallInv
  <2>5. SocketInv' BY <1>1, <2>1 DEF Conn, SocketInv
  <2>6. TokenInv' BY <1>1, <1>3, <2>1, <2>2 DEF TokenInv
  <2>7. QED BY <1>1, <2>4, <2>5, <2>6 DEF Conn
<1>4. QED BY <1>1, <1>2, <1>3

LEMMA KilledKeepsConn ==
    ASSUME Killed PROVE Conn'
<1>1. /\ reads' = 0 /\ writes' = <<>> /\ ws' = None /\ retried' = FALSE
      /\ wsState' = "disconnected" /\ sock' = [s \in Socket |-> "none"]
  BY DEF Killed
<1>2. 1..Len(writes') = {} BY <1>1, EmptySeq
<1>3. Due' = {} BY <1>2 DEF Due
<1>4. QED BY <1>1, <1>2, <1>3 DEF Conn, CallInv, WriteInv, SocketInv, TokenInv

LEMMA InitConn == Init => Conn
<1> SUFFICES ASSUME Init PROVE Conn OBVIOUS
<1>1. 1..Len(writes) = {} BY EmptySeq DEF Init
<1>2. Due = {} BY <1>1 DEF Due
<1>3. QED BY <1>1, <1>2 DEF Init, Conn, CallInv, WriteInv, SocketInv, TokenInv

\* A call whose token cannot be read, or whose socket cannot be built, ends.
LEMMA NoSocketKeeps ==
    ASSUME Typed, Conn, TokenUnread \/ SocketThrows PROVE Conn'
<1>1. /\ reads = 1 /\ reads' = 0 /\ Due = {} /\ ws = None /\ ws' = None /\ Due' = Due
      /\ UNCHANGED <<writes, stored, retried, sock, peer, carried>>
      /\ wsState' = "connected" => wsState = "connected"
  BY DEF TokenUnread, SocketThrows, Typed, WorkerTyped, Conn, CallInv, Due, storage, network
<1>2. CallInv' /\ WriteInv' BY <1>1 DEF Conn, CallInv, WriteInv
<1>3. SocketInv' /\ TokenInv' BY <1>1 DEF Conn, SocketInv, TokenInv
<1>4. QED BY <1>2, <1>3 DEF Conn

\* Only the death of the worker forgets what was doubled.
LEMMA DoubledGrows ==
    ASSUME Typed, [Next]_vars, ~Killed
    PROVE  doubled' = doubled \/ doubled' = doubled + 1
BY DEF Next, Network, vars, Nudge, BackoffFires, WriteSettles, TokenRead, TokenUnread, SocketThrows,
       SocketOpens, HelloOk, SocketCloses, HelloTimeout, BrokerReads, BrokerTimesOut, SetToken,
       SendNow, Hold, HoldExpires, BrokerStops, BrokerStarts, Revoked, Calls, worker

LEMMA ConnKept ==
    ASSUME Typed, Conn, [Next]_vars
    PROVE  (doubled' = 0 => Conn') /\ AskedAfterHello
<1>0. /\ ws \in Socket \cup {None} /\ None \notin Socket
      /\ sock \in [Socket -> ReadyState] /\ peer \in [Socket -> PeerState]
      /\ fate \in [Request -> Fate]
  BY ServiceWorkerAssumption DEF Typed, WorkerTyped, NetworkTyped, WorldTyped
<1>1. ASSUME UNCHANGED fate PROVE AskedAfterHello BY <1>1 DEF AskedAfterHello
<1>2. ASSUME Nudge \/ BackoffFires PROVE (doubled' = 0 => Conn') /\ AskedAfterHello
  <2>1. /\ Calls
        /\ UNCHANGED <<wsState, ws, retried, stored, writes, sock, carried, peer, fate>>
    BY <1>2 DEF Nudge, BackoffFires, storage, network
  <2>2. QED BY <1>1, <2>1, CallKeeps
<1>3. ASSUME NEW r \in Request, Hold(r) PROVE (doubled' = 0 => Conn') /\ AskedAfterHello
  <2>1. Calls /\ UNCHANGED <<wsState, ws, retried, stored, writes, sock, carried, peer>>
    BY <1>3 DEF Hold, storage, network
  <2>2. AskedAfterHello BY <1>0, <1>3 DEF AskedAfterHello, Hold
  <2>3. QED BY <2>1, <2>2, CallKeeps
<1>17. ASSUME TokenUnread \/ SocketThrows PROVE Conn' /\ AskedAfterHello
  BY <1>1, <1>17, NoSocketKeeps DEF TokenUnread, SocketThrows
<1>4. ASSUME NEW s \in Socket, TokenRead(s) PROVE Conn' /\ AskedAfterHello
  BY <1>1, <1>4, TokenReadKeeps DEF TokenRead, world
<1>5. ASSUME NEW s \in Socket, HelloOk(s) PROVE Conn' /\ AskedAfterHello
  BY <1>5, HelloOkKeeps
<1>6. ASSUME NEW s \in Socket, SocketCloses(s) PROVE Conn' /\ AskedAfterHello
  <2>1. AskedAfterHello BY <1>6 DEF AskedAfterHello, SocketCloses
  <2>2. QED BY <1>6, <2>1, SocketClosesKeeps
<1>7. CASE WriteSettles BY <1>1, <1>7, WriteSettlesKeeps DEF WriteSettles, world
<1>8. CASE Killed
  <2>1. AskedAfterHello BY <1>8 DEF AskedAfterHello, Killed
  <2>2. QED BY <1>8, <2>1, KilledKeepsConn
<1>9. ASSUME NEW t \in {"secret", "wrong", None}, SetToken(t) PROVE doubled' # 0 /\ AskedAfterHello
  BY <1>1, <1>9 DEF SetToken, Typed, WorkerTyped
<1>10. ASSUME NEW s \in Socket, SocketOpens(s) PROVE Conn' /\ AskedAfterHello
  <2>1. /\ UNCHANGED <<ws, retried, reads, stored, writes, carried, fate>>
        /\ wsState' = "handshaking"
        /\ sock' = [sock EXCEPT ![s] = "open"] /\ sock[s] = "connecting"
    BY <1>10 DEF SocketOpens, storage, world
  <2>2. QED BY <1>0, <1>1, <2>1, QuietKeeps
<1>11. ASSUME NEW s \in Socket, HelloTimeout(s) PROVE Conn' /\ AskedAfterHello
  <2>1. /\ UNCHANGED <<ws, retried, reads, stored, writes, carried, peer, fate>>
        /\ wsState' = "connected" => wsState = "connected"
        /\ \/ UNCHANGED sock
           \/ ws # None /\ sock' = [sock EXCEPT ![ws] = "closing"]
    BY <1>11 DEF HelloTimeout, storage
  <2>2. \A q \in Socket : sock'[q] = "none" <=> sock[q] = "none"
    BY <1>0, <2>1 DEF Conn, SocketInv
  <2>3. QED BY <1>0, <1>1, <2>1, <2>2, QuietKeeps
<1>12. ASSUME NEW s \in Socket, BrokerReads(s) PROVE Conn' /\ AskedAfterHello
  <2>1. UNCHANGED <<wsState, ws, retried, reads, stored, writes, carried, sock>>
    BY <1>12 DEF BrokerReads, worker, storage
  <2>2. ws \in Socket /\ peer[ws] \in {"authed", "gone"} => peer'[ws] \in {"authed", "gone"}
    <3>1. Head(wire[s]) \in Frame BY <1>12, Shortened DEF BrokerReads, Typed, NetworkTyped
    <3>2. Head(wire[s]).kind \in {"request", "hello"} BY <3>1, Frames DEF Frame
    <3>3. \/ UNCHANGED peer
          \/ peer[s] = "waiting" /\ \E p \in PeerState : peer' = [peer EXCEPT ![s] = p]
      BY <1>12, <3>2 DEF BrokerReads, PeerState
    <3>4. QED BY <1>0, <3>3
  <2>3. AskedAfterHello
    BY <1>12, BrokerReadsOne DEF AskedAfterHello, Typed, WorldTyped
  <2>4. QED BY <1>0, <2>1, <2>2, <2>3, QuietKeeps
<1>13. ASSUME NEW r \in Request, SendNow(r) PROVE Conn' /\ AskedAfterHello
  <2>1. /\ UNCHANGED <<wsState, ws, retried, reads, stored, writes, carried, sock, peer>>
        /\ wsState = "connected"
    BY <1>13 DEF SendNow, CanSend, worker, storage
  <2>2. AskedAfterHello BY <2>1 DEF AskedAfterHello, Conn, SocketInv
  <2>3. QED BY <1>0, <2>1, <2>2, QuietKeeps
<1>14. CASE HoldExpires
  <2>1. UNCHANGED <<wsState, ws, retried, reads, stored, writes, carried, sock, peer>>
    BY <1>14 DEF HoldExpires, storage, network
  <2>2. AskedAfterHello BY <1>0, <1>14 DEF AskedAfterHello, HoldExpires
  <2>3. QED BY <1>0, <2>1, <2>2, QuietKeeps
<1>15. ASSUME NEW s \in Socket, BrokerTimesOut(s) PROVE Conn' /\ AskedAfterHello
  <2>1. /\ UNCHANGED <<wsState, ws, retried, reads, stored, writes, carried, sock, fate>>
        /\ peer' = [peer EXCEPT ![s] = "refused"] /\ peer[s] = "waiting"
    BY <1>15 DEF BrokerTimesOut, worker, storage
  <2>2. QED BY <1>0, <1>1, <2>1, QuietKeeps
<1>16. CASE BrokerStops \/ BrokerStarts \/ Revoked \/ UNCHANGED vars
  <2>1. /\ UNCHANGED <<wsState, ws, retried, reads, stored, writes, carried, sock, fate>>
        /\ UNCHANGED peer \/ peer' = [s \in Socket |-> "gone"]
    BY <1>16 DEF BrokerStops, BrokerStarts, Revoked, vars, worker, storage, network, world
  <2>2. QED BY <1>0, <1>1, <2>1, QuietKeeps
<1>18. QED
  BY <1>2, <1>3, <1>4, <1>5, <1>6, <1>7, <1>8, <1>9, <1>10, <1>11, <1>12, <1>13, <1>14, <1>15,
     <1>16, <1>17 DEF Next, Network

\* Until two calls overlap or a token is pasted in the life of a worker, it has
\* the one connection it knows of.
THEOREM ConnInvariant == Spec => [](doubled = 0 => Conn)
<1>1. Init => (doubled = 0 => Conn) BY InitConn
<1>2. IInv /\ (doubled = 0 => Conn) /\ [Next]_vars => (doubled = 0 => Conn)'
  <2> SUFFICES ASSUME Typed, doubled = 0 => Conn, [Next]_vars, doubled' = 0 PROVE Conn'
    BY DEF IInv
  <2>1. CASE Killed BY <2>1, KilledKeepsConn
  <2>2. CASE ~Killed
    <3>1. doubled = 0 BY <2>2, DoubledGrows DEF Typed, WorkerTyped
    <3>2. QED BY <3>1, ConnKept
  <2>3. QED BY <2>1, <2>2
<1>3. QED BY <1>1, <1>2, Invariant, PTL DEF Spec

\* The attempt that follows a refused token carries none.
THEOREM RetryCarriesNoTokenHolds == Spec => []RetryCarriesNoToken
<1>1. (doubled = 0 => Conn) => RetryCarriesNoToken
  <2> SUFFICES ASSUME Conn, retried, stored = None, ws # None PROVE carried[ws] = None
    BY DEF RetryCarriesNoToken
  <2>1. Due = {} BY DEF Conn, CallInv
  <2>2. QED BY <2>1 DEF Conn, TokenInv
<1>2. QED BY <1>1, ConnInvariant, PTL

\* The worker does not show itself as connected without a socket.
THEOREM ConnectedHasSocketHolds == Spec => []ConnectedHasSocket
<1>1. IInv /\ (doubled = 0 => Conn) => ConnectedHasSocket
  BY DEF IInv, Typed, WorkerTyped, ConnectedHasSocket, Conn, SocketInv
<1>2. QED BY <1>1, ConnInvariant, Invariant, PTL

\* No request is sent before the hello of its connection was granted.
THEOREM NeverBeforeHelloHolds == Spec => NeverBeforeHello
<1>1. IInv /\ (doubled = 0 => Conn) /\ [Next]_vars => [doubled = 0 => AskedAfterHello]_vars
  BY ConnKept DEF IInv
<1>2. Spec => [][doubled = 0 => AskedAfterHello]_vars BY <1>1, ConnInvariant, Invariant, PTL DEF Spec
<1>3. (doubled = 0 => AskedAfterHello) =>
        \A r \in Request : doubled = 0 /\ fate[r] # "sent" /\ fate'[r] = "sent"
            => ws # None /\ peer'[ws] \notin {"waiting", "refused"}
  BY DEF AskedAfterHello
<1>4. QED BY <1>2, <1>3, PTL DEF NeverBeforeHello

-----------------------------------------------------------------------------
(* How many sockets.                                                       *)

\* The sockets that exist, those told to close included.
Alive == {s \in Socket : sock[s] # "none"}

\* A socket, a pending call, or the room for one: each is the first or was paid
\* for by an overlap or a paste.
Room == IF ws = None /\ Callers = 0 THEN 1 ELSE 0

CountInv ==
    /\ IsFiniteSet(Alive)
    /\ Cardinality(Alive) + Callers + Room <= 1 + doubled
    /\ ws # None => sock[ws] # "none"

LEMMA DueAppended ==
    ASSUME Typed, NEW w \in Write, writes' = Append(writes, w)
    PROVE  /\ IsFiniteSet(Due')
           /\ Cardinality(Due') = Cardinality(Due) + (IF w.then = "nothing" THEN 0 ELSE 1)
<1>1. writes \in Seq(Write) /\ Len(writes) \in Nat BY DEF Typed, StorageTyped
<1>2. /\ Len(writes') = Len(writes) + 1
      /\ \A n \in 1..Len(writes) : writes'[n] = writes[n]
      /\ writes'[Len(writes) + 1] = w
  BY <1>1, AppendProperties
<1>3. \A n : n \in 1..Len(writes') <=> n \in 1..Len(writes) \/ n = Len(writes) + 1
  BY <1>1, <1>2
<1>4. IsFiniteSet(Due) BY CallersCounted
<1>5. Len(writes) + 1 \notin Due BY <1>1 DEF Due
<1>6. CASE w.then = "nothing"
  <2>1. Due' = Due BY <1>2, <1>3, <1>6 DEF Due
  <2>2. Cardinality(Due) \in Nat BY CallersCounted
  <2>3. QED BY <1>4, <1>6, <2>1, <2>2
<1>7. CASE w.then # "nothing"
  <2>1. Due' = Due \cup {Len(writes) + 1} BY <1>2, <1>3, <1>7 DEF Due
  <2>2. QED BY <1>4, <1>5, <1>7, <2>1, FS_AddElement
<1>8. QED BY <1>6, <1>7

LEMMA DueTaken ==
    ASSUME Typed, writes # <<>>, writes' = Tail(writes)
    PROVE  /\ IsFiniteSet(Due')
           /\ Cardinality(Due') = Cardinality(Due) - (IF Head(writes).then = "nothing" THEN 0 ELSE 1)
<1>1. /\ Len(writes') = Len(writes) - 1
      /\ \A n \in 1..Len(writes') : writes'[n] = writes[n + 1]
      /\ Head(writes) = writes[1] /\ Len(writes) \in Nat \ {0} /\ Len(writes') \in Nat
  BY HeadTailProperties, EmptySeq DEF Typed, StorageTyped
<1>2. IsFiniteSet(Due) /\ Cardinality(Due) \in Nat BY CallersCounted
<1> DEFINE rest == Due \ {1}
           shift == [n \in rest |-> n - 1]
<1>3. \A n \in rest : n \in 2..Len(writes) /\ n - 1 \in 1..Len(writes') /\ (n - 1) + 1 = n
  BY <1>1 DEF Due
<1>4. \A n \in rest : n - 1 \in Due' BY <1>1, <1>3 DEF Due
<1>5. \A m \in Due' : m \in 1..Len(writes') /\ m + 1 \in rest /\ (m + 1) - 1 = m
  BY <1>1 DEF Due
<1>6. \A a, b \in rest : a - 1 = b - 1 => a = b BY <1>3
<1>7. shift \in [rest -> Due'] BY <1>4
<1>8. \A a, b \in rest : shift[a] = shift[b] => a = b BY <1>6
<1>9. \A m \in Due' : \E n \in rest : shift[n] = m BY <1>5
<1>10. shift \in Bijection(rest, Due')
  BY <1>7, <1>8, <1>9 DEF Bijection, Injection, IsInjective, Surjection
<1>11. ExistsBijection(rest, Due') BY <1>10 DEF ExistsBijection
<1>12. /\ IsFiniteSet(rest)
       /\ Cardinality(rest) = IF 1 \in Due THEN Cardinality(Due) - 1 ELSE Cardinality(Due)
  BY <1>2, FS_RemoveElement
<1>13. IsFiniteSet(Due') /\ Cardinality(Due') = Cardinality(rest) BY <1>11, <1>12, FS_Bijection
<1>14. 1 \in Due <=> Head(writes).then # "nothing" BY <1>1 DEF Due
<1>15. QED BY <1>2, <1>12, <1>13, <1>14

\* A step that adds no socket and no call, and takes none away.
LEMMA CountStays ==
    ASSUME Typed, CountInv, UNCHANGED <<ws, doubled>>, Callers' = Callers,
           \A s \in Socket : sock'[s] = "none" <=> sock[s] = "none",
           ws \in Socket \cup {None}
    PROVE  CountInv'
<1>1. Alive' = Alive BY DEF Alive
<1>2. Room' = Room BY DEF Room
<1>3. QED BY <1>1, <1>2 DEF CountInv

LEMMA CallCounted ==
    ASSUME Typed, CountInv, Calls, UNCHANGED <<ws, writes, sock>>
    PROVE  CountInv'
<1>1. Alive' = Alive /\ Due' = Due BY DEF Alive, Due
<1>2. Callers' = reads' + Cardinality(Due) BY <1>1 DEF Callers
<1>3. Cardinality(Alive) \in Nat BY FS_CardinalityType DEF CountInv
<1>4. doubled \in Nat BY DEF Typed, WorkerTyped
<1>5. CASE ~GoesOn
  <2>1. Callers' = Callers /\ doubled' = doubled
    BY <1>2, <1>5, CallersCounted DEF Calls, ConnectIfNeeded
  <2>2. Room' = Room BY <2>1 DEF Room
  <2>3. QED BY <1>1, <2>1, <2>2 DEF CountInv
<1>6. CASE GoesOn
  <2>1. Callers' = Callers + 1 /\ ws = None
    BY <1>2, <1>6, CallersCounted DEF Calls, ConnectIfNeeded, GoesOn
  <2>2. Room' = 0 BY <2>1, CallersCounted DEF Room
  <2>3. CASE Callers = 0
    <3>1. Room = 1 /\ doubled' = doubled BY <1>6, <2>1, <2>3, CallersCounted DEF Room, Calls
    <3>2. QED BY <1>1, <1>3, <1>4, <2>1, <2>2, <2>3, <3>1 DEF CountInv
  <2>4. CASE Callers # 0
    <3>1. Room = 0 /\ doubled' = doubled + 1
      BY <1>6, <2>4, CallersCounted DEF Room, Calls
    <3>2. QED BY <1>1, <1>3, <1>4, <2>1, <2>2, <3>1, CallersCounted DEF CountInv
  <2>5. QED BY <2>3, <2>4
<1>7. QED BY <1>5, <1>6

\* A call becomes a socket, or ends without one.
LEMMA ReadCounted ==
    ASSUME Typed, CountInv, TokenUnread \/ SocketThrows \/ \E s \in Socket : TokenRead(s)
    PROVE  CountInv'
<1>0. Due' = Due /\ doubled' = doubled
  BY DEF Due, TokenUnread, SocketThrows, TokenRead, storage
<1>1. Callers' = Callers - 1 /\ Callers \in Nat \ {0}
  BY <1>0, CallersCounted DEF Callers, TokenUnread, SocketThrows, TokenRead
<1>2. Cardinality(Alive) \in Nat /\ doubled \in Nat
  BY FS_CardinalityType DEF CountInv, Typed, WorkerTyped
<1>3. Room = 0 BY <1>1 DEF Room
<1>4. CASE TokenUnread \/ SocketThrows
  <2>1. Alive' = Alive /\ Room' \in {0, 1} /\ ws' \in {ws, None} /\ sock' = sock
    BY <1>4 DEF Alive, Room, TokenUnread, SocketThrows, network
  <2>2. QED BY <1>0, <1>1, <1>2, <1>3, <2>1 DEF CountInv
<1>5. ASSUME NEW s \in Socket, TokenRead(s) PROVE CountInv'
  <2>1. /\ ws' = s /\ s # None /\ s \notin Alive
        /\ sock' = [sock EXCEPT ![s] = "connecting"] /\ sock'[s] = "connecting"
    BY <1>5, ServiceWorkerAssumption DEF TokenRead, Alive, Typed, NetworkTyped
  <2>2. Alive' = Alive \cup {s} BY <2>1 DEF Alive, Typed, NetworkTyped
  <2>3. IsFiniteSet(Alive') /\ Cardinality(Alive') = Cardinality(Alive) + 1
    BY <2>1, <2>2, FS_AddElement DEF CountInv
  <2>4. Room' = 0 BY <2>1 DEF Room
  <2>5. QED BY <1>0, <1>1, <1>2, <1>3, <2>1, <2>3, <2>4 DEF CountInv
<1>6. QED BY <1>4, <1>5

\* A socket goes, and leaves room for a call or is followed by one.
LEMMA CloseCounted ==
    ASSUME Typed, CountInv, NEW s \in Socket, SocketCloses(s)
    PROVE  CountInv'
<1>1. PICK code \in {"4401", "other"} : CloseListener(s, code) BY DEF SocketCloses
<1>2. ws' = None /\ doubled' = doubled /\ s \in Alive /\ sock' = [sock EXCEPT ![s] = "none"]
  BY <1>1 DEF SocketCloses, CloseListener, Alive
<1>3. Alive' = Alive \ {s} BY <1>2 DEF Alive, Typed, NetworkTyped
<1>4. /\ IsFiniteSet(Alive') /\ Cardinality(Alive') = Cardinality(Alive) - 1
      /\ Cardinality(Alive) \in Nat /\ Cardinality(Alive') \in Nat /\ doubled \in Nat
  BY <1>2, <1>3, FS_RemoveElement, FS_CardinalityType DEF CountInv, Typed, WorkerTyped
<1>5. Room \in {0, 1} BY DEF Room
<1>6. CASE RetryDue(s, code)
  <2>1. reads' = reads /\ writes' = Append(writes, [token |-> None, then |-> "retry"])
    BY <1>1, <1>6 DEF CloseListener, Retry
  <2>2. [token |-> None, then |-> "retry"] \in Write BY DEF Write, Then
  <2>3. Cardinality(Due') = Cardinality(Due) + 1 BY <2>1, <2>2, DueAppended
  <2>4. Callers' = Callers + 1 BY <2>1, <2>3, CallersCounted DEF Callers
  <2>5. Callers \in Nat /\ Room' = 0 BY <2>4, CallersCounted DEF Room
  <2>6. Cardinality(Alive') + Callers' + Room' <= 1 + doubled'
    BY <1>2, <1>4, <1>5, <2>4, <2>5 DEF CountInv
  <2>7. QED BY <1>2, <1>4, <2>6 DEF CountInv
<1>7. CASE ~RetryDue(s, code)
  <2>1. UNCHANGED <<reads, writes>> /\ Due' = Due
    BY <1>1, <1>7 DEF CloseListener, NoRetry, Due
  <2>2. Callers' = Callers /\ Callers \in Nat /\ Room' \in {0, 1}
    BY <2>1, CallersCounted DEF Callers, Room
  <2>3. Cardinality(Alive') + Callers' + Room' <= 1 + doubled'
    BY <1>2, <1>4, <1>5, <2>2 DEF CountInv
  <2>4. QED BY <1>2, <1>4, <2>3 DEF CountInv
<1>8. QED BY <1>6, <1>7

LEMMA SettleCounted ==
    ASSUME Typed, CountInv, WriteSettles PROVE CountInv'
<1>1. /\ IsFiniteSet(Due')
      /\ Cardinality(Due') = Cardinality(Due) - (IF Head(writes).then = "nothing" THEN 0 ELSE 1)
      /\ doubled' = doubled
  BY DueTaken DEF WriteSettles
<1>2. Cardinality(Due') \in Nat /\ Cardinality(Due) \in Nat /\ reads \in Nat
  BY <1>1, CallersCounted, FS_CardinalityType
<1>3. Callers = reads + Cardinality(Due) /\ Callers' = reads' + Cardinality(Due') BY DEF Callers
<1>4. Cardinality(Alive) \in Nat /\ doubled \in Nat /\ ws \in Socket \cup {None} /\ None \notin Socket
  BY FS_CardinalityType, ServiceWorkerAssumption DEF CountInv, Typed, WorkerTyped
<1>5. Head(writes).then \in {"nothing", "retry", "force"}
  BY WritesTyped DEF Typed, StorageTyped, WriteSettles, Then
<1>6. CASE Head(writes).then = "nothing"
  <2>1. UNCHANGED <<ws, reads, sock>> BY <1>6 DEF WriteSettles
  <2>2. Callers' = Callers BY <1>1, <1>2, <1>3, <1>6, <2>1
  <2>3. QED BY <1>1, <1>4, <2>1, <2>2, CountStays
<1>7. CASE Head(writes).then = "retry"
  <2>1. ConnectIfNeeded /\ UNCHANGED <<wsState, ws, sock>> BY <1>7 DEF WriteSettles
  <2>a. Cardinality(Due') = Cardinality(Due) - 1 BY <1>1, <1>7
  <2>2. Callers # 0 BY <1>2, <1>3, <2>a
  <2>3. Room = 0 /\ Room' \in {0, 1} /\ Alive' = Alive BY <2>1, <2>2 DEF Room, Alive
  <2>4. CASE GoesOn
    <3>1. Callers' = Callers BY <1>1, <1>2, <1>3, <1>7, <2>1, <2>4 DEF ConnectIfNeeded
    <3>2. QED BY <1>1, <1>4, <2>1, <3>1, CountStays
  <2>5. CASE ~GoesOn
    <3>1. Callers' = Callers - 1 BY <1>1, <1>2, <1>3, <1>7, <2>1, <2>5 DEF ConnectIfNeeded
    <3>2. QED BY <1>1, <1>2, <1>3, <1>4, <2>1, <2>3, <3>1 DEF CountInv
  <2>6. QED BY <2>4, <2>5
<1>8. CASE Head(writes).then = "force"
  <2>1. ForceReconnect BY <1>8 DEF WriteSettles
  <2>2. Callers' = Callers /\ Callers # 0 BY <1>1, <1>2, <1>3, <1>8, <2>1 DEF ForceReconnect
  <2>3. Room = 0 /\ Room' = 0 /\ ws' = None BY <2>1, <2>2 DEF Room, ForceReconnect
  <2>4. Alive' = Alive
    BY <1>4, <2>1 DEF ForceReconnect, Alive, CountInv, Typed, NetworkTyped
  <2>5. QED BY <1>1, <2>2, <2>3, <2>4 DEF CountInv
<1>9. QED BY <1>5, <1>6, <1>7, <1>8

LEMMA PasteCounted ==
    ASSUME Typed, CountInv, NEW t \in {"secret", "wrong", None}, SetToken(t) PROVE CountInv'
<1>1. /\ UNCHANGED <<ws, reads, sock>> /\ doubled' = doubled + 1
      /\ writes' = Append(writes, [token |-> t, then |-> "force"])
  BY DEF SetToken, network
<1>2. [token |-> t, then |-> "force"] \in Write BY DEF Write, Then, Token
<1>3. Cardinality(Due') = Cardinality(Due) + 1 BY <1>1, <1>2, DueAppended
<1>4. Callers' = Callers + 1 BY <1>1, <1>3, CallersCounted DEF Callers
<1>5. Room' = 0 /\ Room \in {0, 1} /\ Alive' = Alive BY <1>1, <1>4, CallersCounted DEF Room, Alive
<1>6. Cardinality(Alive) \in Nat /\ doubled \in Nat
  BY FS_CardinalityType DEF CountInv, Typed, WorkerTyped
<1>7. Callers \in Nat BY CallersCounted
<1>8. Cardinality(Alive') + Callers' + Room' <= 1 + doubled'
  BY <1>1, <1>4, <1>5, <1>6, <1>7 DEF CountInv
<1>9. QED BY <1>1, <1>5, <1>8 DEF CountInv

LEMMA KillCounted ==
    ASSUME Killed PROVE CountInv'
<1>1. /\ reads' = 0 /\ writes' = <<>> /\ ws' = None /\ doubled' = 0
      /\ sock' = [s \in Socket |-> "none"]
  BY DEF Killed
<1>2. Due' = {} BY <1>1, EmptySeq DEF Due
<1>3. Alive' = {} BY <1>1 DEF Alive
<1>4. Callers' = 0 BY <1>1, <1>2, FS_EmptySet DEF Callers
<1>5. QED BY <1>1, <1>3, <1>4, FS_EmptySet DEF CountInv, Room

LEMMA InitCounted == Init => CountInv
<1> SUFFICES ASSUME Init PROVE CountInv OBVIOUS
<1>1. Due = {} BY EmptySeq DEF Due, Init
<1>2. Alive = {} BY DEF Alive, Init
<1>3. Callers = 0 BY <1>1, FS_EmptySet DEF Callers, Init
<1>4. QED BY <1>2, <1>3, FS_EmptySet DEF CountInv, Room, Init

LEMMA CountKept == Typed /\ CountInv /\ [Next]_vars => CountInv'
<1> SUFFICES ASSUME Typed, CountInv, [Next]_vars PROVE CountInv' OBVIOUS
<1>0. /\ ws \in Socket \cup {None} /\ None \notin Socket /\ sock \in [Socket -> ReadyState]
      /\ IsFiniteSet(Due) /\ Cardinality(Due) \in Nat
  BY ServiceWorkerAssumption, CallersCounted DEF Typed, WorkerTyped, NetworkTyped
<1>1. ASSUME UNCHANGED <<ws, doubled, reads, writes>>,
             \A s \in Socket : sock'[s] = "none" <=> sock[s] = "none"
      PROVE  CountInv'
  <2>1. Callers' = Callers BY <1>1 DEF Callers, Due
  <2>2. QED BY <1>0, <1>1, <2>1, CountStays
<1>2. CASE Nudge \/ BackoffFires \/ \E r \in Request : Hold(r)
  <2>1. Calls /\ UNCHANGED <<ws, writes, sock>>
    BY <1>2 DEF Nudge, BackoffFires, Hold, storage, network
  <2>2. QED BY <2>1, CallCounted
<1>3. CASE TokenUnread \/ SocketThrows \/ \E s \in Socket : TokenRead(s) BY <1>3, ReadCounted
<1>4. ASSUME NEW s \in Socket, SocketCloses(s) PROVE CountInv' BY <1>4, CloseCounted
<1>5. CASE WriteSettles BY <1>5, SettleCounted
<1>6. ASSUME NEW t \in {"secret", "wrong", None}, SetToken(t) PROVE CountInv' BY <1>6, PasteCounted
<1>7. CASE Killed BY <1>7, KillCounted
<1>8. ASSUME NEW s \in Socket, HelloOk(s) PROVE CountInv'
  <2>1. /\ UNCHANGED <<ws, doubled, reads, sock>>
        /\ writes' = Append(writes, [token |-> "session", then |-> "nothing"])
    BY <1>8 DEF HelloOk
  <2>2. [token |-> "session", then |-> "nothing"] \in Write BY DEF Write, Then, Token
  <2>3. Cardinality(Due') = Cardinality(Due) BY <1>0, <2>1, <2>2, DueAppended
  <2>4. Callers' = Callers BY <2>1, <2>3 DEF Callers
  <2>5. QED BY <1>0, <2>1, <2>4, CountStays
<1>9. ASSUME NEW s \in Socket, SocketOpens(s) \/ HelloTimeout(s) PROVE CountInv'
  <2>1. /\ UNCHANGED <<ws, doubled, reads, writes>>
        /\ \/ UNCHANGED sock
           \/ sock[s] = "connecting" /\ sock' = [sock EXCEPT ![s] = "open"]
           \/ ws # None /\ sock' = [sock EXCEPT ![ws] = "closing"]
    BY <1>9 DEF SocketOpens, HelloTimeout, storage
  <2>2. \A q \in Socket : sock'[q] = "none" <=> sock[q] = "none"
    BY <1>0, <2>1 DEF CountInv
  <2>3. QED BY <1>1, <2>1, <2>2
<1>10. CASE \/ \E s \in Socket : BrokerReads(s) \/ BrokerTimesOut(s)
            \/ \E r \in Request : SendNow(r)
            \/ HoldExpires \/ BrokerStops \/ BrokerStarts \/ Revoked \/ UNCHANGED vars
  <2>1. UNCHANGED <<ws, doubled, reads, writes, sock>>
    BY <1>10 DEF BrokerReads, BrokerTimesOut, SendNow, HoldExpires, BrokerStops, BrokerStarts,
                 Revoked, vars, worker, storage, network
  <2>2. QED BY <1>1, <2>1
<1>11. QED
  BY <1>2, <1>3, <1>4, <1>5, <1>6, <1>7, <1>8, <1>9, <1>10 DEF Next, Network

\* With any number of overlapping calls and pastes: each adds one socket at
\* most, and neither refusals nor closes that clear another socket's `ws` do.
THEOREM SocketsCountedHolds == Spec => []SocketsCounted
<1>1. IInv /\ CountInv /\ [Next]_vars => CountInv' BY CountKept DEF IInv
<1>2. IInv /\ CountInv => SocketsCounted
  <2> SUFFICES ASSUME Typed, CountInv PROVE SocketsCounted BY DEF IInv
  <2>1. Cardinality(Alive) \in Nat /\ Callers \in Nat /\ doubled \in Nat /\ Room \in {0, 1}
    BY FS_CardinalityType, CallersCounted DEF CountInv, Typed, WorkerTyped, Room
  <2>2. Cardinality(Alive) <= 1 + doubled BY <2>1 DEF CountInv
  <2>3. QED BY <2>2 DEF SocketsCounted, Alive
<1>3. QED BY InitCounted, <1>1, <1>2, Invariant, PTL DEF Spec
=============================================================================
