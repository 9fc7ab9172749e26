-------------------------------- MODULE Panel --------------------------------
(***************************************************************************)
(* The side panels (extension/panel/panel.js): the conversation, the       *)
(* active request and its watch, cancelling, erasing, the replay after a   *)
(* session expired, and the action stashed by the context menu             *)
(* (extension/background/service-worker.js).                               *)
(*                                                                         *)
(* One browser window has one panel; they share chrome.storage and the     *)
(* service worker, and each hears every broadcast.  A callback, or a piece *)
(* of an async function between two awaits, is one action.                 *)
(*                                                                         *)
(* The worker and the broker are what the panel is promised of them: a     *)
(* request gets chunks and then one terminal (RequestContract), unless it  *)
(* is lost with its worker or its socket.  Durations are left out: a       *)
(* request held by the worker and then streamed may outlast the deadline.  *)
(*                                                                         *)
(* A conversation is what is shown under each request's id.  User messages *)
(* and notices under ids of their own, the expiry of old messages, the     *)
(* prompt list and the provider's status only change the display and are   *)
(* left out.                                                               *)
(***************************************************************************)
EXTENDS Naturals, Sequences, FiniteSets

CONSTANTS
    Panel,      \* the panel documents
    Id,         \* request ids: crypto.randomUUID() numbered in the order they are drawn
    None,       \* "no request", "no worker instance"
    Pending,    \* activeRequestId while summarize reads the page
    MaxReads,   \* bound: suspended sendChat and summarize, together, per panel
    MaxEvents   \* bound: context menu actions, socket drops and worker kills, together,
                \* a kill of the worker that stashes an action not counted

ASSUME PanelAssumption ==
    /\ Id \subseteq Nat /\ None \notin Id /\ Pending \notin Id /\ None # Pending
    /\ {MaxReads, MaxEvents} \subseteq Nat

VARIABLES
    \* one panel
    phase,     \* [Panel -> Phase]
    active,    \* activeRequestId
    shown,     \* conversation: [Panel -> [Id -> Message]]
    watch,     \* the armed deadline and heartbeat: [Panel -> Watch]
    acks,      \* answers of the worker to sendMessage, on their way
    retries,   \* the keys of pendingRetries
    chats,     \* sendChat calls waiting for the page
    summaries, \* summarize calls waiting for the page
    transcripts, \* summarize calls waiting for the transcript of a video
    gets,      \* drainPendingAction calls waiting for storage.session.get
    taken,     \* those waiting for remove: what each one read
    erased,    \* history: the ids drawn before the last erasing, and not replayed since
    \* shared
    disk,      \* the conversation of chrome.storage.local
    stash,     \* the pending action of chrome.storage.session, 0 if none
    clicks,    \* actions picked in the context menu
    stashed,   \* how many of them were written to the stash
    fired,     \* [action -> requests it became]
    lot,       \* history: what became of each action: [Click -> Lot]
    worker,    \* the instance of the service worker
    link,      \* the last status the worker broadcast
    drops,     \* how often the socket dropped
    flight     \* [Id -> Flight]

reading == <<chats, summaries, transcripts>>
doc == <<phase, active, shown, watch, acks, retries, reading, gets, taken, erased>>
menu == <<stash, clicks, stashed, fired, lot>>
net == <<worker, link, drops>>
vars == <<doc, disk, menu, net, flight>>

\* loading: waits for loadConversation.  listening: the rest of init, up to
\* drainPendingAction, is still to come.
Phase == {"closed", "loading", "listening", "open"}
Listens(p) == phase[p] \in {"listening", "open"}

\* text: some text of the model's.  blank: none yet, or a notice instead.
Message == [streaming : BOOLEAN, auth : BOOLEAN, body : {"absent", "blank", "text"}]
Absent == [streaming |-> FALSE, auth |-> FALSE, body |-> "absent"]
Awaited == [streaming |-> TRUE, auth |-> FALSE, body |-> "blank"]

\* What the broker, or the worker that holds it, makes of a request.
\* held: by the worker, until there is a socket again.
Flight == {"unsent", "held", "flying", "over", "lost"}
UnderWay(i) == flight[i] \in {"held", "flying"}
NewId(i) == flight[i] = "unsent" /\ \A j \in Id : j < i => flight[j] # "unsent"

Instance == 1..MaxEvents + MaxEvents + 1
Events == worker - 1 + drops + clicks

\* An action of the context menu: in the stash and broadcast, there with nobody
\* told, read by a drain, or gone before any drain has read it.
Click == 1..MaxEvents
Lot == {"none", "stashed", "silent", "read", "lost"}

Watch == [id : Id \cup {None}, worker : Instance \cup {None}]
NoWatch == [id |-> None, worker |-> None]

\* Where a panel document starts from.
Fresh(p) ==
    /\ active' = [active EXCEPT ![p] = None]
    /\ shown' = [shown EXCEPT ![p] = [i \in Id |-> Absent]]
    /\ watch' = [watch EXCEPT ![p] = NoWatch]
    /\ acks' = [acks EXCEPT ![p] = <<>>]
    /\ retries' = [retries EXCEPT ![p] = {}]
    /\ chats' = [chats EXCEPT ![p] = 0]
    /\ summaries' = [summaries EXCEPT ![p] = 0]
    /\ transcripts' = [transcripts EXCEPT ![p] = 0]
    /\ gets' = [gets EXCEPT ![p] = 0]
    /\ taken' = [taken EXCEPT ![p] = <<>>]
    /\ erased' = [erased EXCEPT ![p] = {}]

Init ==
    /\ phase = [p \in Panel |-> "closed"]
    /\ active = [p \in Panel |-> None]
    /\ shown = [p \in Panel |-> [i \in Id |-> Absent]]
    /\ watch = [p \in Panel |-> NoWatch]
    /\ acks = [p \in Panel |-> <<>>]
    /\ retries = [p \in Panel |-> {}]
    /\ chats = [p \in Panel |-> 0]
    /\ summaries = [p \in Panel |-> 0] /\ transcripts = [p \in Panel |-> 0]
    /\ gets = [p \in Panel |-> 0] /\ taken = [p \in Panel |-> <<>>]
    /\ erased = [p \in Panel |-> {}]
    /\ disk = [i \in Id |-> Absent]
    /\ stash = 0 /\ clicks = 0 /\ stashed = 0 /\ fired = [a \in Click |-> 0]
    /\ lot = [a \in Click |-> "none"]
    /\ worker = 1 /\ link = "connected" /\ drops = 0
    /\ flight = [i \in Id |-> "unsent"]

-----------------------------------------------------------------------------
(* The panel document: init, and the end of its life.                      *)

Open(p) ==
    /\ phase[p] = "closed"
    /\ phase' = [phase EXCEPT ![p] = "loading"]
    /\ UNCHANGED <<active, shown, watch, acks, retries, reading, gets, taken, erased,
                   disk, menu, net, flight>>

\* The user closes the side panel.
Close(p) ==
    /\ phase[p] # "closed"
    /\ phase' = [phase EXCEPT ![p] = "closed"]
    /\ Fresh(p)
    /\ UNCHANGED <<disk, menu, net, flight>>

Load(p) ==
    /\ phase[p] = "loading"
    /\ phase' = [phase EXCEPT ![p] = "listening"]
    /\ shown' = [shown EXCEPT ![p] = disk]
    /\ UNCHANGED <<active, watch, acks, retries, reading, gets, taken, erased, disk, menu,
                   net, flight>>

\* setStreamingUi(false) of the panels in P.
Unlock(P) ==
    /\ active' = [p \in Panel |-> IF p \in P THEN None ELSE active[p]]
    /\ watch' = [p \in Panel |-> IF p \in P THEN NoWatch ELSE watch[p]]

\* applyStatus: only a lost connection matters here.
ApplyStatus(P, state) ==
    IF state = "disconnected" THEN Unlock(P) ELSE UNCHANGED <<active, watch>>

\* The answer to panel-ready (a worker that it woke has no socket yet), a look
\* at the tab, then drainPendingAction.  (Mutant: only the broadcast drains.)
PanelReadyAlone(p) ==
    /\ phase[p] = "listening"
    /\ phase' = [phase EXCEPT ![p] = "open"]
    /\ \E state \in {link, "disconnected"} : ApplyStatus({p}, state)
    /\ UNCHANGED <<shown, acks, retries, reading, gets, taken, erased, disk, menu, net, flight>>
PanelReady(p) ==
    /\ phase[p] = "listening"
    /\ phase' = [phase EXCEPT ![p] = "open"]
    /\ \E state \in {link, "disconnected"} : ApplyStatus({p}, state)
    /\ gets' = [gets EXCEPT ![p] = @ + 1]
    /\ UNCHANGED <<shown, acks, retries, reading, taken, erased, disk, menu, net, flight>>

-----------------------------------------------------------------------------
(* Sending.                                                                *)

\* sendClientMessage, up to its await: the worker takes the request and
\* answers with its instance, or was not there to take it.
Hands(p, i) ==
    \/ /\ acks' = [acks EXCEPT ![p] = Append(@, [id |-> i, worker |-> worker])]
       /\ flight' = [flight EXCEPT ![i] = IF link = "connected" THEN "flying" ELSE "held"]
    \/ /\ acks' = [acks EXCEPT ![p] = Append(@, [id |-> i, worker |-> None])]
       /\ flight' = [flight EXCEPT ![i] = "lost"]

\* What sendChat, summarize, runAct and retryRequest end with.
Sends(p, i) ==
    /\ shown' = [shown EXCEPT ![p][i] = Awaited]
    /\ active' = [active EXCEPT ![p] = i]
    /\ disk' = shown'[p]
    /\ retries' = [retries EXCEPT ![p] = @ \cup {i}]
    /\ Hands(p, i)

\* sendChat without the page.
SendChat(p, i) ==
    /\ Listens(p) /\ active[p] = None
    /\ NewId(i)
    /\ Sends(p, i)
    /\ UNCHANGED <<phase, watch, reading, gets, taken, erased, menu, net>>

\* sendChat with the page, up to its await.
MayRead(p) == chats[p] + summaries[p] + transcripts[p] < MaxReads
SendChatReads(p) ==
    /\ Listens(p) /\ active[p] = None
    /\ MayRead(p)
    /\ chats' = [chats EXCEPT ![p] = @ + 1]
    /\ UNCHANGED <<phase, active, shown, watch, acks, retries, summaries, transcripts,
                   gets, taken, erased, disk, menu, net, flight>>

\* After the await; activeRequestId is not looked at again.
SendChatGoesOn(p) ==
    /\ chats[p] > 0
    /\ chats' = [chats EXCEPT ![p] = @ - 1]
    /\ \/ \E i \in Id : NewId(i) /\ Sends(p, i)
       \/ UNCHANGED <<active, shown, acks, retries, disk, flight>>
    /\ UNCHANGED <<phase, watch, summaries, transcripts, gets, taken, erased, menu, net>>

\* summarize, up to its await, or to the end when there is no tab to read.
Summarize(p) ==
    /\ Listens(p) /\ active[p] = None
    /\ \/ /\ MayRead(p)
          /\ active' = [active EXCEPT ![p] = Pending]
          /\ summaries' = [summaries EXCEPT ![p] = @ + 1]
          /\ UNCHANGED watch
       \/ Unlock({p}) /\ UNCHANGED summaries
    /\ UNCHANGED <<phase, shown, acks, retries, chats, transcripts, gets, taken, erased,
                   disk, menu, net, flight>>

\* It ends: the request is sent, whatever became of activeRequestId, or
\* nothing readable was found, and the panel is unlocked.
SummarizeEnds(p) ==
    \/ /\ \E i \in Id : NewId(i) /\ Sends(p, i)
       /\ UNCHANGED watch
    \/ /\ Unlock({p})
       /\ UNCHANGED <<shown, acks, retries, disk, flight>>

\* After the page is read; a video's transcript may have to be opened first.
SummarizeGoesOn(p) ==
    /\ summaries[p] > 0
    /\ summaries' = [summaries EXCEPT ![p] = @ - 1]
    /\ \/ SummarizeEnds(p) /\ UNCHANGED transcripts
       \/ /\ transcripts' = [transcripts EXCEPT ![p] = @ + 1]
          /\ UNCHANGED <<active, shown, watch, acks, retries, disk, flight>>
    /\ UNCHANGED <<phase, chats, gets, taken, erased, menu, net>>

\* openYouTubeTranscript answers, and the page was read again.
TranscriptOpened(p) ==
    /\ transcripts[p] > 0
    /\ transcripts' = [transcripts EXCEPT ![p] = @ - 1]
    /\ SummarizeEnds(p)
    /\ UNCHANGED <<phase, chats, summaries, gets, taken, erased, menu, net>>

\* sendClientMessage, after its await: startRequestWatch.  (Mutants: the worker
\* is the first one ever seen; nothing is armed when the worker did not answer;
\* or when a watch is armed.)
WatchesFirstWorker(p, a) == watch' = [watch EXCEPT ![p] = [a EXCEPT !.worker = 1]]
WatchesIfAnswered(p, a) == watch' = [watch EXCEPT ![p] = IF a.worker = None THEN @ ELSE a]
WatchesOnce(p, a) == watch' = [watch EXCEPT ![p] = IF @.id # None THEN @ ELSE a]
StartRequestWatch(p, a) == watch' = [watch EXCEPT ![p] = a]

Ack(p) ==
    /\ acks[p] # <<>>
    /\ acks' = [acks EXCEPT ![p] = Tail(@)]
    /\ StartRequestWatch(p, Head(acks[p]))
    /\ UNCHANGED <<phase, active, shown, retries, reading, gets, taken, erased, disk,
                   menu, net, flight>>

\* retryRequest, from the button of a message whose session had expired.
Retry(p, i) ==
    /\ Listens(p) /\ active[p] = None
    /\ shown[p][i].auth /\ i \in retries[p]
    /\ Sends(p, i)
    /\ erased' = [q \in Panel |-> erased[q] \ {i}]
    /\ UNCHANGED <<phase, watch, reading, gets, taken, menu, net>>

-----------------------------------------------------------------------------
(* Giving up.                                                              *)

\* A message that no longer streams.
Settled(m) == [m EXCEPT !.streaming = FALSE]

\* The request of panel p, on screen.
AbandonShown(p) ==
    [shown EXCEPT ![p] = [i \in Id |-> IF i = active[p] THEN Settled(@[i]) ELSE @[i]]]

CancelActive(p) ==
    /\ active[p] # None
    /\ shown' = AbandonShown(p)
    /\ retries' = [retries EXCEPT ![p] = @ \ {active[p]}]
    /\ Unlock({p})
    /\ disk' = shown'[p]
    /\ UNCHANGED <<phase, acks, reading, gets, taken, erased, menu, net, flight>>

\* The second click of the erase button; cancelActive comes first, and what
\* it leaves is wiped.  Storage is emptied, then written.
EraseConversation(p) ==
    /\ Listens(p)
    /\ Unlock({p})
    /\ shown' = [shown EXCEPT ![p] = [i \in Id |-> Absent]]
    /\ retries' = [retries EXCEPT ![p] = {}]
    /\ disk' = shown'[p]
    /\ erased' = [erased EXCEPT ![p] = {i \in Id : flight[i] # "unsent"}]
    /\ UNCHANGED <<phase, acks, reading, gets, taken, menu, net, flight>>

\* failActiveRequest: pendingRetries keeps its entry.
FailActiveRequest(p) ==
    /\ shown' = AbandonShown(p)
    /\ Unlock({p})
    /\ disk' = shown'[p]
    /\ UNCHANGED <<phase, acks, retries, reading, gets, taken, erased, menu, net, flight>>

\* The deadline of a request that is still the active one.
Deadline(p) ==
    /\ watch[p].id # None
    /\ active[p] = watch[p].id
    /\ FailActiveRequest(p)

\* checkWorkerAlive: the worker that took the request is not the one that runs.
WorkerChanged(p) ==
    /\ watch[p].id # None
    /\ active[p] = watch[p].id
    /\ watch[p].worker \notin {None, worker}
HeartbeatFails(p) == WorkerChanged(p) /\ FailActiveRequest(p)

-----------------------------------------------------------------------------
(* What the worker broadcasts: each listening panel handles it.            *)

Hearers == {p \in Panel : Listens(p)}

\* The worker answers sendMessage in the turn in which it takes the request:
\* no message of the broker about it overtakes that.
Acked(i) == \A p \in Panel : \A n \in 1..Len(acks[p]) : acks[p][n].id # i

\* Each hearer's message i becomes New(message); the hearers whose active
\* request it was are unlocked if it is over, and all of them save, in any order.
Shows(i, New(_)) ==
    shown' = [p \in Panel |-> IF p \in Hearers THEN [shown[p] EXCEPT ![i] = New(@)] ELSE shown[p]]
Ends(i) ==
    /\ flight' = [flight EXCEPT ![i] = "over"]
    /\ Unlock({p \in Hearers : active[p] = i})
    /\ \/ Hearers = {} /\ UNCHANGED disk
       \/ \E p \in Hearers : disk' = shown'[p]

\* Text is appended to a message that is there.  (Mutant: to a new one else.)
ExtendedOrNew(m) == [m EXCEPT !.body = "text"]
Extended(m) == IF m.body = "absent" THEN m ELSE [m EXCEPT !.body = "text"]

Chunk(i) ==
    /\ flight[i] = "flying" /\ Acked(i)
    /\ Shows(i, Extended)
    /\ UNCHANGED <<phase, active, watch, acks, retries, reading, gets, taken, erased,
                   disk, menu, net, flight>>

Done(i) ==
    /\ flight[i] = "flying" /\ Acked(i)
    /\ Shows(i, Settled)
    /\ Ends(i)
    /\ retries' = [p \in Panel |-> IF p \in Hearers THEN retries[p] \ {i} ELSE retries[p]]
    /\ UNCHANGED <<phase, acks, reading, gets, taken, erased, menu, net>>

\* The error's text, unless there is text already; a message of its own if
\* none has that id.
Failed(m) == [m EXCEPT !.streaming = FALSE, !.auth = FALSE, !.body = IF @ = "text" THEN @ ELSE "blank"]
Expired(m) == [Failed(m) EXCEPT !.auth = TRUE]

\* Any code but auth-required; the worker itself sends one when it gives up
\* the request it holds.
Error(i) ==
    /\ UnderWay(i) /\ Acked(i)
    /\ Shows(i, Failed)
    /\ Ends(i)
    /\ retries' = [p \in Panel |-> IF p \in Hearers THEN retries[p] \ {i} ELSE retries[p]]
    /\ UNCHANGED <<phase, acks, reading, gets, taken, erased, menu, net>>

AuthRequired(i) ==
    /\ flight[i] = "flying" /\ Acked(i)
    /\ Shows(i, Expired)
    /\ Ends(i)
    /\ UNCHANGED <<phase, acks, retries, reading, gets, taken, erased, menu, net>>

\* The socket drops: what was sent on it is lost.
Drop ==
    /\ link = "connected" /\ Events < MaxEvents
    /\ link' = "disconnected" /\ drops' = drops + 1
    /\ flight' = [i \in Id |-> IF flight[i] = "flying" THEN "lost" ELSE flight[i]]
    /\ ApplyStatus(Hearers, "disconnected")
    /\ UNCHANGED <<phase, shown, acks, retries, reading, gets, taken, erased, disk, menu,
                   worker>>

\* Another attempt to connect failed: the status is broadcast again.
StillDown ==
    /\ link = "disconnected"
    /\ ApplyStatus(Hearers, "disconnected")
    /\ UNCHANGED <<phase, shown, acks, retries, reading, gets, taken, erased, disk, menu,
                   net, flight>>

\* The worker sends what it holds.
Reconnect ==
    /\ link = "disconnected"
    /\ link' = "connected"
    /\ flight' = [i \in Id |-> IF flight[i] = "held" THEN "flying" ELSE flight[i]]
    /\ UNCHANGED <<doc, disk, menu, worker, drops>>

\* What becomes of the actions when the stash is overwritten or removed.
Discarded == [a \in Click |-> IF a = stash /\ lot[a] # "read" THEN "lost" ELSE lot[a]]

\* The browser kills the worker, with its socket and the request it holds;
\* the next one connects by itself and broadcasts no loss.  An action that was
\* being stashed may be there or not, and is not broadcast.
KillWorker ==
    /\ Events < MaxEvents \/ stashed < clicks
    /\ worker' = worker + 1
    /\ flight' = [i \in Id |-> IF UnderWay(i) THEN "lost" ELSE flight[i]]
    /\ stashed' = clicks
    /\ stash' \in {stash} \cup (stashed + 1)..clicks
    /\ lot' = IF stash' = stash THEN lot ELSE [Discarded EXCEPT ![stash'] = "silent"]
    /\ UNCHANGED <<doc, disk, clicks, fired, link, drops>>

-----------------------------------------------------------------------------
(* The context menu: contextMenus.onClicked in the worker, and the drain.  *)

\* openPanel, in the window of the click, and the write of the stash begins.
ClickMenu(p) ==
    /\ Events < MaxEvents
    /\ clicks' = clicks + 1
    /\ phase' = [phase EXCEPT ![p] = IF @ = "closed" THEN "loading" ELSE @]
    /\ UNCHANGED <<active, shown, watch, acks, retries, reading, gets, taken, erased, disk,
                   stash, stashed, fired, lot, net, flight>>

\* The write settles, and pending-action is broadcast.
StashWritten ==
    /\ stashed < clicks
    /\ stashed' = stashed + 1
    /\ stash' = stashed + 1
    /\ lot' = [Discarded EXCEPT ![stashed + 1] = "stashed"]
    /\ gets' = [p \in Panel |-> IF p \in Hearers THEN gets[p] + 1 ELSE gets[p]]
    /\ UNCHANGED <<phase, active, shown, watch, acks, retries, reading, taken, erased, disk,
                   clicks, fired, net, flight>>

\* drainPendingAction reads the stash; if it is empty, that is all.
DrainReads(p) ==
    /\ gets[p] > 0
    /\ gets' = [gets EXCEPT ![p] = @ - 1]
    /\ taken' = IF stash = 0 THEN taken
                ELSE [taken EXCEPT ![p] = Append(@, stash)]
    /\ lot' = IF stash = 0 THEN lot ELSE [lot EXCEPT ![stash] = "read"]
    /\ UNCHANGED <<phase, active, shown, watch, acks, retries, reading, erased, disk,
                   stash, clicks, stashed, fired, net, flight>>

\* Then it removes the stash, whatever is in it by now, and runs what it read
\* (runAct) unless a request is active.
DrainRuns(p) ==
    /\ taken[p] # <<>>
    /\ taken' = [taken EXCEPT ![p] = Tail(@)]
    /\ stash' = 0 /\ lot' = Discarded
    /\ \/ /\ active[p] = None
          /\ \E i \in Id : NewId(i) /\ Sends(p, i)
          /\ fired' = [fired EXCEPT ![Head(taken[p])] = @ + 1]
       \/ /\ active[p] # None \/ \A i \in Id : flight[i] # "unsent" \* the bound on Id
          /\ UNCHANGED <<active, shown, acks, retries, disk, fired, flight>>
    /\ UNCHANGED <<phase, watch, reading, gets, erased, clicks, stashed, net>>

-----------------------------------------------------------------------------
User(p) ==
    \/ Open(p) \/ Close(p)
    \/ \E i \in Id : SendChat(p, i) \/ Retry(p, i)
    \/ SendChatReads(p) \/ Summarize(p) \/ CancelActive(p) \/ EraseConversation(p)
    \/ ClickMenu(p)

Resumes(p) ==
    \/ Load(p) \/ PanelReady(p)
    \/ SendChatGoesOn(p) \/ SummarizeGoesOn(p) \/ TranscriptOpened(p) \/ Ack(p)
    \/ Deadline(p) \/ HeartbeatFails(p)
    \/ DrainReads(p) \/ DrainRuns(p)

Broadcast ==
    \/ \E i \in Id : Chunk(i) \/ Done(i) \/ Error(i) \/ AuthRequired(i)
    \/ Drop \/ StillDown \/ Reconnect \/ KillWorker \/ StashWritten

Next == Broadcast \/ \E p \in Panel : User(p) \/ Resumes(p)

Spec == Init /\ [][Next]_vars

\* The worker answers, reading a page has its own deadline, and an armed timer
\* fires.  Opening a transcript has no deadline.  Users, the network and the
\* broker owe nothing.
Fairness ==
    \A p \in Panel :
        WF_vars(SummarizeGoesOn(p)) /\ WF_vars(Ack(p)) /\ WF_vars(Deadline(p))

FairSpec == Spec /\ Fairness

-----------------------------------------------------------------------------
(* Properties.                                                             *)

TypeOK ==
    /\ phase \in [Panel -> Phase]
    /\ active \in [Panel -> Id \cup {None, Pending}]
    /\ shown \in [Panel -> [Id -> Message]]
    /\ watch \in [Panel -> Watch]
    /\ acks \in [Panel -> Seq(Watch)]
    /\ retries \in [Panel -> SUBSET Id]
    /\ {chats, summaries, transcripts} \subseteq [Panel -> 0..MaxReads]
    /\ gets \in [Panel -> Nat] /\ taken \in [Panel -> Seq(Click)]
    /\ erased \in [Panel -> SUBSET Id]
    /\ disk \in [Id -> Message]
    /\ {stash, clicks, stashed} \subseteq 0..MaxEvents
    /\ fired \in [Click -> Nat] /\ lot \in [Click -> Lot]
    /\ worker \in Instance /\ link \in {"connected", "disconnected"} /\ drops \in 0..MaxEvents
    /\ flight \in [Id -> Flight]

\* Once the worker has answered, the active request is watched, and it is the
\* one the timers look at: whatever was sent, cancelled, lost or replayed
\* meanwhile, no acknowledgement of another request has taken the watch.
AckDue(p, i) == \E n \in 1..Len(acks[p]) : acks[p][n].id = i
ActiveIsWatched ==
    \A p \in Panel :
        active[p] \in Id /\ ~AckDue(p, active[p]) => watch[p].id = active[p]

\* A request given up because the worker changed is one that nothing can
\* answer any more (panel.js:746-755), but for the moment between a replay
\* and its acknowledgement, when the watch of the first try may still be armed.
InterruptedIsLost ==
    \A p \in Panel :
        WorkerChanged(p) /\ ~AckDue(p, active[p]) => ~UnderWay(active[p])

\* The replay reuses its id: a request that can be replayed is over, neither
\* held by the worker nor served by the broker (panel.js:712-718).
ReplayedIsIdle ==
    \A p \in Panel : \A i \in retries[p] : shown[p][i].auth => ~UnderWay(i)

\* What was erased stays so, until another window replays it: whatever chunk or
\* terminal of it still comes, no text of it is shown, it locks nothing and
\* cannot be replayed (panel.js:642-643).  The notice of a late error does come
\* back, as a message of its own (panel.js:375-377).
ErasedStaysErased ==
    \A p \in Panel : \A i \in erased[p] :
        /\ shown[p][i].body # "text" /\ ~shown[p][i].streaming
        /\ active[p] # i /\ i \notin retries[p]

\* No panel is locked for ever: whatever is lost, the buttons come back, but
\* while summarize waits for a transcript, which has no deadline
\* (panel.js:989, 1125).
PanelUnlocks ==
    \A p \in Panel :
        active[p] # None ~> active[p] = None \/ (active[p] = Pending /\ transcripts[p] > 0)

\* An action that no drain has read is still in the stash, unless another action
\* overwrote it or the drain of another removed it; and once it was broadcast,
\* every panel past its init has a drain on its way, whichever came first.  One
\* whose worker died before the broadcast waits for the next panel to load.
ActionIsHeard ==
    \A a \in Click :
        /\ lot[a] \in {"stashed", "silent"} => stash = a
        /\ lot[a] = "stashed" => \A p \in Panel : phase[p] = "open" => gets[p] > 0
        /\ lot[a] = "lost" => \E b \in Click \ {a} : lot[b] # "none"

\* "A delivered action never fires twice" (service-worker.js:133-138).
ActionFiresOnce == \A a \in Click : fired[a] <= 1
=============================================================================
