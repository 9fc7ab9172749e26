# Wingpen: verification project

Wingpen is a browser side panel that talks to a local broker; the broker drives
a model provider (`claude`, Ollama or the Anthropic API) for it. This directory
holds TLA+ models of the parts of the program whose correctness depends on the
order in which things happen, or on two programs agreeing on a rule; TLC
configurations that check them on small instances; and TLAPS proofs of their
main invariants for every value of the constants. `PROJECT.json` maps each
definition to the lines it models.

    tlc -config panel.cfg MCPanel.tla      # model checking
    tlapm PanelProofs.tla                  # proofs

## 1. Inventory

### The system

```
 content script --page--> side panel      options page
                              |  runtime messages  |
                              service worker
                              |  one WebSocket, ws://127.0.0.1:8787/ws
                              broker (Bun, one process)
                              |  subprocess or HTTP, one per model stream
                              provider
```

| Component | State it keeps | Operations | What is hard | What makes it correct |
|---|---|---|---|---|
| Broker: authenticated requests (`server.ts`: `handleMessage`, `handleStreamingRequest`, `runStream`) | per connection, `active`: id -> AbortController | nine kinds of message, provider events, `cancel`, close | a stream unwinds after its cancel or its close; terminals of several requests interleave; writes fail | the cap on streams; every stream stoppable; one terminal per id; nothing after a cancel |
| Broker: handshake (`server.ts`: `open`, `handleHandshakeMessage`; `session-tokens.ts`; `config.ts`, pins) | hello timer and `authed` of each socket, token store (LRU, memory), pin file | open, first message, timer, close, hand edits of the file, restart | the pin list is read twice, seconds apart; file I/O throws half-way; tables are full | who may be authenticated; nobody unauthenticated stays for ever; tables bounded without losing what was just granted |
| Broker: settings and status cache (`applySettings`, `config.ts`, `provider-status.ts`) | configuration in memory and in `config.json`, cached and running checks | `settings.set`, `provider.status`, checks that settle | a check outlives the settings it was started for; the write is not atomic | an answer is about the right configuration, and recent; settings survive |
| Broker: model providers (`providers/*.ts`, error classes of `model.ts`) | per call: a timer, an abort signal, a subprocess or an HTTP request | `streamAnswer`, `checkStatus`, the confirmation of an expired session | timers that follow each other; cancels between them; probes that fail or are billed | a call ends in time; an expired session is told as one |
| Broker: prompt library (`prompts.ts`) | `prompts.json`, a queue of operations per directory | list, save, delete, starter prompts | read-modify-write by several connections, failed writes, crashes, a spoilt file | one whole change at a time; an answered one stays; the panel shows it |
| Broker: admission and pair page (`admission.ts`, `pair.ts`) | none | one decision per HTTP request | nothing over time | pure functions |
| Broker: parsing and prompts (`protocol.ts`, `model.ts`) | none | validate, budget, choose an instruction | must agree with what the extension extracts | what the extension sends is accepted, and read as what it is |
| Extension: service worker (`background/service-worker.js`) | connection state, `ws`, hello timeout, retry flag, one held request; the token and a stashed action in `chrome.storage.session` | connect, hello, hello-ok, close, backoff and alarm, hold, flush, expire, paste, context menu | module variables read before an `await` and used after it; listeners of sockets that were replaced; the browser kills the worker | one connection; a request is sent once or reported; it ends up connected |
| Extension: side panel (`panel/panel.js`) | conversation (shared, on disk), active request and its watch, requests that can be replayed | send, summarise, cancel, erase, replay, chunks and terminals, deadline and heartbeat, drain of the stash | guards read before the page is, and used after; late chunks; two timers and several panels | the panel unlocks; it watches what is active; the erased stays erased; an action is run once |
| Extension: extraction (`content/extract.js`, `detect.js`) | none | read a page, a video's transcript | layers, drafts, lists and facts in any nesting; steps that throw; caps | what is sent is within the budget, of the right kind, and leaves out what it must |
| Extension: options page, library | none that lasts | forms, shims, formatting | - | - |

### Interactions

* The panel asks the content script for the page, then hands the request to the
  worker by a runtime message; the worker sends it on its socket or holds it
  (one slot) until `hello-ok`, and acknowledges it with its instance id.
* The broker identifies everything by the `id` the client chose: `active`,
  chunks and terminals. It answers in any order.
* The connections of one broker share the token store, the pin file, the
  configuration, the status cache and the prompt library. `settings.set` clears
  the status cache.
* What the broker sends is broadcast by the worker to every page of the
  extension: each open panel handles the terminals of every other one's
  requests. Panels share the conversation in `chrome.storage.local`.

### Hazards

`PROJECT.json` lists them with their lines: for each, the properties that would
show it going wrong. They come in families: requests that end in the same turn
as a cancel or a close (Streams); state on disk read again after it was changed
by hand, tables at their limit, I/O that fails half-way through a grant
(Handshake); state read before an `await` and used after it, and listeners of
replaced sockets (ServiceWorker, Panel); answers that arrive after what they
answer was given up (Panel, Settings); timers that follow each other and probes
that may be cancelled (Providers); writes that fail or are cut short (Settings,
Prompts); two programs that must count and classify alike (Pages). Five have no
property, and a note says why: an id used twice at once, which the protocol
leaves to the client; the order of the replies to two `settings.set`, which
matters to the options page only; the two guards that `sendChat` and `summarize`
read before the page and not after it, and a `prompts.json` that cannot be read
and is then overwritten, which the models do as the code does, for no document
promises otherwise.

## 2. Modules

| Module | Models | Source |
|---|---|---|
| `RequestContract` | abstract: what the wire promises for each id | `docs/PROTOCOL.md`, invariants, as the handlers implement it |
| `Streams`, `MCStreams`, `StreamsProofs` | authenticated messages and model streams; implements `RequestContract` | `server.ts` |
| `Handshake`, `MCHandshake`, `HandshakeProofs` | open to hello-ok, tokens, pins | `server.ts`, `session-tokens.ts`, `config.ts` |
| `ServiceWorker`, `MCServiceWorker`, `ServiceWorkerProofs` | the client side of the connection, composed with a one-origin broker | `service-worker.js` |
| `Settings`, `MCSettings`, `SettingsProofs` | configuration, its file, the status cache | `server.ts`, `config.ts`, `provider-status.ts` |
| `Panel`, `MCPanel`, `PanelProofs` | the panels, composed with the worker they share, the stash of the context menu, and what `RequestContract` promises of the broker | `panel.js`, `service-worker.js` |
| `Pages`, `MCPages`, `PagesProofs` | a page from its tree to the instruction the broker picks: extraction, sending, parsing, budget | `extract.js`, `panel.js`, `protocol.ts`, `server.ts`, `model.ts` |
| `Providers`, `MCProviders`, `ProvidersProofs` | one call of a provider against a clock | `providers/*.ts`, `model.ts`, `server.ts` |
| `PromptLibrary` | abstract: a library that changes one prompt at a time | `prompts.ts`, as its comments promise |
| `Prompts`, `MCPrompts`, `PromptsProofs` | the queue, the file and the panels that list it; implements `PromptLibrary` | `prompts.ts`, `server.ts`, `panel.js` |

### How state and actions correspond to the code

JavaScript runs a callback to its next `await` without interruption. So one
action is one callback, or the piece of one between two awaits, with every
assignment it makes. The `await` itself is state: `phase[r] = "streaming"` is a
`for await` that is suspended, `reads` counts the calls of `connectIfNeeded`
suspended in `storage.session.get`, `chats` and `summaries` those of `sendChat`
and `summarize` suspended in the extraction, `transcripts` those of `summarize`
that wait for a video's transcript, `probe` holds the running `checkStatus`
promises.

* **Streams.** A request is one message with an id. `active[c][i]` is
  `ConnData.active`; the AbortController is identified with its request, and
  `aborted` is its signal. `Delta`, `StreamFinishes` and `StreamFails` are the
  three things an event may do to `runStream`; each exit looks at the signal
  first and deletes the entry of the id in its `finally`. `outcome = "silent"`
  is a handler that ends without an answer. `chunks` and `terminals` are what
  the client received, the only history.
* **Handshake.** A socket slot is reused once closed, so runs of any length are
  covered. Each branch of `handleHandshakeMessage` is an action (`HelloSilent`,
  `HelloPermanent`, `HelloToken`, ...), `Record` is `recordFirefoxSeen` with its
  re-read and its eviction, `Touch` and `Enter` are the LRU. The pin file is
  `pins` (the date of each line, 0 for none), the clock is the system clock to
  the second, `Revoke` is the user's editor. `vouched` is history: who has
  presented the permanent secret.
* **ServiceWorker.** `ws` is one module variable, but each socket that was ever
  created keeps its listeners: the events of a socket that is no longer `ws`
  are actions like any other. `writes` holds the storage writes that have not
  settled together with the code that follows them. A second call of
  `connectIfNeeded` may get past the guards while the first one awaits the
  token: this overlap is a fault like the others (the broker restarts, the
  browser kills the worker, a pin is deleted, a token is pasted, a handshake is
  slow, the token cannot be read, `new WebSocket` throws), and `doubled` is
  history: how many overlaps and pastes the worker has seen in its life. The
  broker is reduced to what Handshake shows for one origin: a known origin is
  granted whatever token it sends, an unknown one by the permanent secret only.
  Durations are left out; a timeout may fire when the thing it waits for cannot
  happen any more, or, as a fault, too early.
* **Settings.** `Settles` caches the result of a check under the key it was
  started for, and deletes that key's entry of `inflight` whosever it is by
  then. `SetFails` is a save that throws: the new configuration stays in
  memory, and the file is the old one, a torn one, or the complete new one, for
  `chmodSync` may throw after the write. `Restart` may find a file torn by the
  save that was under way. `saved`, `failed`, `sets`, `changed` and the stamps in
  `probe` and `ask` are history. A check that is no longer
  referred to is forgotten and its name reused.
* **Panel.** `active` is `activeRequestId` (with `summarize`'s `pending`),
  `watch` the deadline and heartbeat that `startRequestWatch` arms together,
  `acks` the answers of the worker on their way, `retries` the keys of
  `pendingRetries`, `shown` and `disk` the conversation in the document and in
  `chrome.storage.local`, `flight` what has become of each request beyond the
  panel. `Sends` is the common end of `sendChat`, `summarize`, `runAct` and
  `retryRequest`; `Unlock` is `setStreamingUi(false)`. A message of the broker
  is one action in which every listening panel handles it. `ClickMenu` and
  `StashWritten` are the two halves of the context menu's listener, `DrainReads`
  and `DrainRuns` those of `drainPendingAction`; the worker may be killed between
  two of them. `erased` and `lot` (what became of each action) are history.
* **Pages.** A page is a tree of nodes with a role and some text of its own; a
  text is the set of nodes it comes from. What patterns and CSS find is an
  attribute of the page (`breaks` is the step that throws in it, `heads` what
  entries are named by, `guard` the first article or main, `unusable` the entries
  without a box). The row of a pair is read with all that is below it. `IsPage`
  says what every page is: a finite tree with the body at its root. Each operator
  is one function of `extract.js`, applied in the order of
  `buildPageKindContext`, with what it falls back to; where the code takes one
  of several equals by document order, the operator gives the set of them, and
  a behaviour picks. `ReadToSummarize`, `OpenTranscript` and the rest are the
  panel's steps around it; `Parsed`, `TooLarge` and `Instruction` the broker's.
* **Providers.** `world` is what is installed and accepted, and does not change
  during a call. `stage` is the `await` the call is in: ollama's preflight, the
  model, the free status probe, the billed one. Time passes by `Tick`, never
  beyond a timer that is `Due`: timers are urgent, servers are not. `lost`
  remembers that a probe gave no answer, `hung` that the billed one outlived its
  kill. `world.session` is both what the free probe answers and what the CLI's
  words are read against, by a pattern that may also name an open session.
* **Prompts.** `queue` is the promise chain of `withDirLock`; the turn that runs
  is `Start` (read), `WriteTemp`, `Rename`, `Replies`, and a crash, a drop or a
  message may come between two of them where the code awaits. `Damage` spoils
  the file from outside between two turns. `told` and `author` are history.

## 3. Runs

| Run | Checks | Instance |
|---|---|---|
| `streams` | cap, cancellability, no orphans, finality of a cancel, the refinement of `RequestContract`, an answer for every id whose connection and write are not lost | 1 connection with a cap of 1, 3 requests on 2 ids, a chunk, failing writes, a crash |
| `streams_write_fails` (violation) | every id is answered | 2 requests, failing writes |
| `handshake` | the properties of the handshake, `HandshakeEnds` under fairness | 2 sockets reused, 4 origins, 2 tokens in a store of 1, 2 installs for 1 pin, 2 seconds |
| `sw` | the fate of requests; how many sockets, no request before the hello, no refused token sent again, recovery, no refusal loop | 2 sockets, 2 requests, 1 fault of any kind (an overlap, a paste, a constructor that throws) or 2 restarts, kills, revocations or slow handshakes, storage that fails |
| `sw_paste` (violation) | `EventuallyUsable` with a pasted token | 1 paste |
| `settings` | the answers of `provider.status`, those of a check older than the settings, the file | 2 clients asking again and again, 3 checks, 1 provider with or without a key, 1 applied set, 1 failed save, 3 ticks |
| `panel` | watch, interruption, what was erased, unlocking, the stash | 1 panel opened and closed at will, 2 requests, 1 suspended reading, 1 kill, drop or click, and a kill while the click is stashed |
| `panel_twice` (violation) | `ActionFiresOnce` with two windows | 2 panels, 1 click |
| `pages` | budget, instruction, drafts, layers | all nestings of 9 nodes: a main, a layer, a list of 3 entries, a table of facts or a heading, a draft; a main in what is editable, a second article, lists and entries that are editable or set aside, an entry without a box, a layer in the row of a fact, a dialog that is all draft, a body that is editable; each step that throws |
| `providers` | time, session, termination | every world, the timeouts of the code in seconds |
| `providers_billed` (violation) | `NothingBilledAfterCancel` | ditto |
| `prompts` | the refinement of `PromptLibrary`, answered changes, what the panel shows, no turn starves | 2 connections, 2 starter prompts, 2 bodies, 2 changes, 1 fault |

### Why the bounds are enough

The caps are compared with table sizes and never with anything else: a store of
one token, a file of one pin or a cap of one stream is full at once, and is
overrun by the second entry. Two sockets are what it takes for one to be
replaced by another, two ids for one request to be answered while another is in
flight, three requests for an id to be used again after its terminal while
another request is pending. Two requests fill the worker's one slot and replace
what it holds; in a panel, the second is the one that is sent while the first is
read, or after it was given up, and meets its late answers. One suspended
reading is enough to send what was cancelled meanwhile. Two panels matter to
the stash (`panel_twice`); that no panel disturbs the watch of another is proved
for any number. Time matters in three places only. In the pin file, dates are
compared: two seconds give equal, older and newer lines. In the status cache, a
check (1) is shorter than the life of a result (2), and three ticks let a result
expire that was prolonged once. In a provider's call, the timers have the
values of the code, and the clock runs past their sum. Three checks are what it
takes for one to settle after a `settings.set` while a newer one runs and a
third might be started.

In `pages`, the thresholds and caps keep the order they have in the code, with a
few characters each: each text is below or above every threshold in some page,
and the facts and the items are below and above their caps. Nodes of the other
kinds (headers, navigation, forms) behave like the fixed layer or like plain
text. Two starter prompts and two changes make a delete of one prompt meet the
save of another, in the file and in the starter list.

`MaxChunks`, `MaxWrites`, `MaxDoubled`, `FaultModels`, `MaxReads`, `MaxEvents`,
`MaxOps`, `MaxFaults`, `MaxClock`, `MaxSets`, `MaxFailed`, `Horizon` and the
number of `Probe`s only bound the model: no property refers to them but in its
types. Where the code keeps a promise only until something happens, the property
says so by the history variable that counts it: `doubled` for overlaps and pastes
in `sw`, `failed` for failed saves in `settings`. `sw` has behaviours with an
overlap, with a paste and with neither; after two sockets exist the properties
go on being checked, and `SocketsCounted` counts them. In `panel` an action that
is lost to another one takes two clicks: it is not reached there, and proved.

`CHECK_DEADLOCK FALSE` stands where everything may be over: every request
answered and every connection closed, every token issued and the clock at its
bound, every change, fault and request used up.

### Fairness

Weak fairness, of single callbacks, and only of what the code arms a timer for
or the platform delivers:

* Streams: a stream settles because `streamAnswer` runs under
  `MODEL_TIMEOUT_MS`, a probe or a connection test under its own timeout; a
  socket that was told to close gets its close callback. Clients are not fair:
  they may never cancel, close or ask.
* Handshake: a hello timer that is armed fires, a closing socket closes. Nobody
  has to send a hello.
* ServiceWorker: the alarm rings, storage answers, the held request's timeout
  fires, a socket reports what happened to it, systemd starts the broker again.
  Faults are never fair and their number is bounded, for a connection that is
  broken for ever cannot be expected to recover.
* Panel: the worker answers, reading a page has its own deadline, and an armed
  deadline fires. Opening a video's transcript has no deadline in the code and
  is not fair: `PanelUnlocks` excepts a panel that waits for one. The broker,
  the network and users owe nothing: the property rests on the panel's own watch.
* Providers: time passes, timers fire, and what was aborted settles. No server
  and no subprocess need ever answer, and a billed probe that was killed need
  not close its output: `CallEnds` excepts it.
* Prompts: the file system settles, failing or not, and the broker and the
  panel handle what they received.

### What the violations show

* `streams_write_fails`: `prompts.save`, `prompts.delete` and `settings.set`
  have no catch around the write. When `prompts.json` or `config.json` cannot be
  written, the id is never answered, though its connection stays open.
* `sw_paste`: after `forceReconnect` the close event of the old socket is still
  to come. Its listener clears `ws`, which is the new socket by then, and the
  worker shows `connected` with nothing to send on.
* `panel_twice`: `drainPendingAction` awaits the read and then the removal of the
  stash, so two drains may both read it: one action of the context menu becomes
  two requests.
* `providers_billed`: `streamAnswer` looks at the abort signal before the free
  status probe and not after it: a request cancelled during that probe is
  confirmed by a billed call.

## 4. Proofs

The eight proof modules treat the constants as parameters: any number of
connections, requests, panels, tokens, pins and names, any finite pages, any caps
and durations, under the named assumptions of each module. TLC evaluates those
assumptions on every run. Each proves the type invariant of its module together
with the properties named below; no run repeats it. Every safety property that a
run checks is also the statement of a theorem.

**Streams.** `StreamCap`, `EveryStreamCancellable` and `NoOrphanStream` are not
inductive: none of them says that an entry of `active` belongs to the stream of
its id. `SlotInv` does: entries and running streams of a connection still up
correspond one to one, those of a closed connection are aborted, and the map is
within the cap. It is preserved because a message for an id in flight never
arrives, which is the assumption `~ReuseInFlight` of the theorems: PROTOCOL.md
has ids unique, and the code does not check it. The cap on streams then follows
from the injection of streams into slots.

Streams implements `RequestContract` (`ContractImplemented`), step by step: a message is an `Ask` or an
`AskAndAnswer`, text is a `Chunk`, the end of a request is an `Answer` if its
connection is still open and unseen otherwise, a close or a crash is a
`Disconnect`. It needs one more invariant, `WireInv`: an id is owed at most one
answer. `NoChunkAfterCancel` follows from `SlotInv`; `CancelIsFinal` from the
code of `runStream` alone, with no assumption on the ids.

**Handshake.** One inductive invariant (`IInv`) joins the types, the store, the
pin file and the sockets; the lemmas about `Touch`, `Enter` and `Record` say what
the LRU and the eviction keep, and `HelloStep` sums up every branch of the
handler in one disjunction, from which each property follows. `GrantedIsPinned`
rests on no line of the file being from the future, which holds in the model
because its clock never goes back: with a system clock that is set back, an
older install could outlive the one just pinned.

**ServiceWorker.** `NoRequestForgotten` and `OneFate` are proved for any number
of sockets, suspended callers and pending writes, and with pasted tokens: the
confusions of sockets cost a connection, never a request. The invariant says
where a request is. `SlotInv`: the slot holds the one request whose fate is
`held`. `WireInv`: a request in a frame was sent. `OnceInv`: it is in no other
frame of any socket. `OneFate` alone is not inductive, for nothing in it keeps a
request that was accepted from being read again from another socket.

Which socket a request goes to is another matter. How many sockets there are
is `SocketsCounted`, proved for any number of overlaps and pastes from
`CountInv`: the sockets that exist, closing ones included, the calls of
`connectIfNeeded` under way, suspended or behind a write, and the room for one
more (while there is neither a `ws` nor such a call) together are at most one
more than `doubled`. Every event turns one of these into another, and only an
overlap or a paste adds one.

`RetryCarriesNoToken`, `NeverBeforeHello` and `ConnectedHasSocket` rest on
`Conn`, an invariant of the connection that is shown to hold while
`doubled = 0` (`ConnInvariant`): a call of `connectIfNeeded` is under way, suspended or behind a
write, only while there is no socket, and there is one such call at most
(`CallInv`); the write it waits for is the removal of the token, and the last
one issued (`WriteInv`); the socket that lives is the one the worker holds, and
`connected` means that its hello was granted (`SocketInv`); once a refused token
was removed nothing is left that would write it again, and the next socket
carries none (`TokenInv`). `doubled = 0` is a state of the worker, not an
assumption on the constants: overlaps and pastes are in the specification, a
new worker starts again from none, and `sw_paste` shows what a paste does. The
numbers of sockets, requests, overlaps, writes and faults are free.

**Settings.** The invariant says what the two maps may hold, and what a running
check is covered by: its own entry of `inflight`, or, when an older check that
settled has deleted that entry, the older one's result, which outlives the check.
That is where `ProbeTimeout < CacheTtl` is used, 6 s against 60 s in the code.
Without it two checks of one key could run at once (`OneProbeAtATime`).
`OldResultIsLate` needs in addition that a check older than the last
`settings.set` was started before it (`LateInv`), so that its result cannot
outlive that moment by more than a check and a cached result last.
`SettingsSurvive` is inductive by itself.

**Panel.** `ActiveIsWatched` holds because the acknowledgements of a panel come
in the order of its requests: the last one due, or the watch when none is due,
is of the active request (`LastIsActive`). `InterruptedIsLost` needs that a
panel knows the worker that has its request (`WorkerKnown`), which a replay
could break if the first try were still under way; `ReplayedIsIdle` says it is
not, and rests on an id belonging to the one panel that drew it (`Owned`) and on
no answer overtaking its acknowledgement (`DueIsUnanswered`). Both properties
are then immediate. `ErasedStaysErased` is proved with two facts more
(`ErasedInv`): what was erased was drawn, so that no later request takes its id,
and nothing is shown under its id, be it a notice, before it is over, so that no
chunk finds a message to extend. `ActionIsHeard` is proved with two as well
(`HeardInv`): an action that is still to be stashed has no lot, and what a drain
has taken it has read. Sending, giving up and hearing a
broadcast each have one lemma, for every action that does it.

**Providers.** The invariant bounds the clock stage by stage (`InTime`) and says
which worlds reach which stage (`Reached`); the theorems hold for any timeouts,
and show that the confirmation of a session comes on top of `ModelTimeout`.
`EndsInTime` excepts a call whose billed probe outlives its kill; `AuthIsTold`
one whose timer fired or whose probe gave no answer.

**Prompts.** `LibraryKept` is the refinement: `Rename` is one save or one delete
of the abstract library, `Damage` spoils it, every other step is a stutter. It
needs that the file does not change between the read of a turn and its rename
(`TurnIsCurrent`). `PanelShowsLibrary` needs that the author of the last change
is still due a list, or has it (`AuthorIsServed`).

**Pages.** What is held of a page is one of its readings (`Extractions`), and
the outcome is what the broker makes of it (`IInv`); the rest is about what the
readings are. `PageContextsShape` sums up all paths of `buildPageKindContext`:
a text without structure (`Flat`), facts (`Listing`) or entries (`List`), of a
region of one of the roots, or of the whole page when the code falls back to it.

* Budget. `ContextFits`: the caps of the items and of the facts bound what they
  take, `LimitAssumption` says that this leaves room, and the text is cut to the
  rest, so that the `Math.max(0, ...)` around it never applies. From it follow
  `SentIsAccepted`, and `InstructionFits` because a list has entries and a
  listing facts. The weights are sums over sets, which `MapThenSumSet` defines by
  recursion: `SumExists` shows that the recursion has a solution and `SumBound`
  bounds it. The induction theorems of the library take the induction formula as
  an operator, which the provers cannot instantiate; both proofs take the least
  number that is an exception instead (`LeastNatural`).
* Drafts and layers. `TextClear` says of any set A of nodes that the text of a
  node outside of A holds nothing inside A when what A has below the node is cut
  out. Hence `TextIn`: what a text still holds of A, it holds because its own
  node is in A; `ListIn` and `ListingIn` say it of a list and of the rows of
  facts. With A the editable nodes this gives `DraftStays`, with A the layers
  set aside `LayersStayOut`. So the exceptions of the two properties are single
  elements, not pages: a draft that is sent lies in an element which the code
  takes without looking above it, and only what is in that element goes. The
  first attempts at these proofs failed on pages the run did not contain, and
  the code does send what they hold. They are now in the run, in the two
  properties as exceptions, and in section 5; TLC refutes the properties without
  any one of these.

### Only model-checked

Liveness (`AnsweredUnlessLost`, `EveryIdAnswered`, `HandshakeEnds`,
`UsableUnlessDoubled`, `EventuallyUsable`, `NoRefusalLoop`, `PanelUnlocks`,
`CallEnds`, `TurnsEnd`) is beyond the prover. So is what the four violation runs
refute. What the values of the folds are for each input is proved only as far as
the bounds above.

## 5. Limits, and what is not modelled

Strings are never modelled: prompts, formats, wording, logs and patterns appear
as what they find. `settings.get` and `settings.test` change nothing but the
request they answer, which Streams models. Admission and the pair page are
stateless, the options page is a form over messages modelled elsewhere, the
library is shims and formatting. Also left out: the worker's badge and its check
of senders; the panel's rendering, the expiry of old messages, and which tab it
shows and detects (`detect.js` repeats a part of the extraction to label a
button); `listModels`.

What the models assume or abstract, where it matters:

* *Streams.* A client that reuses an id in flight is outside the theorems
  (`ReuseInFlight = TRUE` lets it): two streams then share an entry, and the cap
  and `cancel` apply to the last one only.
* *Handshake.* The system clock never goes back.
* *ServiceWorker.* Two callers of `connectIfNeeded` suspended at once make two
  sockets: it looks at `wsState` and `ws`, awaits the token, and does not look
  again. A paste does the same. After either, the two sockets may keep clearing
  each other's `ws`, a frame may leave before the hello of its socket, and a
  refused token may be sent again. A `storage.session.get` that rejects ends its
  call and the alarm makes another one; a `new WebSocket` that throws leaves the
  state at `connecting`, at which every later call returns, alarm and backoff
  included (`Wedged`): the worker does not recover before it is
  killed or a token is pasted.
* *Settings.* A check that was running at `clear()` caches its result when it
  settles (`provider-status.ts:63`) and may be served for 60 s more, though
  PROTOCOL.md:1072 has the cache empty after a `settings.set` and
  `provider-status.test.ts:92` says the same; `OldResultIsLate` bounds by how
  much. `config.json` is written in place, though PROTOCOL.md:934 calls the write
  atomic: a file cut short is read as an empty one, and a save that throws may
  leave the old file, a torn one or the new one. The reply to a `settings.set`
  awaits `buildSettingsPayload` (`server.ts:662`): `saved` is what was applied and
  written, whether or not it was answered yet.
* *Panel.* Acknowledgements come in order, and before any answer of the broker
  to their request. A request that was held, preceded by a preflight or
  followed by probes may outlast the deadline of the panel (130 s) and its
  answer may come later; the text is not shown. Opening a video's transcript has
  no deadline (`panel.js:989`, `1125`): if the page never answers, `summarize`
  keeps the panel locked until it is cancelled. Between a replay and its
  acknowledgement the watch of the first try may interrupt it. `pendingRetries`
  keeps its entry after a deadline or a lost connection. The `cancelled` error
  of an erased request adds a notice to the new conversation, against the
  comment at 642-643. Two panels share one conversation: a save of one brings
  back on disk what the other erased. A click whose stash is overwritten by a
  second click, or removed by the drain of an earlier one, is lost; a worker
  that is killed between the write of the stash and the broadcast leaves the
  action unheard until the next panel loads or the next click, and one killed
  before the write settles loses it.
* *Pages.* No two nodes read alike, so that cutting an element's text out of its
  container's is exact. `textExcludingNodes` cuts out what is editable below an
  element, and never asks whether the element is itself editable or in something
  that is. So a draft is sent, against the comment at `extract.js:36-43`, when it
  is, or is around, an `article`, a `main`, a dialog that is the content, the
  body, an entry of a list, or the first heading or link of an entry
  (`titleForEntry` looks at the heading and below, not above): `DraftStays`
  excepts what is in these elements, and nothing else. In the same way a list is
  read for its entries even if it or an entry is in a layer that was set aside,
  for its headings with any layer in them, and even if it is around the dialog
  that is the content; the row of a fact is read with every layer in its cells,
  against PROTOCOL.md:578 and the comment at `extract.js:443`, for
  `isFactsExcludedContext` looks upward only; and a dialog in which all is a draft
  makes the extraction fall back to the page under it. `LayersStayOut` names
  these cases. `summarize` sends without the page a question whose extraction
  failed. Another tab may become current while it reads; the model has one tab.
* *Providers.* One world per call. The billed probe has no race around its kill
  (`claude-cli.ts:207-228`, where `checkStatus` has one, `:254-263`, `:306-309`):
  if a process of its own keeps its output open, the call never ends and keeps
  its slot among the streams of its connection, which the fairness assumed in
  Streams does not cover. The tolerant pattern of the CLI's words (`:138-144`) may
  tell an open session as expired. `checkStatus` itself is not modelled beyond
  the free probe of a call: neither `ok` nor `ko` says what the next request will
  meet. Ollama without a configured model is `ok` and serves nothing, and a check
  that took over 1.5 s or got an error from a running daemon is `ko`
  (`ollama.ts:97-101`) though the next request may be served, against
  PROTOCOL.md:1036.
* *Prompts.* A failed save gets no reply (see `streams_write_fails`). A file
  that cannot be read counts as empty, and the next save overwrites it; the
  abstract library is emptied by `Spoil` for that reason. The panel of another
  connection is not told of a change until it asks. The order of the list is
  left out.

Next would be the tab detection of the panel, with the two looks at a tab that
race; the safety halves of the liveness properties (who is due whenever somebody
waits), which can be proved; and an abstract specification of authentication
that Handshake implements, from which ServiceWorker's broker is derived.
