# OCS test bench: a verification project

The OCS test bench is a Go program with a React front end. It plays the gateway
side of Diameter Gy against an online charging system (OCS): it keeps
connections to peers, runs scenarios of CCR requests over them, reacts to the
answers, and lets an operator edit scenarios, follow, stop, interrupt, step and
resume what runs, and talk to an AI agent that can do the same. This directory
holds TLA+ models of the concurrent core of the server and of the web
application, the TLC runs that check them and proofs of the properties that
matter most. Paths of Go files are relative to `internal/`, those of TypeScript
files to `web/src/`.

## 1. The system and its parts

    web application (React)
        pages: debugger, scenario editor, AI chat, peers, subscribers, settings
        query cache, draft and execution stores, event streams
        |  HTTP, SSE            (also: AI agent, MCP client)
    api (REST, SSE, SessionManager) --- ai (agent, sessions) --- mcp (tools)
        |  Start Stop Interrupt RunToEnd Step Skip
    engine (Orchestrator, StepExecutor, SessionContext) --- template, store
        |  Send
    protocol.Behaviour          watches answers, re-auth timers
        |  Send
    messaging.Sender            correlator, one watcher per peer
        |  State, Conn, Subscribe
    manager.Manager             registry, fan-out of state events
        |  Connect, Disconnect
    conn.PeerConnection         one lifecycle goroutine per peer
        |  TCP, Diameter
    the OCS

`cmd/ocs-testbench/main.go` wires them: `messaging.NewSender(dmgr)` inside
`protocol.New(sender, protocol.Options{})` inside `api.NewSessionManager`.

| part | state it keeps | operations | how it meets the others | what is hard | what makes it correct |
|---|---|---|---|---|---|
| peer connection (`diameter/conn`) | state, cancel function, active connection, subscriber channels | Connect, Disconnect, Subscribe, Unsubscribe, the loop `run` | called by the manager; read by the Sender; events through bounded channels | calls overlap; a drop races a cancel; state and event are two steps | one goroutine at most; a quiet peer is stopped; the newest event is the state; a lost link comes back; Disconnect returns |
| sender (`diameter/messaging/sender.go`) | pending map, one channel per request, a watcher per peer | Send, dispatch, closeAll | reads the peer's state and connection; the CCA handler calls dispatch | concurrent Sends, drops, late and repeated answers | one outcome per Send, the right answer, no entry left, no panic, a drop unblocks |
| behaviour (`diameter/protocol`) | per session: number, terminated, timer | Send, observeCCA, fireReAuth, Stop | wraps the Sender | a timer fires while its session changes; answers overtake each other | termination is final; automatic numbers are new; Stop is final |
| execution (`api/session_manager.go`, `engine`) | session record: state, position, history, stop and interrupt channels, cancel function; the session context | Start, Stop, Interrupt, RunToEnd, Step, Skip; the walk | a goroutine per run; calls from HTTP | critical sections with work between them; signals seen at some points only | active means running; a position one can resume at; aborted sessions stay so; numbers unique per Session-Id |
| peer manager (`diameter/manager`) | registry, fan-out goroutines, subscribers | Start, Stop, Connect, Disconnect, Get | merges the peers' events | two subscriptions for one peer; draining at Stop | each event once and in order; Stop ends everything |
| codec (`diameter/messaging/*_builder.go`, `*_decoder.go`) | none | build, decode | Sender | - | - |
| template engine (`template`) | none | render | StepExecutor | widths, placement of service units | no silent truncation |
| dictionary (`diameter/dictionary`) | parser | load | at start | one bad dictionary among good ones | the good ones load |
| AI sessions (`ai`, `api/ai_*.go`) | history, permission channel, permanent permissions | chat, permission, eviction | two HTTP requests meet on a channel | a decision without a prompt, two chats, eviction | a tool runs only on a decision for that call |
| execution events, SSE (`api/sse.go`) | bounded channels | Subscribe, broadcast | SessionManager to browser | snapshot against subscription, full buffers | the final state arrives |
| lifecycle (`appl`, `main.go`) | list of shutdowns | Register, Run | drains all of the above in reverse order | bounded time per callback | each callback once, in order |
| web: debugger (`pages/debugger`) | one execution store with a state machine, rows, the polled snapshot, an event stream | send, skip, interrupt, run to end, stop; select a row | three sources of the same facts: snapshots, events, answers of its own calls | they overtake each other; events are lost; a call fails after its optimistic step | the rows are the history; an end is shown only if there is one; the last rows appear |
| web: scenario editor (`pages/scenarios`) | one draft store with undo and redo, the cached details, the address | open, new, duplicate, edit, undo, redo, save, delete, leave | the store outlives the pages; a save goes on when its page is gone | late answers act on another scenario's draft; a stale draft is saved | a filled page shows its own scenario; a clean draft is the stored one |
| web: scenario tabs (`pages/scenarios/tabs`) | the draft's variables, services, steps and AVP tree; selections and questions | add, rename, remove, move, indent, override, change model | references by name and id between the parts of a draft | undo and redo replace the draft under a selection or a dialog | no edit leaves a dangling AVP value, service field or override; a move loses no AVP |
| web: AI chat (`pages/ai-assistant`) | thread, indicator, prompt, session permissions, the abort handle | send, stop, deny, approve, clear, leave and return | reads a POST event stream the agent writes | several streams at once; a stop half way; a stream nobody can stop any more | no message mixes turns; a stopped turn is not sent again; the indicator ends |
| web: peers page and event stream (`pages/peers`, `api/sse`) | the list's cache and details, the drawer, what toasts compare with | create, edit, delete, start, stop, restart | the stream patches the same cache rows the mutations guess and write | guesses, answers, events and reloads in any order; a lost stream | the settled table is the server's; a toast tells a change |
| web: subscribers page (`pages/subscribers`) | list, catalogue of devices, form, mutations | add, edit, delete, pick a device, derive an IMEI | list and catalogue arrive after the form | the form is filled twice; manufacturer, model and IMEI are derived from each other | the IMEI the page stores fits its device; what was not touched is not changed |
| web: settings page (`pages/settings`) | local settings, the AI card, permissions, dictionaries | edit, save, reset, switch sections | mutations outlive their section, the requests of its queries do not | reloads join, replace and miss each other; the card is seeded once | the open section settles on the server's data; a save writes what its card was filled with and what the user changed |
| web: executions page (`pages/executions`) | list caches by filter | filter, start, rerun | prepends created executions to every cached list | filters, duplicates | - |
| REST, MCP, store, configuration, logging, metrics; web shell, dashboard, mocks | none of their own, or I/O | | | | |

`PROJECT.json` lists every part with its sources, and the hazards: what is hard
to test in this code, each at its line, with the properties that watch it.

## 2. The modules

| module | models | abstract / detailed |
|---|---|---|
| `PeerConnection` | one `PeerConnection` with overlapping callers, its lifecycle goroutines and subscribers | detailed |
| `RequestReply` | what `messaging.Sender` promises its callers | abstract |
| `Sender` | `concreteSender` and `peerCorrelator` for one peer | implements `RequestReply` |
| `Execution` | one `sessionRecord`, the goroutines of `runContinuous`, the engine's walk and the API calls | detailed |
| `Behaviour` | `protocol.Behaviour` for one session | detailed |
| `Debugger` | the debugger page, with the execution as the page sees it | detailed |
| `ScenarioBuilder` | the editor page, its draft store and the server's scenarios | detailed |
| `AvpTree` | the operators on AVP trees (`avpTree.ts`) | operators |
| `ScenarioTabs` | the tabs' operations on a draft, with undo and redo; uses `AvpTree` | detailed |
| `AiChat` | the chat page, its streams and the agents behind them | detailed |
| `PeersPage`, `SubscribersPage`, `SettingsPage` | one page each with its queries, mutations and handlers | detailed |
| `Console` | the router: the three pages, each on its route | composition |
| `MC...` | symmetry for TLC | |
| `...Proofs` | theorems about the module they name; `ConsoleProofs` has those about the three pages as well | |

Definitions whose comment begins "Faulty:" or "A likely bug:" are variants of
the definition that follows them. No specification uses them; put in place of
the original they make a property fail, which shows that the property depends
on that code. `map` in `PROJECT.json` gives every other definition its lines.

### PeerConnection

A *run* is one execution of `run`; `run[r]` is where it stands, in the order of
the loop: `top`, `dialling`, `backoff`, `dialled` (active connection stored,
state not yet), `waiting` (in `waitForDrop`), `lost` or `leaving` (torn down,
to announce it), `exit` (the deferred cleanup), `idle`. A *caller* is a
goroutine in Connect or Disconnect; each critical section of `muLife`, the
cancel, the wait and the two halves of replacing the subscriber set are actions
of their own. `transitionTo` stores the state and leaves the event in `pend`;
`emit` delivers it later, because the code holds no lock around the two. A full
channel loses its oldest event (`Deliver`).

Connect and Disconnect have no lock of their own, and the manager calls them
straight from HTTP handlers, so they can overlap. The variable `overlap`, fixed
at the start, says whether they do: some properties hold always, others only
for calls made in turn, and the formula says which. The wait of Disconnect is Go's
WaitGroup: it returns at once when no run is counted, and otherwise blocks until the
count comes to nothing (`Release`); if a Connect has counted a new run before the
released call goes on, `Wait` panics, which the HTTP server recovers from, and the
subscribers are not closed (`WaitPanics`, under overlap only). The environment drops links
(`PeerDrops`) and ends the application's context (`RootCancel`).

Left out: `HandleFunc`, `activeMgr`, the configuration check and the lengths of
delays.

### RequestReply and Sender

`Sender` follows Send from the state check (`CheckState`) through `Conn`
(`TakeConn`), `correlatorFor`, whose first call subscribes to the peer's states under
`s.mu` (`Subscribe`), the build and `register`, `WriteTo` (`Write`) and the final select (`ReceiveResponse`, `CtxDone`). `dispatch` takes the entry
out under the lock and `Forward` sends to the channel outside it. `WatchEvent`
and `WatchExit` are `watchPeerState`. The peer is what the Sender can see of
it: a state, a connection, a stored transition and the event that follows it;
its calls are made in turn here. Disconnect ends in two steps, as in the code: it closes
the channels of its subscriber set (`CloseSubscribers`) and puts a new set in its place
(`ReplaceSubscribers`); a watch channel added in between is an `orphan`, which gets no
event and no close. A link can be dead before this side notices,
and a write to it may still succeed. The OCS answers on the link a request came
in on; the handler may run late, again, or never.

`RequestReply` is the interface's promise: a Send ends once, with an answer or a
failure, and with an answer only if the OCS gave one to that request. The
refinement maps every error of `Send` to a failure.

### Execution

`state`, `stepIdx`, `history`, `stopped`, `interrupted` and `cancelOf` are the
fields of `sessionRecord`; each run of `runContinuous` is a record in `run` with
the locals of `RunContinuous` and `runStepLoop`. The walk has an action for each
point where the code looks at its channels (`PassCheck`, `StepCheck`, `Delay`,
`GotoDelay`) and for each side of an exchange (`Execute`, `Answered`,
`SendFails`, `SendCancelled`). `Handles` is the switch on the result action,
`Continues` the end of a round of a repeated step, `Jumps` the jump to the
closing request, whose verdict the code ignores. What a scenario contains -
delays, guards, repeats, handlers - is left open: every choice a scenario could
make is allowed at every step.

The API calls are cut where they give up `rec.mu`: Step tests the mode without
it, takes the position under it, executes without it, records and finishes
under it. Stop tests and closes the channel, cancels, and marks the state in
steps of their own; closing a channel twice panics, which the HTTP server
recovers, and the rest of the call is lost. `overlap` works as in
`PeerConnection`.

Left out: overrides, events and their subscribers, `done`, iteration counts,
metrics, assertions, and the history of continuous sessions.

### Behaviour

One session. `send` are engine goroutines in Send, `auto[n]` is the request the
Behaviour made under number n. A timer that runs is `armed`; one that expired
and whose callback waits for `b.mu` is `firing` and past cancelling. `builders`
says whether the two request builders are wired (production wires none).
`observeCCA` has one disjunct for each of its four endings. `handed` and `seen`
record numbers for the properties only.

### Debugger

`run` and `signals` are the execution as the page can see it; `Execution` models
it in full. `cached`, `fetch` and `stale` are the polled query: a fetch reads the
server when it starts and arrives later. `stream` is the execution's event
channel, which drops what does not fit (`broadcast`) and breaks (`StreamBreaks`).
`page` is the store; `Transitions` is its table and `ingestSnapshot` and
`ingestSse` are its reducers. `call[k]` is a call that is out, cut where the code
awaits: `StepBegins` and `StepEnds` at the server, then the snapshot the store
asks for (`GetsSnapshot`, `SnapshotArrives`). `overlap`, fixed at the start, says
whether the user acts while a call is out.

### ScenarioBuilder, AvpTree and ScenarioTabs

In `ScenarioBuilder` a scenario is an id and a version of its content. `store` is
`scenarioDraftStore` with both stacks, `store.base` (history) what was loaded or
saved last, `saves` the saves that are out with the id, the content and the page
they came from. `ScenarioTabs` opens that content: variables with the places in
which `selectors.ts` looks for references to them (AVP values, service fields, step
overrides), services, steps, and a tree of AVPs, which `AvpTree`
represents as a function from paths to nodes. A `{{NAME}}` in a generator's parameter
and a name in a step's expression refer to variables too; the code neither finds nor
rewrites them, and the model leaves them out. A tab's selection and its open
question (`ui`) stay when undo and redo replace the draft.

### AiChat

A stream is a turn. `thread` holds items with the streams their text came from;
`queue[s]` holds the events the page has not read; `server[s]` is what the agent
does (asking the model, waiting for leave, done). `abortRef` is the one handle
the page keeps. The histories `stopped`, `astray` and `outlived` name the streams
the properties make exceptions for, each with the code's reason in its comment.

### PeersPage, SubscribersPage, SettingsPage, Console

Each module has the server's data with the handlers' effects, the query cache, the
mutations (`calls`, `saves`, `tasks`: asked, handled, answered, done), and the
dialogs. A query answered late carries what the handler read when it ran. A write of a
list by an event or an answer is a success of its query, so it ends the failure of the
last request as well (`setList`, `updateReturns`, `deleteReturns`).

In `PeersPage` an event of the stream carries the configuration of the time the
stream was opened, as `sse.go` sends it; the id of a deleted peer (`gone`) is not given
again, as the database generates it. The connection manager subscribes to a peer when the
server starts and again at each Connect (`diameter/manager/manager.go:279-281`,
397-403), and the subscriptions end when the peer is stopped: `feeds` are those a peer
has, each change is told once by each, and what different ones tell may be interleaved
(`publish`, `applyPeerUpdated`). It is assumed that they have told what they had to
tell by the time a stream is opened again. Three histories name the rows the table may
have wrong: those an older answer was written over (`overtaken`), those an event has
written with an old configuration or after a newer one (`replayed`), and the peers that
had no row when a reload failed (`missed`).

In `SubscribersPage` a manufacturer is
the set of its models' allocation codes, so that "the device of this code" is a
lookup as it is in the form. The handlers check no device
(`api/subscribers.go:142-148`, 190-197, `mcp/tools_subscribers.go:165-171`), so the
stored records have any code and any IMEI to begin with, of that code or not, valid or
not, and `rederive` replaces an IMEI of another code and one that is not valid.

In `SettingsPage` three resources share the
machinery of a query (`asks`, `shown`, `invalid`). A section's component is unmounted
when it is left: its query's request is cancelled, with the wait of a mutation for it
(`setActiveSection`); its mutations go on, and their answers invalidate a query that
is not mounted without asking it (`Invalidated`); the next opening asks. A query that has
data and was not invalidated is asked at an opening or not, as its data are older
than the query client's stale time or not. Data that nobody looks at are never
dropped from the cache (five minutes in the code). A save of the AI card without a key
takes two steps at the server, as its handler reads the stored key under one lock
(`KeyIsRead`) and replaces the configuration under another (`TaskHandled`). A server
that was started without an assistant refuses every save.

`Console` puts each page on its route; a page that is not mounted does not move.

## 3. The runs

| run | bounds | shows |
|---|---|---|
| `peer_connection` | 2 callers, 2 runs, 1 subscriber, buffer 1 | safety of `PeerConnection` |
| `peer_liveness` | 2 callers, 2 runs, no subscriber | Disconnect returns, a lost link returns |
| `sender` | 2 Sends, 2 links, buffer 2 | no panic, refinement, unblocking |
| `execution` | 2 callers, 2 steps, 2 runs, no limit on passes, 1 round | safety under overlap and in turn |
| `execution_in_turn` | 1 caller, 2 steps, 2 runs, limit 0 or 1, 2 rounds | numbers, Stop and Interrupt |
| `behaviour` | 2 engine goroutines, 2 timers, numbers 0..2 | automatic requests, re-auth |
| `debugger` | 2 steps, 2 rows, event buffer 1 | rows and ends shown are real, the last rows appear |
| `scenario_builder` | 1 stored and 1 new scenario, 2 contents, 1 undo entry, 2 edits, 1 save out | the draft shown, clean, undone |
| `scenario_tabs` | 2 edits, 4 steps, 2 services, 5 AVPs | the references the code rewrites, and the trees, survive edits, undo and open questions |
| `ai_chat` | 2 turns, 2 sayings each, 1 event ahead | whose text a message is, what is sent again, what the indicator says |
| `console` | 2 peers, 2 calls, 1 change of a connection or edit, 1 loss; 2 subscribers, 2 saves, 2 codes, 2 picks, 1 edit, 1 loss; 2 dictionaries, 1 tool, 1 endpoint, 1 model, 2 mutations, 1 edit, 2 changes of section, 1 loss | the table settles, toasts tell changes; what the form stores, and leaves alone; what an open section shows, what a save writes |
| `peer_conn` | as `peer_connection`, no subscriber | a comment the code does not keep |

Why the bounds are enough. Every conflict in this code is between two parties:
two callers, a caller and a goroutine, an old goroutine and a new one, an old
timer and a new one, an answer and an event, an answer and the page that came
after the one that asked. So there are two of each. Runs are reused once they
have exited, so two of them still give endless sequences of connects. A
subscriber buffer of 1 overflows at once; the watcher's buffer of 2 holds a drop
behind another event. Two links give one reconnect. Two steps give a first, a
last and a jump; one resume gives an old and a new run. Sessions and peers share
nothing but maps, so one of each is modelled on the server's side.

On the web side an undo stack of 1 overflows with the second edit (a stack of 2,
with 3 edits, was checked once and takes too long to be kept); one save out
while another scenario is edited is all it takes to overtake; five AVPs give a
group in a group with siblings on both sides. In `console` one peer is known to
the connection manager and one was created after the start; one change of a
connection or of a configuration lies between any two messages; one code is in the
catalogue and one is not, so an IMEI may be of the device picked or of another, and two
picks give a manufacturer and a model, or take one back. Another code of the same
maker, another model and a third change of section were checked page by page, and take
too long together. The settings' budgets are small (2 mutations, 1 edit, 2 changes of
section: a section left with a mutation out and opened again), because what is said of
them is proved for all values. The bounds on runs, links, numbers, edits, calls, losses
and visits are guards (`runs < MaxRuns`, `edits < MaxEdits`, ...); none of the proofs
depends on their values.

Deadlock checking is on for the peer, sender and execution runs, where something
can always happen. It is off where the system may rest: a session that is over
with no number left (`behaviour`), and the web models, in which a user who has
used up the edits, turns or calls allowed need do nothing.

### Fairness

Go schedules every goroutine that can run, so the steps of lifecycle
goroutines, calls in progress, the watcher, Sends, runs and timer callbacks are
weakly fair. `DialSucceeds` is strongly fair: a peer that is dialled for ever
answers some day; without this no reconnect could be promised. A dial and a
backoff end by themselves (timeouts). Nothing is assumed of users (they need
not call), of the OCS (it need not answer), or of contexts (a run has no
deadline). `InterruptTakesEffect` therefore excepts a run that waits for an
answer for ever.

In the browser, a query that is due is fetched (the poll's timer), its answer
arrives and is rendered, an event that has arrived is delivered, a call that was
answered resumes, and the server handles what it was sent: these are weakly fair
in `Debugger`; in `ScenarioBuilder` the fetches and renders are, and not the
saves, whose answers `EditorFills` must do without; in `AiChat` the reader and an
agent that is not waiting for leave are. Nothing is assumed of the user, of the
stream (it may break), or of the run the debugger shows. `FinalRowsAreShown`
therefore speaks of runs that end.

### The failing run

`peer_conn` (`ConnWhileConnected`): Connect during a Disconnect that waits for a
goroutine still dialling. The new goroutine connects; then the old one's dial succeeds
and overwrites the active connection (`diameter/conn/connection.go:376`), and seeing its
cancellation it takes that back (394-396). The new goroutine waits on its open link, the
state is connected, and `Conn` returns nil. See `findings`.

### Where the code differs from what it says, or surprises

Met while modelling. The models do what the code does in each case; properties
that would forbid it say so with an explicit exception.

Server:

- A peer's watcher ends at the first Disconnect and is never started again, so
  after a reconnect nobody closes pending entries (`diameter/messaging/sender.go:232-250`);
  nor does a watcher that subscribed between the two steps in which Disconnect replaces
  its subscriber set (`diameter/conn/connection.go:289-290`). `DropUnblocks` excepts both
  (`Unwatched`); `EveryDropUnblocks`, the comment at 255-258 as a formula, does not: it
  fails, and is in no run.
- A run that ends after Stop turns aborted into completed
  (`api/session_manager.go:437-441`; docs/ARCHITECTURE.md:417-420).
- An interrupted session resumes at its first step: the position is raised to the
  end before it is tested (`api/session_manager.go:412-424`, comment 524-525).
- Two overlapping Steps execute on one context (`api/session_manager.go:647-685`;
  `engine/step_executor.go:129-130` says a context has one goroutine).
- A re-auth callback that waited for the lock while an answer armed another timer sends
  its request all the same, so one Validity-Time can bring two, and drops the reference to
  the new timer (`diameter/protocol/behaviour.go:303`), so Stop leaves that one running:
  `StopCancelsEveryTimer`, the comment at 389-390 as a formula, fails and is in no run.
  `ReAuthTakesPlace` says that a pending re-auth is made unless it is put off by such an
  answer, and nothing of its being made once. `Behaviour.Stop` keeps the session map its
  comment says it clears.

Debugger (`pages/debugger`):

- The table of transitions says that terminal states have no outbound ones
  (`executionStore.ts:172`); the failure of a Send writes `paused` over any state (489).
  `EndIsLeftByFailedSendOnly` says that this is the only way; `TerminalIsFinal`, the
  comment as a formula, is in no run.
- A finished run that is opened shows `pending` until its first event; the skip of
  the last step leaves `paused`; a Stop that fails leaves `aborted`; a run to end
  whose first call fails leaves `running`; the event `terminated` is ignored.
- A snapshot wipes typed overrides; toggled services are never sent; the rows a
  continuous run adds after Stop are not fetched, which is why `FinalRowsAreShown`
  excepts stopped runs.

Scenario editor (`pages/scenarios`):

- The answer of a save replaces whatever draft the store then holds and navigates
  back to its own scenario; edits made while it was out are marked as saved
  (`ScenarioBuilderPage.tsx:187`, `scenarioDraftStore.ts`).
- Until the new detail arrives the form shows the draft before it, and a save puts
  that under the new id (`ScenarioBuilderPage.tsx:326`). A later refetch is ignored.
- The browser's Back asks nothing about unsaved edits. A draft undone as far as the
  stack goes is called clean, though the stack may have dropped the edits before
  (`CleanMeansSaved` excepts that; `CleanMeansLoaded` does not, and is in no run).
- In the tabs: a removal asked before an undo removes another AVP, or turns a
  leaf that took the parent's place into a group (`FrameTab.tsx:455`); its test of what
  lies below compares texts of paths by `startsWith`, so 1 is taken for a part of 10
  (457); new variables are named by the count of the old ones and can repeat a name
  (`VariablesTab.tsx:597`); removing a service renumbers those after it while names and
  steps keep the old positions (`ServicesTab.tsx:368`); changing the model reshapes
  the services and provisions variables for the draft before the change.
  `EditsKeepReferences` excepts these.
- Renaming or removing a variable leaves a `{{NAME}}` in a generator's parameter
  (`VariablesTab.tsx:316-327`; `provisionVariables.ts:100` writes one) and the name in a
  step's expression (`StepsTab.tsx:364`) as they are: `selectors.ts:36-143` does not
  look there, and the variable counts as unused. Neither is in the model, so
  `EditsKeepReferences` speaks of the other three kinds only.

AI chat (`pages/ai-assistant`):

- `approvePermission` "must be called for every Deny / Once / Always action"
  (`useChatSse.ts:36-37`); the page does not even take it from the hook
  (`AiAssistantPage.tsx:95`), so an agent that asks waits until it is given up.
  `BusyEnds` excepts a waiting agent.
- `/clear` while a stream is read leaves the stream writing into the new thread; so
  does leaving the page, which loses the abort handle; the end of a stopped stream can
  clear the indicator of the next one. These streams are `astray`.
- A stopped turn is marked as aborted only in its trailing messages: text before a
  tool call of it is sent again (`chatStore.ts:357`). Destructive tools prompt
  "always" (`permissionState.ts:24`), but tiers allowed on the settings page run
  unasked at the server.

Peers (`pages/peers`, `api`):

- The answer of a start ("connecting") is written over the connected row the event
  has made (`api/resources/peers.ts:158`). `TableIsServers` excepts the rows that are
  `overtaken`, `replayed` or `missed`, so it does not catch these faults, but says that
  they are all.
- Events carry the configuration read when the stream was opened (`api/sse.go:190-206`):
  one after an edit undoes it in the cache, one after a deletion brings the peer
  back. A peer created after the start is not known to the connection manager, and
  starting it fails until the server is restarted.
- A reload that fails shows "Peers unavailable", but the next event or answer that is
  written to the list ends that (`applyEventToCache.ts:51`, `PeersPage.tsx:208`): the table
  is back without the peer the reload was to bring, as after a creation
  (`api/resources/peers.ts:67`), and nothing asks again.
- Connecting a peer subscribes to it once more (`diameter/manager/manager.go:397-403`
  beside 279-281), so each change of it is published twice, and a late second telling of
  an old status can be the last one written. `ToastsTellChanges` counts a change as told
  once no event of that peer is left to apply, so a toast that repeats it until then, or
  tells it back and forth, is allowed; it catches a toast with no such event behind it.
- A failed start goes back to the detail it guessed from, however old. After a lost
  stream the cache is invalidated when the stream breaks, not when it is open again
  (`api/sse/SseProvider.tsx:37`, whose comment promises a fresh paint after the reconnect).
- A late answer closes whichever drawer is then open (`PeersPage.tsx:583`,
  `SubscribersPage.tsx:393`, `SettingsPage.tsx:639`).

Subscribers: the catalogue, arriving late, resets the form with what was typed in it;
an update before it arrives erases the device, and so it does for a device the
catalogue does not list; the name is never sent and is erased. A record whose IMEI is
of another code than its device, or not valid, is stored as it is by the handlers
(`api/subscribers_test.go:173-196` stores one); its form makes another IMEI as soon as
it is opened (`SubscriberForm.tsx:158-165`), and an update of the MSISDN alone sends
that one. `UntouchedDeviceIsSent` excepts the IMEI that does not fit, and
`ImeiFitsDevice` is about what the page stores, not about what is stored.

Settings (`pages/settings/SettingsPage.tsx`):

- A section that is left while a mutation is out is not reloaded by the answer, and a
  reload that is out is cancelled (287-293, `api/resources/dictionaries.ts:44,52`). The
  next opening shows the old list until its own request is answered; for a dictionary
  list `SettledPagesAreServers` excepts that time (`overdue`), and for any section a
  reload that was lost or joined a load answered before (`stale`).
- A save without a key reads the stored key and writes it back
  (`api/ai_config.go:87-98`): another save that sets a new key in between is undone.
- The card is filled once. A save of a card that was filled before another save, of
  another tab or of a section opened again too soon, takes that one back, and the save of
  a card that was never filled, as its load failed, writes its blanks.
  `SavesKeepWhatWasFilled` says no more than that a save writes what its card was filled
  with, and it excepts the key of a save that another one came between.
- The dictionary dialog's form lies in the page's form, so submitting it
  submits both (193, 630); a save clears a key typed while it was out
  (881); another provider's key is kept when the field is blank; the comment at 770-771
  still calls the fields disabled.

## 4. The proofs

All theorems hold for every value of the constants, and are about the specifications
TLC runs. They assume the named `ASSUME` of each module (positive buffers and bounds,
`None` outside the sets), which TLC evaluates in the runs; for the pages these are
`PeersPageBounds`, `SubscribersPageBounds` and `SettingsPageBounds`, which `Console`
assumes. `AiChatProofs` uses only `NoneIsNothing`: an absent prompt or handle (`null`
in the code) differs from every one that is there; `DebuggerProofs` uses only
`DebuggerAssumption`, that a scenario has a step and the buffers a place. Each invariant
is proved from an inductive one by one lemma per group of actions,
and the temporal step is closed with PTL.

| module | inductive invariant | why it is needed | theorems |
|---|---|---|---|
| `PeerConnectionProofs` | types; a call that spawns or cancels holds its run (`CallsHoldRuns`); quiet means stopped; every live run is the one `pc.cancel` cancels, or a Disconnect holds it (`CancelOwnsTheLiveRun`) | one live run follows only from who owns the cancel function | `PeerTypes`, `QuietPeerIsStopped`, `OneRunLives` |
| the same, in turn | as long as no calls overlapped: one call at a time, and one goroutine that has not exited (`CallsInTurn`, `OneRunInTurn`); its link is the published one (`LinkIsPublished`); an event on its way carries the present state (`EventsOnTheirWay`), and with none on its way every current buffer ends on it (`BuffersEndOnState`) | what a waiting goroutine published could be taken back only by another goroutine's cleanup, and a second one only comes of an overlap | `LiveLinkIsPublished`, `SlowSubscriberEndsOnState` |
| `SenderProofs` | types; a peer that is up has a link; for each Send: nothing before registration, fresh entries, reachability, genuine answers, honest results | an entry must be out of the map before its answer is forwarded; an answer in a channel must be one the OCS gave | `SenderTypes`, `EntriesAreRemoved`, `WaitersAreReachable`, `HandlerNeverPanics`, `SenderKeepsPromise` |
| `ExecutionProofs` | types; a run that walks starts before the last step (`Walks`); an active session has a run; a paused one stands inside the steps | the walk's indices are typed only if it started inside; resume and the end of a run need each other's half | `ExecutionTypes`, `NoStrandedSession`, `ResumeNeverPanics` |
| the same, in turn | as long as no calls overlapped: one call at a time; a goroutine at work belongs to a session that is active or stopped, and no call executes a step beside it (`CallsInTurn`, `RunsInTurn`); the history is the steps behind the position, with the one being finished (`WalkInTurn`); the number to be sent next is above all that were sent, wherever the session can go on from (`NumbersInTurn`) | a number is spent and the next one set in separate steps, so freshness needs that nobody else has sent in between | `QuietSessionHasNoRun`, `OneSenderInTurn`, `HistoryIsComplete`, `NumbersAreFresh` |
| `BehaviourProofs` | types; the counter is above all numbers given and seen; an unsent re-auth belongs to a tracked session that Stop terminates | an automatic number is the counter's next; Stop reaches requests already built through the session's flag | `BehaviourTypes`, `AutomaticNumbersAreNew`, `TerminationIsFinal`, `NoLateReAuth` |
| `ConsoleProofs`, settings page | full types; the card agrees with the configuration it was filled with but for the touched fields (`CardAgrees`); so does every save that is out, which has the stored key once the handler has read it, unless another save came between (`SavesAgree`); a save that may clear the key still has its card (`SavesHaveCard`) | the property is about a step of the server, on a value that left the card long before | `SettingsTypes`, `CardSavesKeepFilled` |
| the same, settled | what a query has, or an answer brings it, is what the server has, unless a mutation was made that the page is not told of (`Fresh`); an invalid query of the open section is being asked (`AskedAgain`), and one of another section is not (`Idle`) | the page settles on an answer that left the server before it; only the mutation made since explains the difference, and it asks again or leaves that to the next opening | `SettledSectionsShowServer` |
| `ScenarioBuilderProofs` | types in full; the stacks fit the capacity together, their snapshots are of the draft's scenario, a clean draft has nothing to undo, and undoing everything leads to what was loaded (`StoreOK`); a page of a scenario names it and a filled one finds its own draft (`PageOK`) | a bound on each stack alone is not inductive: undo moves a snapshot to the other stack and must find room there, or the round trip loses one | `EditorTypes`, `OwnDraftShown`, `CleanDraftIsSaved`, `UndoRedoRoundTrip` |
| `ConsoleProofs`, peers page | types in full; ids are not given again, one creation is out at a time, a peer whose connection is up has a goroutine that tells its changes (`Identity`), and the event of a peer that was queued last has its connection's status (`EventsEndInState`); a row is the server's, up to a status an event will bring, unless a call has guessed at it or is answered with what it does not show; an answer, a guess's way back and a list answer that nothing has passed over are as good, and a stored peer has a row unless one of the histories says why not (`RowsInv`) | the property speaks of a quiet page only, so the invariant has to say what every writer still out will write, whichever comes first | `PeersTypes`, `PeersTableSettles` |
| the same, toasts | while a peer's connection has not changed since its last toast, every event, answer and list on its way has its status, and a guess goes back to what the toasts compare with (`StillEvents`, `ToastsInv`) | a toast is raised by a write that left the server several steps before | `PeersToastsAreTrue` |
| `ConsoleProofs`, subscribers page | full types; a record on its way to the server, or on its way back, has an IMEI of its device (`RecordsFit`); what the form holds would make one (`FormFits`); an untouched form shows its row's device, and its IMEI if that fits (`RowIsShown`) | what is stored was sent and what is sent was derived, while what the form was filled from may be anything; the reset keeps `RowIsShown` only because nothing can be picked before there is a catalogue | `SubscriberTypes`, `DevicesStayWhole`, `UntouchedDevicesAreKept` |
| `ConsoleProofs`, console | each page's invariant, on its route | on its route a page's steps are the console's; on another nothing is claimed | `ConsoleTypes`, `TableSettles`, `ToastsAreTrue`, `StoredDevicesAreWhole`, `UntouchedDevicesAreSent`, `SavesKeepFilled`, `SettledPagesShowServer` |
| `DebuggerProofs` | types in full; whatever may be written to the page - the cached snapshot, a fetch that arrives, the snapshot a call brings - shows the history as it was (`HistoryInv`) | the sources of the rows overtake each other, so what is said of the page has to be said of each; a history only grows, so rows once right stay so | `TypeCorrect`, `ShownRowsAreTheHistory` |
| the same, in turn | one call is out at most, a step that is being made has a paused run, and a run that is not over has no announcement of an end in the stream, a snapshot, a call or the page (`InTurnInv`, `NoEndInSight`); what runs without a call is a continuous run (`RunInv`) | an end is announced before its snapshot; no announcement may be out of a run that goes on | `ShownEndIsTheEnd` |
| the same, steps | types only | each writer of the state is the reducer, which keeps an end, or the failed Send | `ShownEndIsLeftByFailedSend` |
| `AiChatProofs` | types; a stream that is read and not astray is the only one open, the page has its handle, and the thread ends with its turn (`LiveInv`); streams are used in order (`OrderInv`); an item has text of one stream, those astray apart (`ThreadInv`); a stopped turn is over and marked but for its tool calls (`StoppedInv`); a request carries earlier turns only (`SentInv`) | a token goes to the last item, whoever sent it, and an abort marks the last two: both reach the right turn only because the thread ends with it | `TypeCorrect`, `ChatInvariant`, `MessagesStayOfOneTurn`, `StoppedTurnIsNotSent`, `FinishedTurnIsOver` |

`SenderKeepsPromise` is the refinement: initial states map to initial states,
and every step to a step of `RequestReply` or a stutter. In `ConsoleProofs` the pages
are the console's own instances, `peersPage` and `settingsPage`; of the subscribers
page there is a second one with a shorter name, and `SameSubscribersPage` says, by
expanding both, that it is the same. In `DebuggerProofs` and `AiChatProofs` each action
is first shown to have one of a few effects on what the invariants speak of
(`Effects`), and the invariants are shown of the effects.

Proved and not repeated by a run: the type invariants of the server's modules,
`QuietMeansStopped`, `NoStaleEntry`, `WaiterIsReachable`, `ResumeInRange`,
`TerminationSticks` and `NoReAuthOnceOver`.

Proof attempts found three errors that no run had shown. In the peers page a new peer
could take the id of one deleted before, which no peer of the program does, and with it
the deleted peer's late answers; `gone` now keeps those ids. Two were in the settings page:
filling the card forgot that a typed key was touched, and the history `stale`
forgot too early that a list of dictionaries was old, namely when it was asked for
again, so that `SettledPagesAreServers` failed from the third change of section on.
The run now has three. In `ScenarioBuilder` the proof asked for an assumption
`Init` had taken for granted: that some content can be saved.

`ShownRowsAreHistory` says of each row shown that it is the history's at that
position, or pending and the last. It used to compare the rows that are not pending,
filtered, with a beginning of the history; a filter is computed by recursion and
cannot be reasoned about here, and row by row it says a little more, namely that
the pending row is at the end.

Only model-checked:

- the liveness properties (`DisconnectReturns`, `LostLinkReturns`, `DropUnblocks`,
  `StoppedRunEnds`, `InterruptTakesEffect`, `ReAuthTakesPlace`, `FinalRowsAreShown`,
  `EditorFills`, `BusyEnds`), which need fairness and ENABLED and are out of the
  prover's reach;
- the properties of `ScenarioTabs`: `TypeOK`, `EditsKeepReferences` and `MovesKeepNodes`.
  `provisionVariables` adds a variable per service by recursion over the services, and
  what it returns for any number of them takes an induction over data, which no
  installed prover does; the same of the trees, whose closing of gaps counts siblings by
  Cardinality and picks paths by CHOOSE. A part of these (a move
  of a leaf between groups) may be within reach and has no proof.

## 5. Not modelled, and what is left

The next steps, in order:

1. `PeerManager`: registry, Start and Stop, fan-out of two peers, composed with
   the peer's subscriber channels. Abstract specification: each event of a peer
   reaches each subscriber at most once and in order.
2. `ExecutionEvents` (broadcast, Subscribe, the sleep event, `done`, the SSE
   handler) with the staged overrides in `Execution`; the executions page, whose
   `optimisticPrepend.ts:23-38` puts a created execution in front of every cached
   list whatever its filter.
3. The server's side of the AI sessions: a decision reaches the call it was made
   for; eviction against a running agent. `AiChat` has the page's side only.
4. The template engine's coercions with their widths, as operators checked
   against a reference definition; shutdown order; loading of dictionaries.
5. Proofs: the tree operators of `AvpTree` (a tree stays closed under a move), which are
   what the types and the moves of the scenario tabs rest on.

Left out of the modelled parts: in `Execution`, overrides, event subscribers,
iteration counts and metrics; in the debugger, the AVP editors and the clocks; in
the tabs, drawing, validation messages and the parser of expressions; in the chat,
drawing, completion and token counts.

Not planned: REST and MCP adapters (one call each), the store (PostgreSQL), the
codec and LLM clients (I/O and conversion), logging, configuration, metrics; the
dashboard, shell, about page and error dialog (read-only views whose state does not
outlive a render) and the mock backend (a stand-in for the server in development).
