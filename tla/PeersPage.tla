-------------------------------- MODULE PeersPage --------------------------------
(* The peers page of the web application (PeersPage.tsx, PeerForm.tsx), the        *)
(* query cache it is drawn from and the mutations that patch that cache            *)
(* (peers.ts), the application's event stream (SseClient.ts, SseProvider.tsx,      *)
(* applyEventToCache.ts), the toasts raised from the list                          *)
(* (usePeerStatusToasts.ts), and the handlers they talk to (peers.go, sse.go).     *)
(*                                                                                 *)
(* A row of the cache is written by a list answer, by an event, by the answer of   *)
(* a call and, before that answer, by a guess of what the call will do; no two     *)
(* of them come in an agreed order.  A peer's configuration is a version number,   *)
(* the newest edit having the largest; an edit does not rename the peer.  The      *)
(* connection manager forwards a peer's events by one goroutine for each time it   *)
(* has subscribed to the peer (manager.go), so a change may be told twice and a    *)
(* slow goroutine may tell it after a newer one.  When the stream is opened again  *)
(* they have told what there was to tell.                                          *)
(*                                                                                 *)
(* Bounds: MaxCalls mutations, MaxChanges changes of a connection and edits        *)
(* typed together, MaxBreaks lost requests, answers and streams.  Managed are      *)
(* the peers that existed when the server started, the only ones its connection    *)
(* manager knows.                                                                  *)
EXTENDS Naturals, FiniteSets

CONSTANTS Peers, Managed, MaxCalls, MaxChanges, MaxBreaks, None

VARIABLES
  config, live,        \* the server: a peer's stored version, or None, and its connection
  feeds,               \* the goroutines that forward a peer's events: 0 is the one of the
                       \* server's start, the others bear the call that started the peer
  gone,                \* the deleted peers, whose ids are not given again
  moves, breaks, edits,
  known, events,       \* the stream: the versions read when it was opened, None while it is
                       \* closed, and the events not applied yet
  rows, details,       \* the cache: the list, None until it has been loaded, and the details
  listFailed, fetch,   \* the last list request failed; the one that is out
  calls,               \* the mutations, in the order they were asked
  drawer, deleteTarget, prompts,
  lastStatus,          \* what the toasts compare with, None for a peer not seen yet
  overtaken,           \* history: peers whose row was last written by an answer older than
                       \* what the row already showed, or whose last save was not answered
  replayed,            \* history: peers whose row an event last wrote with an old version, or
                       \* with the status a change had when a newer one had been told
  missed,              \* history: stored peers that had no row when a reload failed
  moved                \* history: peers whose connection changed since their last toast

server  == <<config, live, feeds, gone, moves>>
stream  == <<known, events, breaks>>
cache   == <<rows, details, listFailed, fetch>>
dialogs == <<drawer, deleteTarget, prompts, edits>>
past    == <<lastStatus, overtaken, replayed, missed, moved>>
vars    == <<server, stream, cache, calls, dialogs, past>>

Live      == {"stopped", "connecting", "connected", "error"}
Transient == {"connecting", "disconnecting", "restarting"}
Statuses  == Live \cup Transient
Versions  == 0..MaxChanges
Calls     == 1..MaxCalls
Closed    == [kind |-> "closed"]
Idle      == [phase |-> "none"]

\* None is neither a peer nor a list of any.
PeersPageBounds ==
  /\ Managed \subseteq Peers /\ IsFiniteSet(Peers)
  /\ {MaxCalls, MaxChanges, MaxBreaks} \subseteq Nat
  /\ None \notin Peers /\ None \notin Versions
  /\ \A S \in SUBSET Peers :
       None \notin [S -> Versions] /\ None \notin [S -> [config : Versions, status : Statuses]]

isLivePeer(status) == status \in {"connected", "connecting", "error"}

Stored == {p \in Peers : config[p] # None}

peerStateString(p) == IF p \in Managed THEN live[p] ELSE "stopped"

toPeerResponse(p, status) == [config |-> config[p], status |-> status]

listPeers == [p \in Stored |-> toPeerResponse(p, peerStateString(p))]

Saves   == {"create", "update", "delete"}
Guessed == {"start", "stop", "restart"}

Out(c) == calls[c].phase \in {"asked", "second", "answered", "failed"}

-----------------------------------------------------------------------------------
(* Writing the cache.                                                              *)

\* A likely bug: a status on its way moves the baseline the next toast compares with.
observeTransients(new) ==
  lastStatus' = [p \in Peers |-> IF p \in DOMAIN new THEN new[p].status ELSE None]

\* Every write of the list is looked at: a settled status that is not the last settled one
\* raises a toast, except when the peer is seen for the first time.
observe(new) ==
  lastStatus' = [p \in Peers |-> IF p \notin DOMAIN new THEN None
                                 ELSE IF new[p].status \in Transient THEN lastStatus[p]
                                 ELSE new[p].status]

\* A toast is told from the step that raised it.
Toasted(p) == lastStatus[p] # None /\ lastStatus'[p] \notin Transient \cup {None, lastStatus[p]}

\* A change is told by the toast of the status it led to, when no event is left to apply.
Told(p) == Toasted(p) /\ lastStatus'[p] = live[p] /\ ~\E e \in events' : e.peer = p

forgetMoves == moved' = {p \in moved : ~Told(p)}

\* The list after a write: nothing at all is written while it has not been loaded.  A write
\* counts as a successful load, so it also ends the failure of the last one.
setList(new) ==
  IF rows = None
  THEN UNCHANGED <<rows, listFailed, lastStatus, moved>>
  ELSE rows' = new /\ listFailed' = FALSE /\ observe(new) /\ forgetMoves

Listed(p) == rows # None /\ p \in DOMAIN rows

patch(p, row) == IF Listed(p) THEN [rows EXCEPT ![p] = row] ELSE rows

writePeerToCaches(p, row) ==
  /\ details' = [details EXCEPT ![p] = row]
  /\ setList(patch(p, row))

\* What the mutations guess from, and go back to: the detail if there is one, which a list
\* loaded since does not bring up to date.
Cached(p) ==
  IF p \in Peers /\ details[p] # None THEN details[p] ELSE IF Listed(p) THEN rows[p] ELSE None

optimisticStatusPatch(p, status) ==
  IF Cached(p) = None
  THEN UNCHANGED <<details, rows, listFailed, lastStatus, moved>>
  ELSE writePeerToCaches(p, [Cached(p) EXCEPT !.status = status])

\* The calls and the list request that a write of the peers' rows gets ahead of.
passCalls(cs, ps) ==
  [c \in Calls |-> IF cs[c].phase \in {"asked", "second", "answered", "failed"} /\ cs[c].peer \in ps
                   THEN [cs[c] EXCEPT !.passed = cs[c].prev # None,
                                      !.late = @ \/ (cs[c].phase = "answered" /\ cs[c].op # "delete")]
                   ELSE cs[c]]
passFetch(ps) ==
  IF fetch.phase = "answered" THEN [fetch EXCEPT !.passed = @ \cup ps] ELSE fetch

-----------------------------------------------------------------------------------
(* The list request.                                                               *)

\* Asking again while a first load is out joins it; later it replaces what is out.
Refetched == IF rows = None /\ fetch.phase # "none" THEN fetch ELSE [phase |-> "asked"]

FetchHandled ==
  /\ fetch.phase = "asked"
  /\ fetch' = [phase |-> "answered", ans |-> listPeers, passed |-> {}]
  /\ UNCHANGED <<server, stream, rows, details, listFailed, calls, dialogs, past>>

FetchReturns ==
  /\ fetch.phase = "answered"
  /\ UNCHANGED <<server, stream, details, dialogs>>
  /\ rows' = fetch.ans
  /\ fetch' = Idle /\ listFailed' = FALSE
  /\ observe(fetch.ans)
  /\ overtaken' = fetch.passed
  /\ replayed' = {} /\ missed' = {}
  /\ forgetMoves
  /\ calls' = passCalls(calls, Peers)

\* The page then shows the failure even when it has rows, with a button to ask again, until
\* the list is written.
FetchFails ==
  /\ fetch.phase = "asked"
  /\ breaks < MaxBreaks
  /\ breaks' = breaks + 1
  /\ fetch' = Idle /\ listFailed' = TRUE
  /\ missed' = IF rows = None THEN {} ELSE Stored \ DOMAIN rows
  /\ calls' = [c \in Calls |-> IF Out(c) /\ calls[c].op \in Guessed
                              THEN [calls[c] EXCEPT !.value = None] ELSE calls[c]]
  /\ UNCHANGED <<server, known, events, rows, details, dialogs, lastStatus, overtaken, replayed, moved>>

Retry ==
  /\ listFailed /\ fetch.phase = "none"
  /\ fetch' = [phase |-> "asked"]
  /\ UNCHANGED <<server, stream, rows, details, listFailed, calls, dialogs, past>>

-----------------------------------------------------------------------------------
(* The event stream.                                                               *)

\* An event waits for those of its goroutine that are older, and for the replay of the
\* opening (order 0).  It is the last when the connection has not changed since.
Event(p, row, feed, order) == [peer |-> p, row |-> row, feed |-> feed, order |-> order, last |-> TRUE]

EventsOf(p) == {e \in events : e.peer = p}

\* A live event repeats the configuration the handler read when the stream was opened, and a
\* peer that was not there then has none.
publish(p, status, fs) ==
  LET row   == [config |-> known[p], status |-> status]
      order == CHOOSE n \in 1..(MaxChanges + 2 * MaxCalls) : \A e \in EventsOf(p) : e.order < n
  IN events' = IF known # None /\ p \in DOMAIN known
               THEN {IF e.peer = p THEN [e EXCEPT !.last = FALSE] ELSE e : e \in events}
                      \cup {Event(p, row, f, order) : f \in fs}
               ELSE events

\* Opening replays every stored peer, one event each.
StreamOpens ==
  /\ known = None
  /\ known' = [p \in Stored |-> config[p]]
  /\ events' = {Event(p, listPeers[p], 0, 0) : p \in Stored}
  /\ UNCHANGED <<server, breaks, cache, calls, dialogs, past>>

\* The list is asked for again when the stream is lost, not when it is back.
StreamBreaks ==
  /\ known # None
  /\ breaks < MaxBreaks
  /\ breaks' = breaks + 1
  /\ known' = None /\ events' = {}
  /\ fetch' = Refetched
  /\ UNCHANGED <<server, rows, details, listFailed, calls, dialogs, past>>

\* An unknown peer is appended, so a peer deleted since the stream was opened comes back.
applyPeerUpdated(e) ==
  /\ \A d \in EventsOf(e.peer) \ {e} : d.order = 0 \/ d.feed = e.feed => e.order < d.order
  /\ events' = events \ {e}
  /\ LET p == e.peer
         old == e.row.config # config[p] \/ ~\E d \in EventsOf(p) : d.last
     IN /\ details' = [details EXCEPT ![p] = e.row]
        /\ setList([q \in DOMAIN rows \cup {p} |-> IF q = p THEN e.row ELSE rows[q]])
        /\ overtaken' = overtaken \ {p} /\ missed' = missed \ {p}
        /\ replayed' = IF old THEN replayed \cup {p} ELSE replayed \ {p}
        /\ fetch' = passFetch({p})
        /\ calls' = passCalls(calls, {p})
  /\ UNCHANGED <<server, known, breaks, dialogs>>

\* The connection moves by itself: it is established, refused, lost, or tried again.
Moves ==
  /\ moves + edits < MaxChanges
  /\ moves' = moves + 1
  /\ \E p \in Managed, next \in Live :
       /\ <<live[p], next>> \in {<<"connecting", "connected">>, <<"connecting", "error">>,
                                 <<"connected", "error">>, <<"error", "connecting">>}
       /\ live' = [live EXCEPT ![p] = next]
       /\ publish(p, next, feeds[p])
       /\ moved' = moved \cup {p}
  /\ UNCHANGED <<config, feeds, gone, known, breaks, cache, calls, dialogs>>
  /\ UNCHANGED <<lastStatus, overtaken, replayed, missed>>

-----------------------------------------------------------------------------------
(* The mutations.                                                                  *)

Ask(c, op, p, value) ==
  /\ calls[c].phase = "unused"
  /\ \A d \in Calls : d < c => calls[d].phase # "unused"
  /\ LET prev == IF op \in Guessed THEN Cached(p) ELSE None IN
     calls' = [calls EXCEPT ![c] =
       [phase |-> "asked", op |-> op, peer |-> p, value |-> value, prev |-> prev, ans |-> None,
        passed |-> prev # None /\ Listed(p) /\ prev # rows[p], late |-> FALSE]]
  /\ UNCHANGED <<server, stream, fetch, overtaken, replayed, missed>>

useStartPeer(c, p, from) ==
  Ask(c, "start", p, from) /\ optimisticStatusPatch(p, "connecting")
useStopPeer(c, p, from) ==
  Ask(c, "stop", p, from) /\ optimisticStatusPatch(p, "disconnecting")
useRestartPeer(c, p, from) ==
  Ask(c, "restart", p, from) /\ optimisticStatusPatch(p, "restarting")
Unguessed == UNCHANGED <<rows, details, listFailed, lastStatus, moved>>

Answered(c, ans, late) ==
  calls' = [calls EXCEPT ![c] = [@ EXCEPT !.phase = "answered", !.ans = ans, !.late = late]]

HandledFrame == UNCHANGED <<known, breaks, cache, dialogs, lastStatus, overtaken, replayed, missed>>

\* Starting a peer that is running already changes nothing, and the answer still says that it
\* is connecting.  The manager subscribes once more at each start, also at the first one after
\* the server's, whose subscription lives until the peer is stopped.
startPeer(c) ==
  LET p == calls[c].peer IN
  /\ \/ calls[c].phase = "asked" /\ calls[c].op = "start"
     \/ calls[c].phase = "second"
  /\ IF p \in Stored \cap Managed
     THEN /\ Answered(c, toPeerResponse(p, "connecting"), live[p] # "stopped")
          /\ IF live[p] = "stopped"
             THEN /\ live' = [live EXCEPT ![p] = "connecting"]
                  /\ feeds' = [feeds EXCEPT ![p] = @ \cup {c}]
                  /\ publish(p, "connecting", feeds'[p])
                  /\ moved' = moved \cup {p}
             ELSE UNCHANGED <<live, feeds, events, moved>>
     ELSE /\ calls' = [calls EXCEPT ![c].phase = "failed"]
          /\ UNCHANGED <<live, feeds, events, moved>>
  /\ UNCHANGED <<config, gone, moves>>
  /\ HandledFrame

stopPeer(c) ==
  LET p == calls[c].peer IN
  /\ calls[c].phase = "asked"
  /\ calls[c].op \in {"stop", "restart"}
  /\ IF p \in Stored \cap Managed
     THEN /\ IF calls[c].op = "stop"
             THEN Answered(c, toPeerResponse(p, "stopped"), FALSE)
             ELSE calls' = [calls EXCEPT ![c].phase = "second"]
          /\ IF live[p] = "stopped"
             THEN UNCHANGED <<live, feeds, events, moved>>
             ELSE /\ live' = [live EXCEPT ![p] = "stopped"]
                  /\ publish(p, "stopped", feeds[p])
                  /\ feeds' = [feeds EXCEPT ![p] = {}]
                  /\ moved' = moved \cup {p}
     ELSE /\ calls' = [calls EXCEPT ![c].phase = "failed"]
          /\ UNCHANGED <<live, feeds, events, moved>>
  /\ UNCHANGED <<config, gone, moves>>
  /\ HandledFrame

\* Creating, updating and deleting touch the store only: the connection of a peer goes on with
\* the configuration it has, and that of a deleted one goes on too.
saveOrDelete(c) ==
  LET p == calls[c].peer IN
  /\ calls[c].phase = "asked"
  /\ calls[c].op \in Saves
  /\ IF (calls[c].op = "create") = (p \in Stored)
     THEN UNCHANGED <<config, gone>> /\ calls' = [calls EXCEPT ![c].phase = "failed"]
     ELSE /\ config' = [config EXCEPT ![p] = calls[c].value]
          /\ gone' = IF calls[c].op = "delete" THEN gone \cup {p} ELSE gone
          /\ Answered(c, [config |-> calls[c].value, status |-> peerStateString(p)], FALSE)
  /\ UNCHANGED <<live, feeds, moves, events, moved>>
  /\ HandledFrame

\* The request or its answer is lost.  Nothing tells the cache of a save whose answer is.
CallFails(c) ==
  /\ calls[c].phase \in {"asked", "second", "answered"} /\ calls[c].op # "probe"
  /\ breaks < MaxBreaks
  /\ breaks' = breaks + 1
  /\ LET p == calls[c].peer
         saved == calls[c].phase = "answered" /\ calls[c].op \in Saves
         failed == [calls EXCEPT ![c] = [@ EXCEPT !.phase = "failed", !.ans = None, !.late = FALSE]]
     IN IF saved
        THEN /\ calls' = passCalls(failed, {p})
             /\ fetch' = passFetch({p})
             /\ overtaken' = overtaken \cup {p}
        ELSE calls' = failed /\ UNCHANGED <<fetch, overtaken>>
  /\ UNCHANGED <<server, known, events, rows, details, listFailed, dialogs>>
  /\ UNCHANGED <<lastStatus, replayed, missed, moved>>

Done(cs, c) == [cs EXCEPT ![c] = [phase |-> "done"]]

overtake(p, late) ==
  overtaken' = IF late THEN overtaken \cup {p} ELSE IF Listed(p) THEN overtaken \ {p} ELSE overtaken

\* A likely bug: the guess stays when the call has failed.
rollbackNothing(c) ==
  /\ calls[c].phase = "failed"
  /\ calls' = Done(calls, c)
  /\ UNCHANGED <<server, stream, cache, past, dialogs>>

\* onError: the row goes back to what it was when the call was asked.  The dialogs stay open.
rollback(c) ==
  LET p == calls[c].peer IN
  /\ calls[c].phase = "failed"
  /\ UNCHANGED <<server, stream, missed, dialogs>>
  /\ IF calls[c].prev # None
     THEN /\ writePeerToCaches(p, calls[c].prev)
          /\ overtaken' = IF calls[c].passed THEN overtaken \cup {p} ELSE overtaken
          /\ calls' = passCalls(Done(calls, c), {p})
          /\ fetch' = passFetch({p})
          /\ UNCHANGED replayed
     ELSE /\ calls' = Done(calls, c)
          /\ UNCHANGED <<rows, details, listFailed, fetch, lastStatus, overtaken, replayed, moved>>

\* onSuccess of start, stop and restart: the answer is written over whatever the row shows.
startReturns(c) ==
  LET p == calls[c].peer IN
  /\ calls[c].phase = "answered" /\ calls[c].op \in Guessed
  /\ UNCHANGED <<server, stream, missed, dialogs>>
  /\ writePeerToCaches(p, calls[c].ans)
  /\ overtake(p, calls[c].late)
  /\ replayed' = replayed \ {p}
  /\ calls' = passCalls(Done(calls, c), {p})
  /\ fetch' = passFetch({p})

\* onSuccess of an update, then the drawer's handler: whatever drawer is open is closed, and
\* the peer is offered a start or a restart.
updateReturns(c) ==
  LET p == calls[c].peer IN
  /\ calls[c].phase = "answered" /\ calls[c].op = "update"
  /\ UNCHANGED <<server, stream, missed, deleteTarget, edits>>
  /\ writePeerToCaches(p, calls[c].ans)
  /\ overtake(p, calls[c].late)
  /\ replayed' = replayed \ {p}
  /\ calls' = passCalls(Done(calls, c), {p})
  /\ fetch' = passFetch({p})
  /\ drawer' = Closed
  /\ prompts' = prompts \cup {[peer |-> p, restart |-> isLivePeer(calls[c].ans.status)]}

\* onSuccess of a creation: the list is asked for again.
createReturns(c) ==
  LET p == calls[c].peer IN
  /\ calls[c].phase = "answered" /\ calls[c].op = "create"
  /\ UNCHANGED <<server, stream, rows, listFailed, deleteTarget, edits>>
  /\ UNCHANGED <<lastStatus, overtaken, replayed, missed, moved>>
  /\ details' = [details EXCEPT ![p] = calls[c].ans]
  /\ fetch' = IF Refetched = fetch THEN passFetch({p}) ELSE Refetched
  /\ calls' = Done(calls, c)
  /\ drawer' = Closed
  /\ prompts' = prompts \cup {[peer |-> p, restart |-> FALSE]}

\* onSuccess of a deletion: the row and the detail are dropped.
deleteReturns(c) ==
  LET p == calls[c].peer IN
  /\ calls[c].phase = "answered" /\ calls[c].op = "delete"
  /\ UNCHANGED <<server, stream, missed, drawer, prompts, edits>>
  /\ details' = [details EXCEPT ![p] = None]
  /\ setList([q \in DOMAIN rows \ {p} |-> rows[q]])
  /\ overtake(p, FALSE)
  /\ replayed' = replayed \ {p}
  /\ calls' = passCalls(Done(calls, c), {p})
  /\ fetch' = passFetch({p})
  /\ deleteTarget' = None

-----------------------------------------------------------------------------------
(* The user.                                                                       *)

\* The table is there when the list has been loaded and has been written since the last
\* request that failed.  A drawer or a dialog covers it.
TableShown == rows # None /\ ~listFailed
Uncovered  == drawer = Closed /\ deleteTarget = None

isPending(op, p) ==
  \E c \in Calls : Out(c) /\ calls[c].op = op /\ calls[c].peer = p /\ calls[c].value = "menu"

\* A row's menu: Start for a stopped peer, Stop for any other that is not on its way.  Each
\* item is off while the call it made is out; the toasts' calls are not its own, nor are those
\* of a menu that went with the table.
handleStart(c, p) ==
  /\ TableShown /\ Uncovered /\ Listed(p)
  /\ rows[p].status = "stopped"
  /\ ~isPending("start", p)
  /\ useStartPeer(c, p, "menu")
  /\ UNCHANGED dialogs

handleStop(c, p) ==
  /\ TableShown /\ Uncovered /\ Listed(p)
  /\ rows[p].status \notin Transient \cup {"stopped"}
  /\ ~isPending("stop", p)
  /\ useStopPeer(c, p, "menu")
  /\ UNCHANGED dialogs

UserFrame == UNCHANGED <<server, stream, cache, calls, past>>

Add ==
  /\ Uncovered
  /\ drawer' = [kind |-> "create"]
  /\ UNCHANGED <<deleteTarget, prompts, edits>>
  /\ UserFrame

\* The drawer keeps the row it was opened on.
Edit(p) ==
  /\ TableShown /\ Uncovered /\ Listed(p)
  /\ drawer' = [kind |-> "edit", peer |-> p, base |-> rows[p].config, call |-> None, probe |-> None]
  /\ UNCHANGED <<deleteTarget, prompts, edits>>
  /\ UserFrame

\* The creation's pending flag is the drawer's, an update's is the form's, which goes when the
\* drawer is closed.
submitting ==
  IF drawer.kind = "create"
  THEN \E c \in Calls : Out(c) /\ calls[c].op = "create"
  ELSE drawer.call # None /\ Out(drawer.call)

testing ==
  IF drawer.kind = "create"
  THEN \E c \in Calls : Out(c) /\ calls[c].op = "probe" /\ calls[c].value = "create"
  ELSE drawer.probe # None /\ Out(drawer.probe)

\* The close button works while a call is out.
Close ==
  /\ drawer # Closed
  /\ drawer' = Closed
  /\ UNCHANGED <<deleteTarget, prompts, edits>>
  /\ UserFrame

\* A probe of the values typed.  Its answer is a toast and nothing else.
handleTest(c) ==
  /\ drawer # Closed /\ ~submitting /\ ~testing
  /\ Ask(c, "probe", None, drawer.kind)
  /\ drawer' = IF drawer.kind = "edit" THEN [drawer EXCEPT !.probe = c] ELSE drawer
  /\ Unguessed
  /\ UNCHANGED <<deleteTarget, prompts, edits>>

ProbeReturns(c) ==
  /\ calls[c].phase = "asked" /\ calls[c].op = "probe"
  /\ calls' = Done(calls, c)
  /\ UNCHANGED <<server, stream, cache, dialogs, past>>

\* The fields hold other values, all of them valid ones.
typed(value) == moves + edits < MaxChanges /\ edits' = edits + 1 /\ value = edits + 1

\* They hold what the drawer was opened with.
untouched(value) == value = drawer.base /\ UNCHANGED edits

\* A new peer is one the server neither has nor had: it is given an id of its own.
createPeer(c) ==
  /\ drawer.kind = "create" /\ ~submitting /\ ~testing
  /\ \E p \in Peers \ (Managed \cup Stored \cup gone), value \in Versions :
       typed(value) /\ Ask(c, "create", p, value)
  /\ Unguessed
  /\ UNCHANGED <<drawer, deleteTarget, prompts>>

updatePeer(c) ==
  /\ drawer.kind = "edit" /\ ~submitting /\ ~testing
  /\ \E value \in Versions :
       /\ typed(value) \/ untouched(value)
       /\ Ask(c, "update", drawer.peer, value)
  /\ drawer' = [drawer EXCEPT !.call = c]
  /\ Unguessed
  /\ UNCHANGED <<deleteTarget, prompts>>

onRequestDelete ==
  /\ drawer.kind = "edit" /\ ~submitting /\ ~testing
  /\ drawer' = Closed /\ deleteTarget' = drawer.peer
  /\ UNCHANGED <<prompts, edits>>
  /\ UserFrame

\* One mutation serves the dialog whatever peer it names.
DeletePeerModal(c) ==
  /\ deleteTarget # None
  /\ ~\E d \in Calls : Out(d) /\ calls[d].op = "delete"
  /\ Ask(c, "delete", deleteTarget, None)
  /\ Unguessed
  /\ UNCHANGED dialogs

CloseDelete ==
  /\ deleteTarget # None
  /\ deleteTarget' = None
  /\ UNCHANGED <<drawer, prompts, edits>>
  /\ UserFrame

\* The toast of a saved peer: a start or a restart, whatever the peer has done since.
runPrompt(c, t) ==
  /\ prompts' = prompts \ {t}
  /\ IF t.restart THEN useRestartPeer(c, t.peer, None) ELSE useStartPeer(c, t.peer, None)
  /\ UNCHANGED <<drawer, deleteTarget, edits>>

Dismiss(t) ==
  /\ prompts' = prompts \ {t}
  /\ UNCHANGED <<drawer, deleteTarget, edits>>
  /\ UserFrame

-----------------------------------------------------------------------------------
\* The server has just been started, and has connected some of its peers.  The page is opened
\* before or after the application has loaded the list and read its stream.
\* The first load is looked at without faults: their budget is spent.
Loaded ==
  /\ known = [p \in Stored |-> config[p]] /\ rows = listPeers /\ fetch = Idle
  /\ lastStatus = [p \in Peers |-> IF p \in Stored THEN live[p] ELSE None]
  /\ breaks = 0 /\ edits = 0

NotLoaded ==
  /\ known = None /\ rows = None /\ fetch = [phase |-> "asked"]
  /\ lastStatus = [p \in Peers |-> None]
  /\ breaks = MaxBreaks /\ edits = 0

Init ==
  /\ config = [p \in Peers |-> IF p \in Managed THEN 0 ELSE None]
  /\ live \in [Peers -> {"stopped", "connected"}]
  /\ \A p \in Peers \ Managed : live[p] = "stopped"
  /\ feeds = [p \in Peers |-> IF p \in Managed THEN {0} ELSE {}]
  /\ moves = 0 /\ gone = {} /\ events = {} /\ listFailed = FALSE
  /\ Loaded \/ NotLoaded
  /\ details = [p \in Peers |-> None]
  /\ calls = [c \in Calls |-> [phase |-> "unused"]]
  /\ drawer = Closed /\ deleteTarget = None /\ prompts = {}
  /\ overtaken = {} /\ replayed = {} /\ missed = {} /\ moved = {}

Handler(c) == startPeer(c) \/ stopPeer(c) \/ saveOrDelete(c) \/ CallFails(c)

Returns(c) ==
  rollback(c) \/ startReturns(c) \/ updateReturns(c) \/ createReturns(c) \/ deleteReturns(c) \/ ProbeReturns(c)

RowMenu(c) == \E p \in Peers : handleStart(c, p) \/ handleStop(c, p)

User ==
  \/ Retry \/ Add \/ Close \/ onRequestDelete \/ CloseDelete
  \/ \E p \in Peers : Edit(p)
  \/ \E t \in prompts : Dismiss(t)
  \/ \E c \in Calls :
       RowMenu(c) \/ createPeer(c) \/ updatePeer(c) \/ DeletePeerModal(c) \/ handleTest(c) \/ \E t \in prompts : runPrompt(c, t)

Next ==
  \/ FetchHandled \/ FetchReturns \/ FetchFails
  \/ StreamOpens \/ StreamBreaks \/ Moves
  \/ \E e \in events : applyPeerUpdated(e)
  \/ \E c \in Calls : Handler(c) \/ Returns(c)
  \/ User

Spec == Init /\ [][Next]_vars

-----------------------------------------------------------------------------------
(* Properties.                                                                     *)

IsRow(r) == r.config \in Versions \cup {None} /\ r.status \in Statuses

\* Every variable keeps its type, and an open drawer or dialog names a peer of the model.
TypeOK ==
  /\ config \in [Peers -> Versions \cup {None}] /\ live \in [Peers -> Live]
  /\ moves + edits \in 0..MaxChanges /\ breaks \in 0..MaxBreaks
  /\ known = None => events = {}
  /\ rows = None \/ (DOMAIN rows \subseteq Peers /\ \A p \in DOMAIN rows : IsRow(rows[p]))
  /\ \A p \in Peers : details[p] = None \/ IsRow(details[p])
  /\ listFailed \in BOOLEAN /\ fetch.phase \in {"none", "asked", "answered"}
  /\ \A c \in Calls : calls[c].phase \in {"unused", "asked", "second", "answered", "failed", "done"}
  /\ drawer.kind \in {"closed", "create", "edit"} /\ deleteTarget \in Peers \cup {None}
  /\ prompts \subseteq [peer : Peers, restart : BOOLEAN]
  /\ lastStatus \in [Peers -> Statuses \cup {None}]
  /\ {overtaken, replayed, missed, moved} \subseteq SUBSET Peers

Quiet == known # None /\ events = {} /\ fetch = Idle /\ ~\E c \in Calls : Out(c)

\* Once the stream is read and nothing is out, the table is the server's: every stored peer is
\* a row with its stored configuration and its connection's status, and no other is.  The
\* exceptions are a row an older answer was written over, a row an event has last written with
\* the configuration of the time the stream was opened or after a newer event, and a peer that
\* was not in the table when a reload failed: any write of the list ends the failure.
TableIsServers ==
  Quiet /\ TableShown =>
    \A p \in Peers \ (overtaken \cup replayed \cup missed) :
      /\ p \in DOMAIN rows <=> p \in Stored
      /\ p \in Stored => rows[p] = listPeers[p]

\* A toast says that a peer's connection has changed, so it has, since the last one; unless an
\* answer older than the row is being written over it.  A restart or a stop that fails, and a
\* list that is loaded again, raise none.
ToastsTellChangesStep ==
  \A p \in Peers : Toasted(p) => p \in moved \cup overtaken \cup overtaken'

ToastsTellChanges == [][ToastsTellChangesStep]_vars

==================================================================================
