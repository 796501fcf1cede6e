------------------------------- MODULE Sender -------------------------------
(***********************************************************************************)
(* messaging.concreteSender for one peer                                           *)
(* (internal/diameter/messaging/sender.go): concurrent Sends, the per-peer         *)
(* correlator they share, the CCA handler and the goroutine that watches           *)
(* the peer's state and closes pending entries when the link drops.                *)
(*                                                                                 *)
(* The peer connection is reduced to what the Sender sees of it: State(),          *)
(* Conn(), the watch channel and whether a link can still be written to.           *)
(* Calls of Connect and Disconnect do not overlap here; PeerConnection             *)
(* says what happens when they do.  A request is its end-to-end identifier:        *)
(* building a CCR and decoding a CCA is left to succeed or fail.                   *)
(***********************************************************************************)
EXTENDS Naturals, Sequences

CONSTANTS
  Sends,      \* calls of Send, each with an end-to-end identifier of its own
  MaxLinks,   \* bound on the links the peer brings up
  BufferSize  \* subscriberBufferSize of the connection's subscriber set

ASSUME SenderAssumption ==
  /\ MaxLinks \in Nat
  /\ BufferSize \in Nat \ {0}

VARIABLES
  peer,        \* control state of the peer's lifecycle goroutine
  state,       \* pc.State()
  link,        \* the link pc.Conn() returns, 0 for nil
  links,       \* links brought up so far; a link is its number
  open,        \* links not closed on this side: a write to one can succeed
  dead,        \* links the other side has dropped
  watch,       \* the watchPeerState goroutine
  events,      \* its channel
  pending,     \* keys of peerCorrelator.pending
  chan,        \* each registered channel
  forwarding,  \* entries dispatch has taken out and not yet sent to
  pc,          \* control state of each Send
  at,          \* the link each Send holds, 0 before it has one
  written,     \* requests on the wire
  replied,     \* requests the OCS has answered
  result       \* what each Send returned

vars == <<peer, state, link, links, open, dead, watch, events, pending, chan,
          forwarding, pc, at, written, replied, result>>
peerVars == <<peer, state, link, links, open, dead>>
watchVars == <<watch, events>>
corrVars == <<pending, chan, forwarding>>
sendVars == <<pc, at, written, result>>

LinkId == 1..MaxLinks
PeerState == {"stopped", "dialling", "up", "lost", "emitLost", "leaving",
              "emitStopped", "closing", "replacing"}
SendState == {"idle", "checked", "correlate", "subscribe", "register", "write",
              "wait", "done"}
WatchState == {"none", "adding", "late", "live", "orphan", "closed", "done"}
Result == {"none", "answer", "refused", "unbuildable", "writeFailed", "closed",
           "undecodable", "cancelled"}

Init ==
  /\ peer = "stopped" /\ state = "stopped" /\ link = 0 /\ links = 0
  /\ open = {} /\ dead = {}
  /\ watch = "none" /\ events = <<>>
  /\ pending = {} /\ forwarding = {}
  /\ chan = [q \in Sends |-> "empty"]
  /\ pc = [q \in Sends |-> "idle"]
  /\ at = [q \in Sends |-> 0]
  /\ written = {} /\ replied = {}
  /\ result = [q \in Sends |-> "none"]

-----------------------------------------------------------------------------
(* The peer connection, as the Sender sees it.                                     *)

(* An event, here whether it leaves "connected", reaches the watcher only          *)
(* while it is subscribed; a full buffer loses its oldest event.                   *)
Emit(leftConnected) ==
  /\ events' = IF watch # "live" THEN events
               ELSE IF Len(events) < BufferSize
                    THEN Append(events, leftConnected)
                    ELSE Append(Tail(events), leftConnected)
  /\ UNCHANGED watch

NoEvent == UNCHANGED watchVars

PeerStep == UNCHANGED <<corrVars, sendVars, replied>>

Connect ==
  /\ peer = "stopped"
  /\ peer' = "dialling" /\ state' = "disconnected"
  /\ Emit(FALSE)
  /\ UNCHANGED <<link, links, open, dead>> /\ PeerStep

LinkUp ==
  /\ peer = "dialling" /\ links < MaxLinks
  /\ links' = links + 1 /\ link' = links + 1 /\ open' = open \cup {links + 1}
  /\ peer' = "up" /\ state' = "connected"
  /\ Emit(FALSE)
  /\ UNCHANGED dead /\ PeerStep

LinkDies ==
  /\ \E l \in open \ dead : dead' = dead \cup {l}
  /\ UNCHANGED <<peer, state, link, links, open>> /\ NoEvent /\ PeerStep

TearDown(next) ==
  /\ peer = "up"
  /\ peer' = next
  /\ open' = open \ {link} /\ dead' = dead \cup {link} /\ link' = 0
  /\ UNCHANGED <<state, links>> /\ NoEvent /\ PeerStep

SeeDrop == link \in dead /\ TearDown("lost")

Store(from, next, to) ==
  /\ peer = from
  /\ peer' = next /\ state' = to
  /\ UNCHANGED <<link, links, open, dead>> /\ NoEvent /\ PeerStep

AnnounceDrop == Store("lost", "emitLost", "disconnected")

EmitDrop ==
  /\ peer = "emitLost" /\ peer' = "dialling"
  /\ Emit(TRUE)
  /\ UNCHANGED <<state, link, links, open, dead>> /\ PeerStep

(* A manual Disconnect, of a live link or between two of them.                     *)
Disconnect ==
  \/ TearDown("leaving")
  \/ /\ peer = "dialling"
     /\ peer' = "closing" /\ state' = "stopped"
     /\ Emit(FALSE)
     /\ UNCHANGED <<link, links, open, dead>> /\ PeerStep

AnnounceStopped == Store("leaving", "emitStopped", "stopped")

EmitStopped ==
  /\ peer = "emitStopped" /\ peer' = "closing"
  /\ Emit(TRUE)
  /\ UNCHANGED <<state, link, links, open, dead>> /\ PeerStep

(* Disconnect ends with pc.subs.closeAll(), which closes the watch channel,        *)
(* and the assignment of a new set to pc.subs, with no lock around the two.  A     *)
(* channel that is added to the old set after it was emptied is an orphan:         *)
(* it gets no event and is never closed.                                           *)
CloseSubscribers ==
  /\ peer = "closing" /\ peer' = "replacing"
  /\ watch' = IF watch = "live" THEN "closed" ELSE watch
  /\ UNCHANGED <<events, state, link, links, open, dead>> /\ PeerStep

ReplaceSubscribers ==
  /\ peer = "replacing" /\ peer' = "stopped"
  /\ watch' = CASE watch = "adding" -> "late"
                [] watch = "live" -> "orphan"
                [] OTHER -> watch
  /\ UNCHANGED <<events, state, link, links, open, dead>> /\ PeerStep

PeerProgress ==
  SeeDrop \/ AnnounceDrop \/ EmitDrop \/ AnnounceStopped \/ EmitStopped
    \/ CloseSubscribers \/ ReplaceSubscribers

-----------------------------------------------------------------------------
(* watchPeerState.                                                                 *)

closeAll ==
  /\ chan' = [q \in Sends |-> IF q \in pending THEN "closed" ELSE chan[q]]
  /\ pending' = {}
  /\ UNCHANGED forwarding

(* Faulty: the test on the event is the wrong way round.                           *)
WatchEventInverted ==
  /\ events # <<>>
  /\ events' = Tail(events)
  /\ IF Head(events) THEN UNCHANGED corrVars ELSE closeAll
  /\ UNCHANGED <<watch, peerVars, sendVars, replied>>

WatchEvent ==
  /\ events # <<>>
  /\ events' = Tail(events)
  /\ IF Head(events) THEN closeAll ELSE UNCHANGED corrVars
  /\ UNCHANGED <<watch, peerVars, sendVars, replied>>

WatchExit ==
  /\ watch = "closed" /\ events = <<>>
  /\ watch' = "done"
  /\ closeAll
  /\ UNCHANGED <<events, peerVars, sendVars, replied>>

Watch == WatchEvent \/ WatchExit

-----------------------------------------------------------------------------
(* Send.                                                                           *)

Goto(q, next) == pc' = [pc EXCEPT ![q] = next]

Return(q, r) ==
  /\ pc' = [pc EXCEPT ![q] = "done"]
  /\ result' = [result EXCEPT ![q] = r]

deregister(q) == pending' = pending \ {q} /\ UNCHANGED <<chan, forwarding>>

CheckState(q) ==
  /\ pc[q] = "idle"
  /\ \/ state = "connected" /\ Goto(q, "checked") /\ UNCHANGED result
     \/ state # "connected" /\ Return(q, "refused")
  /\ UNCHANGED <<at, written, replied, peerVars, watchVars, corrVars>>

(* Conn() reads the state again, under muLife.                                     *)
TakeConn(q) ==
  /\ pc[q] = "checked"
  /\ IF state = "connected" /\ link # 0
     THEN /\ at' = [at EXCEPT ![q] = link]
          /\ Goto(q, "correlate") /\ UNCHANGED result
     ELSE Return(q, "refused") /\ UNCHANGED at
  /\ UNCHANGED <<written, replied, peerVars, watchVars, corrVars>>

(* The first Send to the peer subscribes and starts the watcher, under s.mu;       *)
(* the map entry is never removed, so no later one does.  Subscribe reads          *)
(* pc.subs and then locks that set, which may have been replaced in between.       *)
correlatorFor(q) ==
  /\ pc[q] = "correlate"
  /\ watch \notin {"adding", "late"}
  /\ IF watch = "none" THEN watch' = "adding" /\ Goto(q, "subscribe")
     ELSE Goto(q, "register") /\ UNCHANGED watch
  /\ UNCHANGED <<events, at, written, result, replied, peerVars, corrVars>>

Subscribe(q) ==
  /\ pc[q] = "subscribe"
  /\ watch' = IF watch = "adding" THEN "live" ELSE "orphan"
  /\ Goto(q, "register")
  /\ UNCHANGED <<events, at, written, result, replied, peerVars, corrVars>>

(* The CCR is built first, which can fail.                                         *)
register(q) ==
  /\ pc[q] = "register"
  /\ \/ /\ pending' = pending \cup {q}
        /\ Goto(q, "write")
        /\ UNCHANGED result
     \/ /\ Return(q, "unbuildable")
        /\ UNCHANGED pending
  /\ UNCHANGED <<chan, forwarding, at, written, replied, peerVars, watchVars>>

Write(q) ==
  /\ pc[q] = "write"
  /\ \/ /\ at[q] \in open
        /\ written' = written \cup {q}
        /\ Goto(q, "wait")
        /\ UNCHANGED <<corrVars, result>>
     \/ /\ at[q] \notin open \/ at[q] \in dead
        /\ deregister(q)
        /\ Return(q, "writeFailed")
        /\ UNCHANGED written
  /\ UNCHANGED <<at, replied, peerVars, watchVars>>

(* The two arms of the final select.  When ctx.Done is ready with the              *)
(* channel either may be taken; a caller's context may end at any time.            *)
ReceiveResponse(q) ==
  /\ pc[q] = "wait"
  /\ \/ chan[q] # "empty" /\ Return(q, chan[q])
     \/ chan[q] = "answer" /\ Return(q, "undecodable")
  /\ UNCHANGED <<at, written, replied, peerVars, watchVars, corrVars>>

CtxDone(q) ==
  /\ pc[q] = "wait"
  /\ deregister(q)
  /\ Return(q, "cancelled")
  /\ UNCHANGED <<at, written, replied, peerVars, watchVars>>

SendProgress(q) ==
  TakeConn(q) \/ correlatorFor(q) \/ Subscribe(q) \/ register(q) \/ Write(q)
    \/ ReceiveResponse(q)

-----------------------------------------------------------------------------
(* The OCS and the CCA handler.  The OCS answers on the link the request           *)
(* came in on, while it lives; the handler may run later, more than once           *)
(* for an answer sent again, or never.                                             *)

Reply(q) ==
  /\ q \in written /\ at[q] \in open \ dead
  /\ replied' = replied \cup {q}
  /\ UNCHANGED <<peerVars, watchVars, corrVars, sendVars>>

(* Faulty: the answer goes to some pending request, whichever it is.               *)
dispatchToAny(q) ==
  /\ q \in replied
  /\ \E p \in pending :
       /\ pending' = pending \ {p}
       /\ forwarding' = forwarding \cup {p}
  /\ UNCHANGED <<chan, replied, peerVars, watchVars, sendVars>>

(* Faulty: the entry is taken out only once the answer has been sent on.           *)
dispatchKeepsEntry(q) ==
  /\ q \in replied
  /\ q \in pending
  /\ forwarding' = forwarding \cup {q}
  /\ UNCHANGED <<pending, chan, replied, peerVars, watchVars, sendVars>>

(* The entry is looked up and deleted under the lock; without one the              *)
(* answer is dropped.                                                              *)
dispatch(q) ==
  /\ q \in replied
  /\ q \in pending
  /\ pending' = pending \ {q}
  /\ forwarding' = forwarding \cup {q}
  /\ UNCHANGED <<chan, replied, peerVars, watchVars, sendVars>>

Forward(q) ==
  /\ q \in forwarding
  /\ forwarding' = forwarding \ {q}
  /\ chan' = [chan EXCEPT ![q] = IF @ = "empty" THEN "answer" ELSE @]
  /\ UNCHANGED <<pending, replied, peerVars, watchVars, sendVars>>

-----------------------------------------------------------------------------
Next ==
  \/ Connect \/ LinkUp \/ LinkDies \/ Disconnect \/ PeerProgress
  \/ Watch
  \/ \E q \in Sends : \/ CheckState(q) \/ SendProgress(q) \/ CtxDone(q)
                      \/ Reply(q) \/ dispatch(q) \/ Forward(q)

Spec == Init /\ [][Next]_vars

(* Every goroutine that can run is scheduled.  Nobody has to connect,              *)
(* answer, send or cancel: a session's run has no deadline on its context.         *)
FairSpec ==
  /\ Spec
  /\ WF_vars(PeerProgress)
  /\ WF_vars(Watch)
  /\ \A q \in Sends : WF_vars(SendProgress(q)) /\ WF_vars(Forward(q))

-----------------------------------------------------------------------------
(* Type invariant.                                                                 *)
TypeOK ==
  /\ peer \in PeerState
  /\ state \in {"stopped", "disconnected", "connected"}
  /\ link \in 0..MaxLinks /\ links \in 0..MaxLinks
  /\ open \subseteq LinkId /\ dead \subseteq LinkId
  /\ watch \in WatchState
  /\ events \in Seq(BOOLEAN) /\ Len(events) <= BufferSize
  /\ pending \subseteq Sends /\ forwarding \subseteq Sends
  /\ chan \in [Sends -> {"empty", "answer", "closed"}]
  /\ pc \in [Sends -> SendState]
  /\ at \in [Sends -> 0..MaxLinks]
  /\ written \subseteq Sends /\ replied \subseteq Sends
  /\ result \in [Sends -> Result]

(* No entry outlives its Send: whatever way a Send returns - answer, drop,         *)
(* failed write, cancelled context - its key is out of the pending map.            *)
NoStaleEntry == \A q \in pending : pc[q] \in {"write", "wait"}

(* A Send that waits can always be reached: its entry is in the map, its           *)
(* answer is in the handler's hands, or its channel is ready.                      *)
WaiterIsReachable ==
  \A q \in Sends :
    pc[q] = "wait" => q \in pending \/ q \in forwarding \/ chan[q] # "empty"

(* The handler sends on a channel outside the lock; closeAll never closes          *)
(* that channel under it (a send on a closed channel panics).                      *)
NoSendOnClosedChannel ==
  \A q \in forwarding : q \notin pending /\ chan[q] = "empty"

(* Every Send ends at most once, and with an answer only if the OCS gave           *)
(* one to that request: the Sender implements RequestReply.                        *)
Promise ==
  INSTANCE RequestReply WITH
    result <- [q \in Sends |->
                 IF result[q] \in {"none", "answer"} THEN result[q]
                 ELSE "failed"]

ImplementsRequestReply == Promise!Spec

(* A dropped link unblocks the Sends that wait on it, unless nobody watches        *)
(* the peer any more: the watcher has ended with an earlier Disconnect, or         *)
(* its channel was added to the set that Disconnect has just discarded.            *)
Unwatched == watch \in {"done", "orphan"}

DropUnblocks ==
  \A q \in Sends :
    pc[q] = "wait" /\ at[q] \in dead /\ ~Unwatched ~> pc[q] = "done"

(* What the comment on watchPeerState says, without that exception: pending        *)
(* entries are closed every time the peer leaves connected, which unblocks any     *)
(* Send that was waiting when the connection dropped.                              *)
EveryDropUnblocks ==
  \A q \in Sends : pc[q] = "wait" /\ at[q] \in dead ~> pc[q] = "done"
=============================================================================
