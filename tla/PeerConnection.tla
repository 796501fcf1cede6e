--------------------------- MODULE PeerConnection ---------------------------
(***********************************************************************************)
(* The lifecycle of one Diameter peer connection                                   *)
(* (internal/diameter/conn/connection.go and state.go).                            *)
(*                                                                                 *)
(* API goroutines (Callers) call Connect and Disconnect.  Connect starts a         *)
(* lifecycle goroutine, here a run, that dials, waits for the link to drop         *)
(* and dials again until its context is cancelled.  Disconnect takes the           *)
(* cancel function, calls it and waits for every run to exit.  muLife is           *)
(* held for a few assignments only, so the calls and the runs interleave           *)
(* between those critical sections: each action is one of them.                    *)
(*                                                                                 *)
(* Connect and Disconnect have no lock of their own.  `overlap' says               *)
(* whether this behaviour lets a call start while another is running; both         *)
(* cases are explored.  Left out: the message handlers and activeMgr, the          *)
(* configuration check and the length of the backoff.                              *)
(***********************************************************************************)
EXTENDS Naturals, Sequences, FiniteSets

CONSTANTS
  Callers,     \* goroutines that call Connect and Disconnect
  Runs,        \* lifecycle goroutines that can exist at once (a bound)
  Subs,        \* subscriber channels that can exist at once (a bound)
  BufferSize,  \* subscriberBufferSize
  None

ASSUME PeerConnectionAssumption ==
  /\ BufferSize \in Nat \ {0}
  /\ None \notin Runs
  /\ Callers \cap Runs = {}

VARIABLES
  overlap,        \* may lifecycle calls overlap in this behaviour?
  rootCancelled,  \* the parent context given to Connect is cancelled
  state,          \* pc.state
  cancel,         \* pc.cancel: the run whose context it cancels, or None
  activeConn,     \* pc.activeConn: the run that dialled it, or None
  cancelled,      \* runs whose context is cancelled
  run,            \* control state of each run
  retrying,       \* the run's local variable retrying
  link,           \* the run's go-diameter connection
  call,           \* control state of each caller
  mine,           \* the run a Connect is spawning or a Disconnect is ending
  pend,           \* the event an actor stored in pc.state and has yet to emit
  sub             \* subscriber channels

vars == <<overlap, rootCancelled, state, cancel, activeConn, cancelled, run,
          retrying, link, call, mine, pend, sub>>
runVars == <<run, retrying, link, activeConn>>
callVars == <<call, mine, cancel, cancelled>>

ConnectionState == {"stopped", "connecting", "connected", "disconnected"}
StateEvent == [from : ConnectionState, to : ConnectionState]
Actors == Callers \cup Runs

RunState == {"idle", "reserved", "top", "dialling", "backoff", "dialled",
             "waiting", "lost", "leaving", "exit"}
CallState == {"idle", "spawn", "cancelling", "waiting", "blocked", "released",
              "closing", "replacing"}
SubState == {"free", "adding", "open", "closed"}

(* A run counted by pc.wg, and one that has yet to decide to exit.                 *)
Counted(r) == run[r] \notin {"idle", "reserved"}
Working(r) == run[r] \notin {"idle", "reserved", "exit"}

FreeSub == [st |-> "free", current |-> TRUE, q |-> <<>>]

Init ==
  /\ overlap \in BOOLEAN
  /\ rootCancelled = FALSE
  /\ state = "stopped"
  /\ cancel = None
  /\ activeConn = None
  /\ cancelled = {}
  /\ run = [r \in Runs |-> "idle"]
  /\ retrying = [r \in Runs |-> FALSE]
  /\ link = [r \in Runs |-> "none"]
  /\ call = [c \in Callers |-> "idle"]
  /\ mine = [c \in Callers |-> None]
  /\ pend = [a \in Actors |-> <<>>]
  /\ sub = [s \in Subs |-> FreeSub]

-----------------------------------------------------------------------------
(* transitionTo stores the state and emits the event afterwards, outside           *)
(* any lock; storing the state it already has emits nothing.                       *)
transitionTo(a, next) ==
  /\ state' = next
  /\ pend' = [pend EXCEPT ![a] =
       IF state = next THEN <<>> ELSE <<[from |-> state, to |-> next]>>]

Ready(a) == pend[a] = <<>>

NoTransition == UNCHANGED <<state, pend>>

(* Faulty variants of definitions, each just before its original, serve to         *)
(* show that a property notices the fault: here the newest event dropped.          *)
DropsNewest(q, ev) ==
  IF Len(q) < BufferSize THEN Append(q, ev) ELSE q

(* The non-blocking send with oldest-drop.                                         *)
Deliver(q, ev) ==
  IF Len(q) < BufferSize THEN Append(q, ev) ELSE Append(Tail(q), ev)

emit(a) ==
  /\ pend[a] # <<>>
  /\ pend' = [pend EXCEPT ![a] = <<>>]
  /\ sub' = [s \in Subs |->
       IF sub[s].st = "open" /\ sub[s].current
       THEN [sub[s] EXCEPT !.q = Deliver(@, Head(pend[a]))]
       ELSE sub[s]]
  /\ UNCHANGED <<overlap, rootCancelled, state, runVars, callVars>>

-----------------------------------------------------------------------------
(* The lifecycle goroutine.                                                        *)

RunTop(r) ==
  /\ run[r] = "top" /\ Ready(r)
  /\ \/ /\ r \in cancelled
        /\ transitionTo(r, "stopped")
        /\ run' = [run EXCEPT ![r] = "exit"]
     \/ /\ r \notin cancelled
        /\ IF retrying[r] THEN NoTransition ELSE transitionTo(r, "connecting")
        /\ run' = [run EXCEPT ![r] = "dialling"]
  /\ UNCHANGED <<overlap, rootCancelled, callVars, retrying, link, activeConn,
                 sub>>

(* dialOnce ignores the context, so it can end either way once cancelled.          *)
DialFails(r) ==
  /\ run[r] = "dialling" /\ Ready(r)
  /\ IF retrying[r] THEN NoTransition ELSE transitionTo(r, "disconnected")
  /\ retrying' = [retrying EXCEPT ![r] = TRUE]
  /\ run' = [run EXCEPT ![r] = "backoff"]
  /\ UNCHANGED <<overlap, rootCancelled, callVars, link, activeConn, sub>>

DialSucceeds(r) ==
  /\ run[r] = "dialling" /\ Ready(r)
  /\ retrying' = [retrying EXCEPT ![r] = FALSE]
  /\ link' = [link EXCEPT ![r] = "open"]
  /\ activeConn' = r
  /\ run' = [run EXCEPT ![r] = "dialled"]
  /\ NoTransition
  /\ UNCHANGED <<overlap, rootCancelled, callVars, sub>>

BackoffElapses(r) ==
  /\ run[r] = "backoff" /\ Ready(r)
  /\ run' = [run EXCEPT ![r] = "top"]
  /\ NoTransition
  /\ UNCHANGED <<overlap, rootCancelled, callVars, retrying, link, activeConn,
                 sub>>

BackoffCancelled(r) ==
  /\ run[r] = "backoff" /\ Ready(r)
  /\ r \in cancelled
  /\ transitionTo(r, "stopped")
  /\ run' = [run EXCEPT ![r] = "exit"]
  /\ UNCHANGED <<overlap, rootCancelled, callVars, retrying, link, activeConn,
                 sub>>

AnnounceConnected(r) ==
  /\ run[r] = "dialled" /\ Ready(r)
  /\ transitionTo(r, "connected")
  /\ run' = [run EXCEPT ![r] = "waiting"]
  /\ UNCHANGED <<overlap, rootCancelled, callVars, retrying, link, activeConn,
                 sub>>

(* waitForDrop selects between the close notification and the context:             *)
(* with both ready either branch is taken.  Both close the link.                   *)
TearDown(r, next) ==
  /\ run[r] = "waiting" /\ Ready(r)
  /\ activeConn' = IF activeConn = r THEN None ELSE activeConn
  /\ link' = [link EXCEPT ![r] = "none"]
  /\ run' = [run EXCEPT ![r] = next]
  /\ NoTransition
  /\ UNCHANGED <<overlap, rootCancelled, callVars, retrying, sub>>

SeeDrop(r) == link[r] = "dropped" /\ TearDown(r, "lost")

SeeCancel(r) == r \in cancelled /\ TearDown(r, "leaving")

(* Faulty: the goroutine gives up at the first drop.                               *)
AnnounceDropAndQuit(r) ==
  /\ run[r] = "lost" /\ Ready(r)
  /\ transitionTo(r, "disconnected")
  /\ retrying' = [retrying EXCEPT ![r] = TRUE]
  /\ run' = [run EXCEPT ![r] = "exit"]
  /\ UNCHANGED <<overlap, rootCancelled, callVars, link, activeConn, sub>>

AnnounceDrop(r) ==
  /\ run[r] = "lost" /\ Ready(r)
  /\ transitionTo(r, "disconnected")
  /\ retrying' = [retrying EXCEPT ![r] = TRUE]
  /\ run' = [run EXCEPT ![r] = "top"]
  /\ UNCHANGED <<overlap, rootCancelled, callVars, link, activeConn, sub>>

AnnounceStopped(r) ==
  /\ run[r] = "leaving" /\ Ready(r)
  /\ transitionTo(r, "stopped")
  /\ run' = [run EXCEPT ![r] = "exit"]
  /\ UNCHANGED <<overlap, rootCancelled, callVars, retrying, link, activeConn,
                 sub>>

(* wg.Done of the last run releases the calls that are blocked in wg.Wait.         *)
Release(r) ==
  call' = IF \A s \in Runs \ {r} : ~Counted(s)
          THEN [c \in Callers |-> IF call[c] = "blocked" THEN "released" ELSE call[c]]
          ELSE call

(* The deferred cleanup closes whatever connection is active, this run's or        *)
(* not, and wg.Done follows.                                                       *)
RunExit(r) ==
  /\ run[r] = "exit" /\ Ready(r)
  /\ link' = IF activeConn = None THEN link
             ELSE [link EXCEPT ![activeConn] =
                     IF @ = "open" THEN "dropped" ELSE @]
  /\ activeConn' = None
  /\ run' = [run EXCEPT ![r] = "idle"]
  /\ retrying' = [retrying EXCEPT ![r] = FALSE]
  /\ Release(r)
  /\ NoTransition
  /\ UNCHANGED <<overlap, rootCancelled, mine, cancel, cancelled, sub>>

RunStep(r) ==
  \/ RunTop(r) \/ DialFails(r) \/ BackoffElapses(r) \/ BackoffCancelled(r)
  \/ AnnounceConnected(r) \/ SeeDrop(r) \/ SeeCancel(r) \/ AnnounceDrop(r)
  \/ AnnounceStopped(r) \/ RunExit(r)

-----------------------------------------------------------------------------
(* The API calls.                                                                  *)

MayCall(c) ==
  /\ call[c] = "idle" /\ Ready(c)
  /\ overlap \/ \A d \in Callers \ {c} : call[d] = "idle" /\ Ready(d)

(* The critical section of Connect.  When pc.cancel is set it returns              *)
(* ErrPeerAlreadyConnected and changes nothing.                                    *)
Connect(c) ==
  /\ MayCall(c)
  /\ cancel = None
  /\ \E r \in Runs :
       /\ run[r] = "idle"
       /\ \A d \in Callers : mine[d] # r
       /\ cancel' = r
       /\ run' = [run EXCEPT ![r] = "reserved"]
       /\ cancelled' = IF rootCancelled THEN cancelled \cup {r}
                       ELSE cancelled \ {r}
       /\ mine' = [mine EXCEPT ![c] = r]
  /\ call' = [call EXCEPT ![c] = "spawn"]
  /\ NoTransition
  /\ UNCHANGED <<overlap, rootCancelled, retrying, link, activeConn, sub>>

(* wg.Add and the go statement come after the unlock.                              *)
ConnectSpawn(c) ==
  /\ call[c] = "spawn"
  /\ run' = [run EXCEPT ![mine[c]] = "top"]
  /\ call' = [call EXCEPT ![c] = "idle"]
  /\ mine' = [mine EXCEPT ![c] = None]
  /\ NoTransition
  /\ UNCHANGED <<overlap, rootCancelled, cancel, cancelled, retrying, link,
                 activeConn, sub>>

(* The critical section of Disconnect takes the cancel function; without one       *)
(* the state is forced to stopped and the call returns.                            *)
Disconnect(c) ==
  /\ MayCall(c)
  /\ \/ /\ cancel = None
        /\ transitionTo(c, "stopped")
        /\ UNCHANGED <<call, mine>>
     \/ /\ cancel # None
        /\ call' = [call EXCEPT ![c] = "cancelling"]
        /\ mine' = [mine EXCEPT ![c] = cancel]
        /\ NoTransition
  /\ cancel' = None
  /\ UNCHANGED <<overlap, rootCancelled, cancelled, runVars, sub>>

(* Faulty: the cancel function is taken and never called.                          *)
SkipsCancel(c) ==
  /\ call[c] = "cancelling"
  /\ call' = [call EXCEPT ![c] = "waiting"]
  /\ mine' = [mine EXCEPT ![c] = None]
  /\ NoTransition
  /\ UNCHANGED <<overlap, rootCancelled, cancel, cancelled, runVars, sub>>

CallCancel(c) ==
  /\ call[c] = "cancelling"
  /\ cancelled' = cancelled \cup {mine[c]}
  /\ call' = [call EXCEPT ![c] = "waiting"]
  /\ mine' = [mine EXCEPT ![c] = None]
  /\ NoTransition
  /\ UNCHANGED <<overlap, rootCancelled, cancel, runVars, sub>>

(* Faulty: Disconnect does not wait for the goroutine to exit.                     *)
WaitSkipped(c) ==
  /\ call[c] = "waiting"
  /\ call' = [call EXCEPT ![c] = "closing"]
  /\ NoTransition
  /\ UNCHANGED <<overlap, rootCancelled, cancel, cancelled, mine, runVars, sub>>

(* wg.Wait returns at once when no run is counted, and blocks otherwise.  A call   *)
(* that was released finds the group in use again when a Connect has added a       *)
(* run meanwhile: Wait panics, which the HTTP server recovers from, and the        *)
(* subscribers are not closed.                                                     *)
Wait(c, from, next) ==
  /\ call[c] = from
  /\ call' = [call EXCEPT ![c] = next]
  /\ NoTransition
  /\ UNCHANGED <<overlap, rootCancelled, cancel, cancelled, mine, runVars, sub>>

NoneCounted == \A r \in Runs : ~Counted(r)

WaitReturns(c) == NoneCounted /\ (Wait(c, "waiting", "closing") \/ Wait(c, "released", "closing"))

WaitBlocks(c) == ~NoneCounted /\ Wait(c, "waiting", "blocked")

WaitPanics(c) == ~NoneCounted /\ Wait(c, "released", "idle")

(* closeAll, and then the assignment of a new set to pc.subs.                      *)
CloseSubscribers(c) ==
  /\ call[c] = "closing"
  /\ sub' = [s \in Subs |->
       IF sub[s].st = "open" /\ sub[s].current
       THEN [sub[s] EXCEPT !.st = "closed"] ELSE sub[s]]
  /\ call' = [call EXCEPT ![c] = "replacing"]
  /\ NoTransition
  /\ UNCHANGED <<overlap, rootCancelled, cancel, cancelled, mine, runVars>>

ReplaceSubscribers(c) ==
  /\ call[c] = "replacing"
  /\ sub' = [s \in Subs |->
       IF sub[s].st \in {"adding", "open"}
       THEN [sub[s] EXCEPT !.current = FALSE] ELSE sub[s]]
  /\ call' = [call EXCEPT ![c] = "idle"]
  /\ NoTransition
  /\ UNCHANGED <<overlap, rootCancelled, cancel, cancelled, mine, runVars>>

CallStep(c) ==
  \/ ConnectSpawn(c) \/ CallCancel(c) \/ WaitReturns(c) \/ WaitBlocks(c)
  \/ WaitPanics(c)
  \/ CloseSubscribers(c) \/ ReplaceSubscribers(c)

-----------------------------------------------------------------------------
(* Subscribers.  Subscribe reads pc.subs and then locks that set, which may        *)
(* have been replaced in between.                                                  *)

OnlySubChanges(s, v) ==
  /\ sub' = [sub EXCEPT ![s] = v]
  /\ NoTransition
  /\ UNCHANGED <<overlap, rootCancelled, runVars, callVars>>

Subscribe(s) ==
  /\ sub[s].st = "free"
  /\ OnlySubChanges(s, [FreeSub EXCEPT !.st = "adding"])

SubscribeAdd(s) ==
  /\ sub[s].st = "adding"
  /\ OnlySubChanges(s, [sub[s] EXCEPT !.st = "open"])

(* Only a channel of the current set is found by Unsubscribe.                      *)
Unsubscribe(s) ==
  /\ sub[s].st = "open" /\ sub[s].current
  /\ OnlySubChanges(s, [sub[s] EXCEPT !.st = "closed"])

Receive(s) ==
  /\ sub[s].st \in {"open", "closed"}
  /\ IF sub[s].q # <<>>
     THEN OnlySubChanges(s, [sub[s] EXCEPT !.q = Tail(@)])
     ELSE /\ sub[s].st = "closed"
          /\ OnlySubChanges(s, FreeSub)

SubStep(s) == Subscribe(s) \/ SubscribeAdd(s) \/ Unsubscribe(s) \/ Receive(s)

-----------------------------------------------------------------------------
(* The environment: the peer drops the link, the application's context ends.       *)

PeerDrops(r) ==
  /\ link[r] = "open"
  /\ link' = [link EXCEPT ![r] = "dropped"]
  /\ NoTransition
  /\ UNCHANGED <<overlap, rootCancelled, callVars, run, retrying, activeConn,
                 sub>>

RootCancel ==
  /\ ~rootCancelled
  /\ rootCancelled' = TRUE
  /\ cancelled' = cancelled \cup {r \in Runs : run[r] # "idle"}
  /\ NoTransition
  /\ UNCHANGED <<overlap, cancel, call, mine, runVars, sub>>

Next ==
  \/ \E r \in Runs : RunStep(r) \/ DialSucceeds(r) \/ PeerDrops(r)
  \/ \E c \in Callers : Connect(c) \/ Disconnect(c) \/ CallStep(c)
  \/ \E a \in Actors : emit(a)
  \/ \E s \in Subs : SubStep(s)
  \/ RootCancel

Spec == Init /\ [][Next]_vars

(* Goroutines that can run are scheduled.  A dial ends (go-diameter gives          *)
(* up on the handshake); callers, subscribers and the peer owe nothing.            *)
(* The peer that is dialled for ever answers some day.                             *)
FairSpec ==
  /\ Spec
  /\ \A r \in Runs : WF_vars(RunStep(r)) /\ SF_vars(DialSucceeds(r))
  /\ \A c \in Callers : WF_vars(CallStep(c))
  /\ \A a \in Actors : WF_vars(emit(a))

-----------------------------------------------------------------------------
(* Type invariant.                                                                 *)
TypeOK ==
  /\ overlap \in BOOLEAN
  /\ rootCancelled \in BOOLEAN
  /\ state \in ConnectionState
  /\ cancel \in Runs \cup {None}
  /\ activeConn \in Runs \cup {None}
  /\ cancelled \subseteq Runs
  /\ run \in [Runs -> RunState]
  /\ retrying \in [Runs -> BOOLEAN]
  /\ link \in [Runs -> {"none", "open", "dropped"}]
  /\ call \in [Callers -> CallState]
  /\ mine \in [Callers -> Runs \cup {None}]
  /\ pend \in [Actors -> Seq(StateEvent)]
  /\ sub \in [Subs -> [st : SubState, current : BOOLEAN, q : Seq(StateEvent)]]
  /\ \A s \in Subs : Len(sub[s].q) <= BufferSize

(* However calls overlap, a peer with no working lifecycle goroutine reads         *)
(* as stopped: run never exits leaving another state behind, and no                *)
(* goroutine still on its way out overwrites it.                                   *)
QuietMeansStopped == (\A r \in Runs : ~Working(r)) => state = "stopped"

(* Two lifecycle goroutines of one peer are never both meant to live: all          *)
(* but at most one are cancelled, or held by a Disconnect about to do so.          *)
Ending(r) ==
  \/ r \in cancelled
  \/ \E c \in Callers : call[c] = "cancelling" /\ mine[c] = r

OneLiveRun ==
  \A r1, r2 \in Runs :
    Counted(r1) /\ Counted(r2) /\ ~Ending(r1) /\ ~Ending(r2) => r1 = r2

(* While calls do not overlap, Conn() hands out the live connection of the         *)
(* goroutine that is waiting on it, and State() says connected.                    *)
Published(r) == state = "connected" /\ activeConn = r

LiveRunIsPublished ==
  ~overlap => \A r \in Runs : run[r] = "waiting" => Published(r)

(* While calls do not overlap, the newest event a subscriber has buffered          *)
(* is the present state once no event is on its way: oldest-drop may lose          *)
(* history but a slow subscriber still ends on the truth.                          *)
NewestEventIsState ==
  ~overlap /\ (\A a \in Actors : Ready(a)) =>
    \A s \in Subs :
      sub[s].st = "open" /\ sub[s].current /\ sub[s].q # <<>> =>
        sub[s].q[Len(sub[s].q)].to = state

(* Disconnect returns: its wait ends because every goroutine it waits for          *)
(* has been cancelled, wherever in its loop that finds it.                         *)
DisconnectReturns ==
  \A c \in Callers : ~overlap /\ call[c] = "waiting" ~> call[c] = "idle"

(* A lost link comes back: a goroutine that retries reaches connected              *)
(* again, unless it is cancelled.                                                  *)
LostLinkReturns ==
  \A r \in Runs : retrying[r] ~> (run[r] = "waiting" \/ r \in cancelled)

(* What connection.go says of Conn, with no condition on how calls overlap:        *)
(* it "returns the current diam.Conn while the peer is connected, or nil           *)
(* otherwise".  Here: it does not return nil while the peer is connected and a     *)
(* goroutine that nobody has cancelled waits on an open link.                      *)
ConnWhileConnected ==
  \A r \in Runs :
    /\ state = "connected"
    /\ run[r] = "waiting" /\ link[r] = "open" /\ r \notin cancelled
    => activeConn # None
=============================================================================
