------------------------ MODULE PeerConnectionProofs ------------------------
(***********************************************************************************)
(* What TLAPS proves of PeerConnection, for any number of callers, runs            *)
(* and subscribers, any buffer and any overlap of the calls: the types, a          *)
(* quiet peer reads as stopped, one live goroutine at most, and, while the         *)
(* calls come one after the other, what Conn() and the subscribers are told.       *)
(***********************************************************************************)
EXTENDS PeerConnection, TLAPS, SequenceTheorems

(* A call that has yet to spawn or to cancel its run knows which one; a run        *)
(* that waits to be spawned is reserved, by one Connect only.                      *)
CallsHoldRuns ==
  /\ \A c \in Callers : call[c] \in {"spawn", "cancelling"} => mine[c] \in Runs
  /\ \A c \in Callers : call[c] = "spawn" => run[mine[c]] = "reserved"
  /\ \A c, d \in Callers :
       call[c] = "spawn" /\ call[d] = "spawn" /\ mine[c] = mine[d] => c = d

(* The run that is not ending is the one pc.cancel cancels.                        *)
CancelOwnsTheLiveRun ==
  \A r \in Runs : run[r] # "idle" /\ ~Ending(r) => cancel = r

IInv == TypeOK /\ CallsHoldRuns /\ QuietMeansStopped /\ CancelOwnsTheLiveRun

-----------------------------------------------------------------------------
(* transitionTo and the buffer of a subscriber.                                    *)

LEMMA TransitionTyped ==
  ASSUME TypeOK, NEW a \in Actors, NEW next \in ConnectionState,
         transitionTo(a, next)
  PROVE  state' \in ConnectionState /\ pend' \in [Actors -> Seq(StateEvent)]
<1>1. <<[from |-> state, to |-> next]>> \in Seq(StateEvent)
  BY DEF TypeOK, StateEvent
<1> QED BY <1>1 DEF TypeOK, transitionTo

LEMMA NoTransitionTyped ==
  ASSUME TypeOK, NoTransition
  PROVE  state' \in ConnectionState /\ pend' \in [Actors -> Seq(StateEvent)]
BY DEF TypeOK, NoTransition

(* A delivery with oldest-drop keeps the buffer within its size.                   *)
LEMMA DeliverTyped ==
  ASSUME NEW q \in Seq(StateEvent), NEW ev \in StateEvent,
         Len(q) <= BufferSize
  PROVE  /\ Deliver(q, ev) \in Seq(StateEvent)
         /\ Len(Deliver(q, ev)) <= BufferSize
<1>1. CASE Len(q) < BufferSize
  BY <1>1, PeerConnectionAssumption DEF Deliver
<1>2. CASE ~(Len(q) < BufferSize)
  <2>1. q # <<>> BY <1>2, PeerConnectionAssumption
  <2>2. Tail(q) \in Seq(StateEvent) /\ Len(Tail(q)) = Len(q) - 1
    BY <2>1
  <2> QED BY <1>2, <2>2, PeerConnectionAssumption DEF Deliver
<1> QED BY <1>1, <1>2

LEMMA EmitTyped ==
  ASSUME TypeOK, NEW a \in Actors, emit(a)
  PROVE  TypeOK'
<1>1. Head(pend[a]) \in StateEvent
  BY DEF TypeOK, emit
<1>2. pend' \in [Actors -> Seq(StateEvent)]
  BY DEF TypeOK, emit
<1>3. ASSUME NEW s \in Subs
      PROVE  /\ sub'[s] \in [st : SubState, current : BOOLEAN, q : Seq(StateEvent)]
             /\ Len(sub'[s].q) <= BufferSize
  <2>1. /\ Deliver(sub[s].q, Head(pend[a])) \in Seq(StateEvent)
        /\ Len(Deliver(sub[s].q, Head(pend[a]))) <= BufferSize
    BY <1>1, DeliverTyped DEF TypeOK
  <2> QED BY <2>1 DEF TypeOK, emit
<1>4. sub' \in [Subs -> [st : SubState, current : BOOLEAN, q : Seq(StateEvent)]]
  BY <1>3 DEF emit
<1> QED BY <1>2, <1>3, <1>4 DEF TypeOK, emit, runVars, callVars

-----------------------------------------------------------------------------
(* Each kind of step preserves the types.                                          *)

LEMMA RunTyped ==
  ASSUME TypeOK, NEW r \in Runs, RunStep(r) \/ DialSucceeds(r) \/ PeerDrops(r)
  PROVE  TypeOK'
<1> USE DEF runVars, callVars, ConnectionState, RunState
<1>0. r \in Actors BY DEF Actors
<1>1. CASE RunTop(r)
  <2>1. /\ state' \in ConnectionState
        /\ pend' \in [Actors -> Seq(StateEvent)]
    BY <1>0, <1>1, TransitionTyped, NoTransitionTyped DEF RunTop
  <2> QED BY <1>1, <2>1 DEF RunTop, TypeOK
<1>2. CASE DialFails(r)
  <2>1. /\ state' \in ConnectionState
        /\ pend' \in [Actors -> Seq(StateEvent)]
    BY <1>0, <1>2, TransitionTyped, NoTransitionTyped DEF DialFails
  <2> QED BY <1>2, <2>1 DEF DialFails, TypeOK
<1>3. CASE BackoffElapses(r)
  BY <1>3, NoTransitionTyped DEF BackoffElapses, TypeOK
<1>4. CASE BackoffCancelled(r)
  <2>1. /\ state' \in ConnectionState
        /\ pend' \in [Actors -> Seq(StateEvent)]
    BY <1>0, <1>4, TransitionTyped DEF BackoffCancelled
  <2> QED BY <1>4, <2>1 DEF BackoffCancelled, TypeOK
<1>5. CASE AnnounceConnected(r)
  <2>1. /\ state' \in ConnectionState
        /\ pend' \in [Actors -> Seq(StateEvent)]
    BY <1>0, <1>5, TransitionTyped DEF AnnounceConnected
  <2> QED BY <1>5, <2>1 DEF AnnounceConnected, TypeOK
<1>6. CASE SeeDrop(r)
  BY <1>6, NoTransitionTyped DEF SeeDrop, TearDown, TypeOK
<1>7. CASE SeeCancel(r)
  BY <1>7, NoTransitionTyped DEF SeeCancel, TearDown, TypeOK
<1>8. CASE AnnounceDrop(r)
  <2>1. /\ state' \in ConnectionState
        /\ pend' \in [Actors -> Seq(StateEvent)]
    BY <1>0, <1>8, TransitionTyped DEF AnnounceDrop
  <2> QED BY <1>8, <2>1 DEF AnnounceDrop, TypeOK
<1>9. CASE AnnounceStopped(r)
  <2>1. /\ state' \in ConnectionState
        /\ pend' \in [Actors -> Seq(StateEvent)]
    BY <1>0, <1>9, TransitionTyped DEF AnnounceStopped
  <2> QED BY <1>9, <2>1 DEF AnnounceStopped, TypeOK
<1>10. CASE RunExit(r)
  BY <1>10, NoTransitionTyped DEF RunExit, Release, CallState, TypeOK
<1>11. CASE DialSucceeds(r)
  BY <1>11, NoTransitionTyped DEF DialSucceeds, TypeOK
<1>12. CASE PeerDrops(r)
  BY <1>12, NoTransitionTyped DEF PeerDrops, TypeOK
<1> QED
  BY <1>1, <1>2, <1>3, <1>4, <1>5, <1>6, <1>7, <1>8, <1>9, <1>10, <1>11, <1>12
     DEF RunStep

LEMMA CallTyped ==
  ASSUME TypeOK, CallsHoldRuns, NEW c \in Callers,
         Connect(c) \/ Disconnect(c) \/ CallStep(c)
  PROVE  TypeOK'
<1> USE DEF runVars, ConnectionState, RunState, CallState
<1>0. c \in Actors BY DEF Actors
<1>1. CASE Connect(c)
  BY <1>1, NoTransitionTyped DEF Connect, TypeOK
<1>2. CASE Disconnect(c)
  <2>1. /\ state' \in ConnectionState
        /\ pend' \in [Actors -> Seq(StateEvent)]
    BY <1>0, <1>2, TransitionTyped, NoTransitionTyped DEF Disconnect
  <2> QED BY <1>2, <2>1 DEF Disconnect, TypeOK
<1>3. CASE ConnectSpawn(c)
  BY <1>3, NoTransitionTyped DEF ConnectSpawn, TypeOK
<1>4. CASE CallCancel(c)
  BY <1>4, NoTransitionTyped DEF CallCancel, TypeOK, CallsHoldRuns
<1>5. CASE WaitReturns(c) \/ WaitBlocks(c) \/ WaitPanics(c)
  BY <1>5, NoTransitionTyped DEF WaitReturns, WaitBlocks, WaitPanics, Wait, TypeOK
<1>6. CASE CloseSubscribers(c)
  BY <1>6, NoTransitionTyped DEF CloseSubscribers, TypeOK, SubState
<1>7. CASE ReplaceSubscribers(c)
  BY <1>7, NoTransitionTyped DEF ReplaceSubscribers, TypeOK
<1> QED BY <1>1, <1>2, <1>3, <1>4, <1>5, <1>6, <1>7 DEF CallStep

LEMMA SubTyped ==
  ASSUME TypeOK, NEW s \in Subs, SubStep(s)
  PROVE  TypeOK'
<1> DEFINE Sub == [st : SubState, current : BOOLEAN, q : Seq(StateEvent)]
<1>1. ASSUME NEW v \in Sub, Len(v.q) <= BufferSize, OnlySubChanges(s, v)
      PROVE  TypeOK'
  BY <1>1, NoTransitionTyped DEF OnlySubChanges, TypeOK, runVars, callVars
<1>2. FreeSub \in Sub /\ Len(FreeSub.q) <= BufferSize
  BY PeerConnectionAssumption DEF FreeSub, SubState
<1>3. sub[s] \in Sub /\ Len(sub[s].q) <= BufferSize
  BY DEF TypeOK
<1>4. CASE Subscribe(s)
  BY <1>1, <1>2, <1>4 DEF Subscribe, SubState
<1>5. CASE SubscribeAdd(s)
  BY <1>1, <1>3, <1>5 DEF SubscribeAdd, SubState
<1>6. CASE Unsubscribe(s)
  BY <1>1, <1>3, <1>6 DEF Unsubscribe, SubState
<1>7. CASE Receive(s)
  <2>1. CASE sub[s].q # <<>>
    <3>1. /\ Tail(sub[s].q) \in Seq(StateEvent)
          /\ Len(Tail(sub[s].q)) = Len(sub[s].q) - 1
          /\ Len(sub[s].q) \in Nat
      BY <1>3, <2>1
    <3>2. Len(Tail(sub[s].q)) <= BufferSize
      BY <1>3, <3>1, PeerConnectionAssumption
    <3>3. OnlySubChanges(s, [sub[s] EXCEPT !.q = Tail(@)])
      BY <1>7, <2>1 DEF Receive
    <3> QED BY <1>1, <1>3, <3>1, <3>2, <3>3
  <2>2. CASE sub[s].q = <<>>
    BY <1>1, <1>2, <1>7, <2>2 DEF Receive
  <2> QED BY <2>1, <2>2
<1> QED BY <1>4, <1>5, <1>6, <1>7 DEF SubStep

LEMMA RootCancelTyped ==
  ASSUME TypeOK, RootCancel
  PROVE  TypeOK'
BY NoTransitionTyped DEF RootCancel, TypeOK, runVars

-----------------------------------------------------------------------------
(* What the steps of each actor leave to the others.                               *)

(* A step of a run neither touches what the calls hold nor brings a run to         *)
(* life; the exit of a run may release calls.                                      *)
LEMMA RunStepFrame ==
  ASSUME TypeOK, NEW r \in Runs, RunStep(r) \/ DialSucceeds(r)
  PROVE  /\ UNCHANGED <<mine, cancel, cancelled>>
         /\ call' = call \/ run'[r] = "idle"
         /\ \A c \in Callers :
              call'[c] = call[c] \/ (call[c] = "blocked" /\ call'[c] = "released")
         /\ run[r] \notin {"idle", "reserved"}
         /\ run'[r] # "reserved"
         /\ \A q \in Runs \ {r} : run'[q] = run[q]
BY DEF TypeOK, RunStep, RunTop, DialFails, BackoffElapses, BackoffCancelled,
       AnnounceConnected, SeeDrop, SeeCancel, TearDown, AnnounceDrop,
       AnnounceStopped, RunExit, Release, DialSucceeds, callVars

LEMMA HoldsAfterRun ==
  ASSUME IInv, NEW r \in Runs, RunStep(r) \/ DialSucceeds(r)
  PROVE  CallsHoldRuns' /\ CancelOwnsTheLiveRun'
<1> USE DEF IInv
<1>1. CallsHoldRuns'
  <2>1. \A c \in Callers : call[c] = "spawn" => mine[c] # r /\ mine[c] \in Runs
    BY RunStepFrame DEF CallsHoldRuns
  <2> QED BY <2>1, RunStepFrame DEF CallsHoldRuns
<1>2. CancelOwnsTheLiveRun'
  BY RunStepFrame DEF CancelOwnsTheLiveRun, Ending
<1> QED BY <1>1, <1>2

LEMMA HoldsAfterCall ==
  ASSUME IInv, NEW c \in Callers, Connect(c) \/ Disconnect(c) \/ CallStep(c)
  PROVE  CallsHoldRuns' /\ CancelOwnsTheLiveRun'
<1> USE DEF IInv
<1>1. CASE Connect(c)
  <2>1. PICK r \in Runs :
          /\ run[r] = "idle" /\ cancel' = r
          /\ \A d \in Callers : mine[d] # r
          /\ run' = [run EXCEPT ![r] = "reserved"]
          /\ cancelled' = IF rootCancelled THEN cancelled \cup {r}
                          ELSE cancelled \ {r}
          /\ mine' = [mine EXCEPT ![c] = r]
    BY <1>1 DEF Connect
  <2>2. call[c] = "idle" /\ call' = [call EXCEPT ![c] = "spawn"]
    BY <1>1 DEF Connect, MayCall
  <2>3. CallsHoldRuns'
    BY <2>1, <2>2 DEF TypeOK, CallsHoldRuns
  <2>4. \A q \in Runs \ {r} : run[q] # "idle" => Ending(q)
    BY <1>1, PeerConnectionAssumption DEF Connect, CancelOwnsTheLiveRun
  <2>5. \A q \in Runs \ {r} : Ending(q) => Ending(q)'
    BY <2>1, <2>2 DEF TypeOK, Ending
  <2>6. CancelOwnsTheLiveRun'
    BY <2>1, <2>4, <2>5 DEF TypeOK, CancelOwnsTheLiveRun
  <2> QED BY <2>3, <2>6
<1>2. CASE Disconnect(c)
  <2>1. run' = run /\ cancelled' = cancelled /\ cancel' = None /\ call[c] = "idle"
    BY <1>2 DEF Disconnect, MayCall, runVars
  <2>2. CASE cancel = None
    <3>1. \A q \in Runs : run[q] # "idle" => Ending(q)
      BY <2>2, PeerConnectionAssumption DEF CancelOwnsTheLiveRun
    <3>2. call' = call /\ mine' = mine
      BY <1>2, <2>2 DEF Disconnect
    <3> QED BY <2>1, <3>1, <3>2 DEF CallsHoldRuns, CancelOwnsTheLiveRun, Ending
  <2>3. CASE cancel # None
    <3>1. /\ call' = [call EXCEPT ![c] = "cancelling"]
          /\ mine' = [mine EXCEPT ![c] = cancel]
      BY <1>2, <2>3 DEF Disconnect
    <3>2. CallsHoldRuns'
      BY <2>1, <2>3, <3>1 DEF TypeOK, CallsHoldRuns
    <3>3. \A q \in Runs : Ending(q) \/ cancel = q => Ending(q)'
      BY <2>1, <3>1 DEF TypeOK, Ending
    <3> QED BY <2>1, <3>2, <3>3 DEF CancelOwnsTheLiveRun
  <2> QED BY <2>2, <2>3
<1>3. CASE ConnectSpawn(c)
  <2>1. /\ run' = [run EXCEPT ![mine[c]] = "top"]
        /\ call[c] = "spawn" /\ call' = [call EXCEPT ![c] = "idle"]
        /\ mine' = [mine EXCEPT ![c] = None]
        /\ cancel' = cancel /\ cancelled' = cancelled
    BY <1>3 DEF ConnectSpawn
  <2>2. mine[c] \in Runs /\ run[mine[c]] = "reserved"
    BY <2>1 DEF CallsHoldRuns
  <2>3. CallsHoldRuns'
    <3>1. \A d \in Callers : call'[d] \in {"spawn", "cancelling"} =>
            d # c /\ call'[d] = call[d] /\ mine'[d] = mine[d]
      BY <2>1 DEF TypeOK
    <3>2. \A d \in Callers : d # c /\ call[d] = "spawn" => mine[d] # mine[c]
      BY <2>1 DEF CallsHoldRuns
    <3> QED BY <2>1, <3>1, <3>2 DEF TypeOK, CallsHoldRuns
  <2>4. \A q \in Runs : Ending(q) => Ending(q)'
    BY <2>1 DEF TypeOK, Ending
  <2>5. CancelOwnsTheLiveRun'
    BY <2>1, <2>2, <2>4 DEF TypeOK, CancelOwnsTheLiveRun
  <2> QED BY <2>3, <2>5
<1>4. CASE CallCancel(c)
  <2>1. /\ cancelled' = cancelled \cup {mine[c]} /\ cancel' = cancel
        /\ call[c] = "cancelling" /\ call' = [call EXCEPT ![c] = "waiting"]
        /\ mine' = [mine EXCEPT ![c] = None] /\ run' = run
    BY <1>4 DEF CallCancel, runVars
  <2>2. \A d \in Callers : call'[d] \in {"spawn", "cancelling"} =>
          d # c /\ call'[d] = call[d] /\ mine'[d] = mine[d]
    BY <2>1 DEF TypeOK
  <2>3. CallsHoldRuns'
    BY <2>1, <2>2 DEF CallsHoldRuns
  <2>4. \A q \in Runs : Ending(q) => Ending(q)'
    BY <2>1 DEF TypeOK, Ending
  <2> QED BY <2>1, <2>3, <2>4 DEF CancelOwnsTheLiveRun
<1>5. CASE \/ WaitReturns(c) \/ WaitBlocks(c) \/ WaitPanics(c)
           \/ CloseSubscribers(c) \/ ReplaceSubscribers(c)
  <2>1. /\ UNCHANGED <<run, mine, cancel, cancelled>>
        /\ call[c] # "cancelling"
        /\ \E next \in {"blocked", "closing", "replacing", "idle"} :
             call' = [call EXCEPT ![c] = next]
    BY <1>5 DEF WaitReturns, WaitBlocks, WaitPanics, Wait, CloseSubscribers, ReplaceSubscribers, runVars
  <2>2. \A d \in Callers :
          /\ call'[d] \in {"spawn", "cancelling"} => call'[d] = call[d]
          /\ call[d] = "cancelling" => call'[d] = call[d]
    BY <2>1 DEF TypeOK
  <2> QED BY <2>1, <2>2 DEF CallsHoldRuns, CancelOwnsTheLiveRun, Ending
<1> QED BY <1>1, <1>2, <1>3, <1>4, <1>5 DEF CallStep

(* Whoever leaves the last working run behind has stored "stopped".                *)
LEMMA QuietAfterRun ==
  ASSUME TypeOK, QuietMeansStopped, NEW r \in Runs, RunStep(r) \/ DialSucceeds(r)
  PROVE  QuietMeansStopped'
<1>1. CASE Working(r)'
  BY <1>1 DEF QuietMeansStopped
<1>2. CASE ~Working(r)'
  <2>1. state' = "stopped" \/ RunExit(r)
    BY <1>2 DEF TypeOK, Working, RunStep, RunTop, DialFails, BackoffElapses,
                BackoffCancelled, AnnounceConnected, SeeDrop, SeeCancel, TearDown,
                AnnounceDrop, AnnounceStopped, DialSucceeds, transitionTo
  <2>2. CASE RunExit(r)
    BY <2>2 DEF TypeOK, QuietMeansStopped, Working, RunExit, NoTransition
  <2> QED BY <2>1, <2>2 DEF QuietMeansStopped
<1> QED BY <1>1, <1>2

LEMMA QuietAfterCall ==
  ASSUME IInv, NEW c \in Callers, Connect(c) \/ Disconnect(c) \/ CallStep(c)
  PROVE  QuietMeansStopped'
<1>1. CASE Disconnect(c)
  BY <1>1 DEF Disconnect, transitionTo, NoTransition, IInv, QuietMeansStopped,
              Working, runVars
<1>2. CASE Connect(c) \/ CallStep(c)
  <2>1. state' = state
    BY <1>2 DEF Connect, CallStep, ConnectSpawn, CallCancel, WaitReturns,
                WaitBlocks, WaitPanics, Wait, CloseSubscribers, ReplaceSubscribers, NoTransition
  <2>2. \A r \in Runs : Working(r) => Working(r)'
    BY <1>2 DEF IInv, TypeOK, Working, Connect, CallStep, ConnectSpawn, CallCancel,
                WaitReturns, WaitBlocks, WaitPanics, Wait, CloseSubscribers,
                ReplaceSubscribers, runVars
  <2> QED BY <2>1, <2>2 DEF IInv, QuietMeansStopped
<1> QED BY <1>1, <1>2

-----------------------------------------------------------------------------
LEMMA Initial == Init => IInv
<1> SUFFICES ASSUME Init PROVE IInv
  OBVIOUS
<1>1. TypeOK
  <2>1. FreeSub \in [st : SubState, current : BOOLEAN, q : Seq(StateEvent)]
    BY DEF FreeSub, SubState
  <2>2. Len(FreeSub.q) <= BufferSize
    BY PeerConnectionAssumption DEF FreeSub
  <2>3. pend \in [Actors -> Seq(StateEvent)]
    <3>1. <<>> \in Seq(StateEvent) OBVIOUS
    <3> QED BY <3>1 DEF Init
  <2>4. /\ sub \in [Subs -> [st : SubState, current : BOOLEAN, q : Seq(StateEvent)]]
        /\ \A s \in Subs : Len(sub[s].q) <= BufferSize
    BY <2>1, <2>2 DEF Init
  <2> QED
    BY <2>3, <2>4 DEF Init, TypeOK, ConnectionState, RunState, CallState
<1>2. CallsHoldRuns /\ QuietMeansStopped /\ CancelOwnsTheLiveRun
  BY DEF Init, CallsHoldRuns, QuietMeansStopped, CancelOwnsTheLiveRun
<1> QED BY <1>1, <1>2 DEF IInv

LEMMA Inductive == IInv /\ [Next]_vars => IInv'
<1> SUFFICES ASSUME IInv, [Next]_vars PROVE IInv'
  OBVIOUS
<1> USE DEF IInv
<1>1. ASSUME NEW r \in Runs, RunStep(r) \/ DialSucceeds(r) PROVE IInv'
  BY <1>1, RunTyped, HoldsAfterRun, QuietAfterRun
<1>2. ASSUME NEW r \in Runs, PeerDrops(r) PROVE IInv'
  <2>1. UNCHANGED <<run, callVars, state>>
    BY <1>2 DEF PeerDrops, NoTransition
  <2> QED
    BY <1>2, <2>1, RunTyped DEF callVars, CallsHoldRuns, QuietMeansStopped,
       CancelOwnsTheLiveRun, Ending, Working
<1>3. ASSUME NEW c \in Callers, Connect(c) \/ Disconnect(c) \/ CallStep(c)
      PROVE  IInv'
  BY <1>3, CallTyped, HoldsAfterCall, QuietAfterCall
<1>4. ASSUME NEW a \in Actors, emit(a) PROVE IInv'
  <2>1. UNCHANGED <<run, callVars, state>>
    BY <1>4 DEF emit, runVars
  <2> QED
    BY <1>4, <2>1, EmitTyped DEF callVars, CallsHoldRuns, QuietMeansStopped,
       CancelOwnsTheLiveRun, Ending, Working
<1>5. ASSUME NEW s \in Subs, SubStep(s) PROVE IInv'
  <2>1. UNCHANGED <<run, callVars, state>>
    BY <1>5 DEF SubStep, Subscribe, SubscribeAdd, Unsubscribe, Receive,
       OnlySubChanges, NoTransition, runVars
  <2> QED
    BY <1>5, <2>1, SubTyped DEF callVars, CallsHoldRuns, QuietMeansStopped,
       CancelOwnsTheLiveRun, Ending, Working
<1>6. CASE RootCancel
  <2>1. /\ UNCHANGED <<run, call, mine, cancel, state>>
        /\ cancelled \subseteq cancelled'
    BY <1>6 DEF RootCancel, runVars, NoTransition
  <2> QED
    BY <1>6, <2>1, RootCancelTyped DEF CallsHoldRuns, QuietMeansStopped,
       CancelOwnsTheLiveRun, Ending, Working
<1>7. CASE UNCHANGED vars
  BY <1>7 DEF vars, TypeOK, CallsHoldRuns, QuietMeansStopped,
     CancelOwnsTheLiveRun, Ending, Working
<1> QED BY <1>1, <1>2, <1>3, <1>4, <1>5, <1>6, <1>7 DEF Next

LEMMA Invariance == Spec => []IInv
BY Initial, Inductive, PTL DEF Spec

(* The types, and with them the bound on every subscriber's buffer.                *)
THEOREM PeerTypes == Spec => []TypeOK
BY Invariance, PTL DEF IInv

(* A peer without a working lifecycle goroutine reads as stopped, however          *)
(* the calls and the goroutines interleave.                                        *)
THEOREM QuietPeerIsStopped == Spec => []QuietMeansStopped
BY Invariance, PTL DEF IInv

(* Of the goroutines alive at once, all but one are ending: the one left is        *)
(* the one pc.cancel cancels.                                                      *)
THEOREM OneRunLives == Spec => []OneLiveRun
<1>1. IInv => OneLiveRun
  BY DEF IInv, CancelOwnsTheLiveRun, OneLiveRun, Counted
<1> QED BY <1>1, Invariance, PTL

-----------------------------------------------------------------------------
(* Calls made one after the other.  What follows holds while they do not           *)
(* overlap: one call at most is under way, and it emits nothing of its own,        *)
(* because a Disconnect without a run finds the state already stopped.             *)
CallsInTurn ==
  /\ \A c, d \in Callers : call[c] # "idle" /\ call[d] # "idle" => c = d
  /\ \A c \in Callers : Ready(c)

(* One run at most exists, and none when the next Connect may start one.           *)
OneRunInTurn ==
  /\ \A q, r \in Runs : run[q] # "idle" /\ run[r] # "idle" => q = r
  /\ \A r \in Runs : run[r] = "idle" => Ready(r)
  /\ \A r \in Runs : run[r] = "reserved" => \E c \in Callers : call[c] = "spawn"
  /\ cancel = None /\ (\A c \in Callers : call[c] \notin {"cancelling", "waiting", "blocked"})
       => \A r \in Runs : run[r] = "idle"

(* activeConn is set before the state says so and cleared after the wait.          *)
LinkIsPublished ==
  \A r \in Runs : /\ run[r] \in {"dialled", "waiting"} => activeConn = r
                  /\ run[r] = "waiting" => state = "connected"

(* An event on its way carries the present state, and a subscriber joins with      *)
(* an empty buffer.                                                                *)
EventsOnTheirWay ==
  /\ \A a \in Actors : ~Ready(a) => Head(pend[a]).to = state
  /\ \A s \in Subs : sub[s].st = "adding" => sub[s].q = <<>>

(* What NewestEventIsState says of one subscriber.                                 *)
EndsOn(s, st) ==
  sub[s].st = "open" /\ sub[s].current /\ sub[s].q # <<>> =>
    sub[s].q[Len(sub[s].q)].to = st

BuffersEndOnState ==
  (\A a \in Actors : Ready(a)) => \A s \in Subs : EndsOn(s, state)

InTurn ==
  /\ CallsInTurn /\ OneRunInTurn /\ LinkIsPublished
  /\ EventsOnTheirWay /\ BuffersEndOnState

TurnInv == ~overlap => InTurn

(* A step of a run emits what it stored and nothing else, waits only on the        *)
(* link it dialled, and exits with nothing left to emit.                           *)
LEMMA RunStepEffect ==
  ASSUME TypeOK, NEW r \in Runs, RunStep(r) \/ DialSucceeds(r)
  PROVE  /\ Ready(r) /\ UNCHANGED <<overlap, sub>>
         /\ \A a \in Actors \ {r} : pend'[a] = pend[a]
         /\ pend'[r] = <<>> => state' = state
         /\ pend'[r] # <<>> => Head(pend'[r]).to = state'
         /\ run'[r] = "idle" => pend'[r] = <<>>
         /\ run'[r] = "dialled" => activeConn' = r
         /\ run'[r] = "waiting" =>
              run[r] = "dialled" /\ state' = "connected" /\ activeConn' = activeConn
<1>0. r \in Actors BY DEF Actors
<1>1. ASSUME NEW next, transitionTo(r, next), Ready(r)
      PROVE  /\ \A a \in Actors \ {r} : pend'[a] = pend[a]
             /\ pend'[r] = <<>> => state' = state
             /\ pend'[r] # <<>> => Head(pend'[r]).to = state'
  <2>1. Head(<<[from |-> state, to |-> next]>>).to = next
    OBVIOUS
  <2> QED BY <1>0, <1>1, <2>1 DEF TypeOK, transitionTo, Ready
<1>2. ASSUME NoTransition, Ready(r)
      PROVE  /\ \A a \in Actors \ {r} : pend'[a] = pend[a]
             /\ pend'[r] = <<>> /\ state' = state
  BY <1>2 DEF NoTransition, Ready
<1>3. CASE RunTop(r)
  BY <1>1, <1>2, <1>3 DEF RunTop, TypeOK
<1>4. CASE DialFails(r)
  BY <1>1, <1>2, <1>4 DEF DialFails, TypeOK
<1>5. CASE BackoffElapses(r) \/ SeeDrop(r) \/ SeeCancel(r)
  BY <1>2, <1>5 DEF BackoffElapses, SeeDrop, SeeCancel, TearDown, TypeOK
<1>6. CASE BackoffCancelled(r)
  BY <1>1, <1>6 DEF BackoffCancelled, TypeOK
<1>7. CASE AnnounceConnected(r)
  BY <1>1, <1>7 DEF AnnounceConnected, TypeOK, transitionTo
<1>8. CASE AnnounceDrop(r)
  BY <1>1, <1>8 DEF AnnounceDrop, TypeOK
<1>9. CASE AnnounceStopped(r)
  BY <1>1, <1>9 DEF AnnounceStopped, TypeOK
<1>10. CASE RunExit(r) \/ DialSucceeds(r)
  BY <1>2, <1>10 DEF RunExit, DialSucceeds, TypeOK
<1> QED
  BY <1>3, <1>4, <1>5, <1>6, <1>7, <1>8, <1>9, <1>10 DEF RunStep

LEMMA InTurnAfterRun ==
  ASSUME IInv, InTurn, NEW r \in Runs, RunStep(r) \/ DialSucceeds(r)
  PROVE  InTurn'
<1> USE DEF IInv, InTurn
<1>0. r \in Actors /\ r \notin Callers /\ (\A c \in Callers : c \in Actors)
      /\ (\A q \in Runs : q \in Actors)
  BY PeerConnectionAssumption DEF Actors
<1>1. /\ cancel' = cancel /\ (call' = call \/ run'[r] = "idle")
      /\ \A c \in Callers : call[c] = "idle" \/ call[c] = "spawn" => call'[c] = call[c]
      /\ \A c \in Callers : call'[c] = "idle" <=> call[c] = "idle"
      /\ \A q \in Runs \ {r} : run[q] = "idle" /\ run'[q] = "idle"
  BY RunStepFrame DEF OneRunInTurn
<1>2. \A a \in Actors \ {r} : pend'[a] = pend[a]
  BY RunStepEffect
<1>3. CallsInTurn'
  BY <1>0, <1>1, <1>2 DEF CallsInTurn, Ready
<1>4. OneRunInTurn'
  <2>1. \A q \in Runs : run'[q] = "idle" => Ready(q)'
    BY <1>0, <1>1, <1>2, RunStepEffect DEF OneRunInTurn, Ready
  <2>2. \A q \in Runs : run'[q] # "reserved"
    BY <1>1, RunStepFrame
  <2>3. /\ cancel' = None
        /\ \A c \in Callers : call'[c] \notin {"cancelling", "waiting", "blocked"}
        => run'[r] = "idle"
    <3>1. run[r] # "idle"
      BY RunStepFrame
    <3> QED BY <1>1, <3>1 DEF OneRunInTurn
  <2> QED BY <1>1, <2>1, <2>2, <2>3 DEF OneRunInTurn
<1>5. LinkIsPublished'
  BY <1>1, RunStepEffect DEF LinkIsPublished
<1>6. EventsOnTheirWay'
  <2>1. \A a \in Actors \ {r} : Ready(a)
    BY <1>1 DEF CallsInTurn, OneRunInTurn, Actors
  <2> QED BY <1>2, <2>1, RunStepEffect DEF EventsOnTheirWay, Ready
<1>7. BuffersEndOnState'
  <2>1. ASSUME \A a \in Actors : Ready(a)'
        PROVE  state' = state /\ \A a \in Actors : Ready(a)
    BY <1>0, <1>2, <2>1, RunStepEffect DEF Ready
  <2> QED BY <2>1, RunStepEffect DEF BuffersEndOnState, EndsOn
<1> QED BY <1>3, <1>4, <1>5, <1>6, <1>7

(* A call that finds no run has nothing to announce: by QuietMeansStopped the      *)
(* state is the one it would store.                                                *)
LEMMA CallIsSilent ==
  ASSUME IInv, InTurn, ~overlap, NEW c \in Callers,
         Connect(c) \/ Disconnect(c) \/ CallStep(c)
  PROVE  UNCHANGED <<overlap, state, pend, activeConn>>
<1> USE DEF IInv, InTurn, runVars
<1>1. CASE Disconnect(c)
  <2>1. CASE cancel = None
    <3>1. \A d \in Callers : call[d] = "idle"
      BY <1>1 DEF Disconnect, MayCall
    <3>2. state = "stopped"
      BY <2>1, <3>1 DEF OneRunInTurn, QuietMeansStopped, Working
    <3>3. transitionTo(c, "stopped") /\ pend[c] = <<>> /\ c \in Actors
      BY <1>1, <2>1, PeerConnectionAssumption DEF Disconnect, MayCall, Ready, Actors
    <3>4. pend' = pend /\ state' = state
      BY <3>2, <3>3 DEF transitionTo, TypeOK
    <3> QED BY <1>1, <3>4 DEF Disconnect
  <2>2. CASE cancel # None
    BY <1>1, <2>2 DEF Disconnect, NoTransition
  <2> QED BY <2>1, <2>2
<1>2. CASE Connect(c) \/ CallStep(c)
  BY <1>2 DEF Connect, CallStep, ConnectSpawn, CallCancel, WaitReturns,
     WaitBlocks, WaitPanics, Wait, CloseSubscribers, ReplaceSubscribers, NoTransition
<1> QED BY <1>1, <1>2

(* What a call changes of the calls and of the runs.                               *)
LEMMA CallsAfterCall ==
  ASSUME IInv, InTurn, ~overlap, NEW c \in Callers,
         Connect(c) \/ Disconnect(c) \/ CallStep(c)
  PROVE  CallsInTurn' /\ OneRunInTurn'
<1> USE DEF IInv, InTurn, runVars
<1>0. pend' = pend BY CallIsSilent
<1>1. CASE Connect(c)
  <2>1. \A d \in Callers : call[d] = "idle"
    BY <1>1 DEF Connect, MayCall
  <2>2. \A q \in Runs : run[q] = "idle"
    BY <1>1, <2>1 DEF Connect, OneRunInTurn
  <2>3. PICK r \in Runs : cancel' = r /\ run' = [run EXCEPT ![r] = "reserved"]
    BY <1>1 DEF Connect
  <2>4. call' = [call EXCEPT ![c] = "spawn"]
    BY <1>1 DEF Connect
  <2>5. CallsInTurn'
    BY <1>0, <2>1, <2>4 DEF CallsInTurn, Ready, TypeOK
  <2>6. cancel' # None
    BY <2>3, PeerConnectionAssumption
  <2>7. OneRunInTurn'
    BY <1>0, <2>2, <2>3, <2>4, <2>6 DEF OneRunInTurn, Ready, TypeOK
  <2> QED BY <2>5, <2>7
<1>2. CASE Disconnect(c)
  <2>1. \A d \in Callers : call[d] = "idle"
    BY <1>2 DEF Disconnect, MayCall
  <2>2. run' = run /\ cancel' = None
    BY <1>2 DEF Disconnect
  <2>3. \/ call' = call /\ cancel = None
        \/ call' = [call EXCEPT ![c] = "cancelling"]
    BY <1>2 DEF Disconnect
  <2>4. CallsInTurn'
    BY <1>0, <2>1, <2>3 DEF CallsInTurn, Ready, TypeOK
  <2>5. OneRunInTurn'
    BY <1>0, <2>1, <2>2, <2>3 DEF OneRunInTurn, Ready, TypeOK
  <2> QED BY <2>4, <2>5
<1>3. CASE CallStep(c)
  <2>1. /\ call[c] # "idle" /\ cancel' = cancel
        /\ \E next \in CallState : call' = [call EXCEPT ![c] = next]
    BY <1>3 DEF CallStep, ConnectSpawn, CallCancel, WaitReturns, WaitBlocks, WaitPanics,
       Wait, CloseSubscribers, ReplaceSubscribers, CallState
  <2>2. CallsInTurn'
    BY <1>0, <2>1 DEF CallsInTurn, Ready, TypeOK
  <2>3. \A d \in Callers \ {c} : call[d] = "idle" /\ call'[d] = "idle"
    BY <2>1 DEF CallsInTurn, TypeOK
  <2>4. CASE ConnectSpawn(c)
    <3>1. /\ mine[c] \in Runs /\ run[mine[c]] = "reserved"
          /\ run' = [run EXCEPT ![mine[c]] = "top"]
          /\ call[c] = "spawn" /\ call' = [call EXCEPT ![c] = "idle"]
      BY <2>4 DEF ConnectSpawn, CallsHoldRuns
    <3>2. \A q \in Runs : run'[q] = "idle" <=> run[q] = "idle"
      BY <3>1 DEF TypeOK
    <3>3. \A q \in Runs : run'[q] # "reserved"
      BY <3>1 DEF TypeOK, OneRunInTurn
    <3>4. \A d \in Callers : call[d] \notin {"cancelling", "waiting", "blocked"}
      BY <2>3, <3>1
    <3> QED BY <1>0, <2>1, <2>2, <3>2, <3>3, <3>4 DEF OneRunInTurn, Ready
  <2>5. CASE CallCancel(c) \/ WaitBlocks(c) \/ WaitReturns(c)
    <3>1. /\ run' = run /\ \A d \in Callers : call[d] # "spawn"
          /\ call'[c] \in {"waiting", "blocked"} \/ \A r \in Runs : ~Counted(r)
      BY <2>3, <2>5 DEF CallCancel, WaitBlocks, WaitReturns, NoneCounted, Wait, TypeOK
    <3>2. \A r \in Runs : ~Counted(r) => run[r] = "idle"
      BY <3>1 DEF Counted, OneRunInTurn
    <3> QED BY <1>0, <2>1, <2>2, <3>1, <3>2 DEF OneRunInTurn, Ready
  <2>6. CASE WaitPanics(c) \/ CloseSubscribers(c) \/ ReplaceSubscribers(c)
    <3>1. /\ run' = run /\ \A d \in Callers : call[d] # "spawn"
          /\ \A d \in Callers : call[d] \notin {"cancelling", "waiting", "blocked"}
      BY <2>3, <2>6 DEF WaitPanics, Wait, CloseSubscribers, ReplaceSubscribers
    <3> QED BY <1>0, <2>1, <2>2, <3>1 DEF OneRunInTurn, Ready
  <2> QED BY <1>3, <2>2, <2>4, <2>5, <2>6 DEF CallStep
<1> QED BY <1>1, <1>2, <1>3

(* A call spawns runs but never one that dials at once, and only closes or         *)
(* retires subscribers.                                                            *)
LEMMA InTurnAfterCall ==
  ASSUME IInv, InTurn, ~overlap, NEW c \in Callers,
         Connect(c) \/ Disconnect(c) \/ CallStep(c)
  PROVE  InTurn'
<1> USE DEF IInv, InTurn, runVars
<1>0. UNCHANGED <<state, pend, activeConn>> BY CallIsSilent
<1>1. CallsInTurn' /\ OneRunInTurn' BY CallsAfterCall
<1>2. LinkIsPublished'
  <2>1. \A q \in Runs : run'[q] = run[q] \/ run'[q] \in {"reserved", "top"}
    BY DEF Connect, Disconnect, CallStep, ConnectSpawn, CallCancel, WaitReturns,
       WaitBlocks, WaitPanics, Wait, CloseSubscribers, ReplaceSubscribers, TypeOK
  <2> QED BY <1>0, <2>1 DEF LinkIsPublished
<1>3. ASSUME NEW s \in Subs
      PROVE  /\ sub'[s].st = "adding" => sub[s].st = "adding"
             /\ sub'[s].st = "open" /\ sub'[s].current =>
                  sub[s].st = "open" /\ sub[s].current
             /\ sub'[s].q = sub[s].q
  BY DEF Connect, Disconnect, CallStep, ConnectSpawn, CallCancel, WaitReturns,
     WaitBlocks, WaitPanics, Wait, CloseSubscribers, ReplaceSubscribers, TypeOK
<1>4. EventsOnTheirWay'
  BY <1>0, <1>3 DEF EventsOnTheirWay, Ready
<1>5. BuffersEndOnState'
  BY <1>0, <1>3 DEF BuffersEndOnState, EndsOn, Ready
<1> QED BY <1>1, <1>2, <1>4, <1>5

(* A delivered event is the newest in the buffer, oldest-drop or not.              *)
LEMMA DeliverEnds ==
  ASSUME NEW q \in Seq(StateEvent), NEW ev \in StateEvent
  PROVE  Deliver(q, ev)[Len(Deliver(q, ev))] = ev
<1>1. CASE Len(q) < BufferSize
  BY <1>1 DEF Deliver
<1>2. CASE ~(Len(q) < BufferSize)
  <2>1. Tail(q) \in Seq(StateEvent)
    BY <1>2, PeerConnectionAssumption
  <2> QED BY <1>2, <2>1 DEF Deliver
<1> QED BY <1>1, <1>2

LEMMA InTurnAfterEmit ==
  ASSUME IInv, InTurn, NEW a \in Actors, emit(a)
  PROVE  InTurn'
<1> USE DEF IInv, InTurn
<1>0. /\ UNCHANGED <<state, run, activeConn, call, cancel>>
      /\ ~Ready(a) /\ Ready(a)' /\ \A b \in Actors \ {a} : pend'[b] = pend[b]
  BY DEF emit, runVars, callVars, Ready, TypeOK
<1>1. \A b \in Actors : Ready(b) => Ready(b)'
  BY <1>0 DEF Ready
<1>2. CallsInTurn' /\ OneRunInTurn'
  BY <1>0, <1>1 DEF CallsInTurn, OneRunInTurn, Actors
<1>3. LinkIsPublished'
  BY <1>0 DEF LinkIsPublished
<1>4. EventsOnTheirWay'
  BY <1>0 DEF EventsOnTheirWay, Ready, emit, TypeOK
<1>5. BuffersEndOnState'
  <2>1. ASSUME NEW s \in Subs, sub'[s].st = "open", sub'[s].current
        PROVE  sub'[s].q[Len(sub'[s].q)].to = state'
    <3>1. Head(pend[a]) \in StateEvent /\ Head(pend[a]).to = state
      BY <1>0 DEF TypeOK, Ready, EventsOnTheirWay
    <3>2. sub'[s].q = Deliver(sub[s].q, Head(pend[a]))
      BY <2>1 DEF emit, TypeOK
    <3>3. sub[s].q \in Seq(StateEvent)
      BY DEF TypeOK
    <3> QED BY <1>0, <3>1, <3>2, <3>3, DeliverEnds
  <2> QED BY <2>1 DEF BuffersEndOnState, EndsOn
<1> QED BY <1>2, <1>3, <1>4, <1>5

LEMMA InTurnAfterSub ==
  ASSUME IInv, InTurn, NEW s \in Subs, SubStep(s)
  PROVE  InTurn'
<1> USE DEF IInv, InTurn
<1>0. UNCHANGED <<state, pend, run, activeConn, call, cancel>>
  BY DEF SubStep, Subscribe, SubscribeAdd, Unsubscribe, Receive, OnlySubChanges,
     NoTransition, runVars, callVars
<1>1. CallsInTurn' /\ OneRunInTurn' /\ LinkIsPublished'
  BY <1>0 DEF CallsInTurn, OneRunInTurn, LinkIsPublished, Ready
<1>2. sub[s].q \in Seq(StateEvent)
  BY DEF TypeOK
<1>3. /\ sub'[s].st = "adding" => sub'[s].q = <<>>
      /\ EndsOn(s, state) => EndsOn(s, state)'
  <2>1. CASE Subscribe(s)
    BY <2>1 DEF Subscribe, OnlySubChanges, FreeSub, TypeOK, EndsOn
  <2>2. CASE SubscribeAdd(s)
    BY <2>2 DEF SubscribeAdd, OnlySubChanges, TypeOK, EndsOn, EventsOnTheirWay
  <2>3. CASE Unsubscribe(s)
    BY <2>3 DEF Unsubscribe, OnlySubChanges, TypeOK, EndsOn
  <2>4. CASE Receive(s) /\ sub[s].q = <<>>
    BY <2>4 DEF Receive, OnlySubChanges, FreeSub, TypeOK, EndsOn
  <2>5. CASE Receive(s) /\ sub[s].q # <<>>
    <3>1. /\ sub' = [sub EXCEPT ![s] = [sub[s] EXCEPT !.q = Tail(sub[s].q)]]
          /\ sub[s].st \in {"open", "closed"}
      BY <2>5 DEF Receive, OnlySubChanges
    <3>2. Tail(sub[s].q) # <<>> =>
            Tail(sub[s].q)[Len(Tail(sub[s].q))] = sub[s].q[Len(sub[s].q)]
      BY <1>2, <2>5
    <3>3. /\ sub'[s].q = Tail(sub[s].q) /\ sub'[s].st = sub[s].st
          /\ sub'[s].current = sub[s].current
      BY <3>1 DEF TypeOK
    <3> QED BY <1>0, <2>5, <3>1, <3>2, <3>3 DEF EndsOn
  <2> QED BY <2>1, <2>2, <2>3, <2>4, <2>5 DEF SubStep
<1>4. \A t \in Subs \ {s} : sub'[t] = sub[t]
  BY DEF SubStep, Subscribe, SubscribeAdd, Unsubscribe, Receive, OnlySubChanges, TypeOK
<1>5. EventsOnTheirWay' /\ BuffersEndOnState'
  BY <1>0, <1>3, <1>4 DEF EventsOnTheirWay, BuffersEndOnState, EndsOn, Ready
<1> QED BY <1>1, <1>5

LEMMA TurnInitial == Init => TurnInv
BY PeerConnectionAssumption DEF Init, TurnInv, InTurn, CallsInTurn, OneRunInTurn,
   LinkIsPublished, EventsOnTheirWay, BuffersEndOnState, EndsOn, FreeSub, Ready, Actors

LEMMA TurnInductive == IInv /\ TurnInv /\ [Next]_vars => TurnInv'
<1> SUFFICES ASSUME IInv, TurnInv, [Next]_vars, ~overlap' PROVE InTurn'
  BY DEF TurnInv
<1>0. overlap' = overlap
  BY DEF Next, vars, RunStep, RunTop, DialFails, BackoffElapses, BackoffCancelled,
     AnnounceConnected, SeeDrop, SeeCancel, TearDown, AnnounceDrop, AnnounceStopped,
     RunExit, DialSucceeds, PeerDrops, Connect, Disconnect, CallStep, ConnectSpawn,
     CallCancel, WaitReturns, WaitBlocks, WaitPanics, Wait, CloseSubscribers,
     ReplaceSubscribers, emit, SubStep,
     Subscribe, SubscribeAdd, Unsubscribe, Receive, OnlySubChanges, RootCancel
<1>1. InTurn /\ ~overlap
  BY <1>0 DEF TurnInv
<1>2. ASSUME UNCHANGED <<state, activeConn, run, call, cancel, pend, sub>>
      PROVE  InTurn'
  BY <1>1, <1>2 DEF InTurn, CallsInTurn, OneRunInTurn, LinkIsPublished,
     EventsOnTheirWay, BuffersEndOnState, EndsOn, Ready
<1>3. ASSUME NEW r \in Runs, RunStep(r) \/ DialSucceeds(r) \/ PeerDrops(r)
      PROVE  InTurn'
  BY <1>1, <1>2, <1>3, InTurnAfterRun DEF PeerDrops, callVars, NoTransition
<1>4. ASSUME NEW c \in Callers, Connect(c) \/ Disconnect(c) \/ CallStep(c)
      PROVE  InTurn'
  BY <1>1, <1>4, InTurnAfterCall
<1>5. ASSUME NEW a \in Actors, emit(a) PROVE InTurn'
  BY <1>1, <1>5, InTurnAfterEmit
<1>6. ASSUME NEW s \in Subs, SubStep(s) PROVE InTurn'
  BY <1>1, <1>6, InTurnAfterSub
<1>7. CASE RootCancel \/ UNCHANGED vars
  BY <1>2, <1>7 DEF RootCancel, vars, runVars, NoTransition
<1> QED BY <1>3, <1>4, <1>5, <1>6, <1>7 DEF Next

LEMMA TurnInvariance == Spec => []TurnInv
BY Initial, Inductive, TurnInitial, TurnInductive, PTL DEF Spec

(* While calls do not overlap, a run that waits on its link is the one Conn()      *)
(* hands out, and the state says connected.                                        *)
THEOREM LiveLinkIsPublished == Spec => []LiveRunIsPublished
<1>1. TurnInv => LiveRunIsPublished
  BY DEF TurnInv, InTurn, LinkIsPublished, LiveRunIsPublished, Published
<1> QED BY <1>1, TurnInvariance, PTL

(* While calls do not overlap, a subscriber that reads its buffer to the end       *)
(* knows the present state, however many events it lost.                           *)
THEOREM SlowSubscriberEndsOnState == Spec => []NewestEventIsState
<1>1. TurnInv => NewestEventIsState
  BY DEF TurnInv, InTurn, BuffersEndOnState, EndsOn, NewestEventIsState
<1> QED BY <1>1, TurnInvariance, PTL
=============================================================================
