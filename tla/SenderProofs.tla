---------------------------- MODULE SenderProofs ----------------------------
(***********************************************************************************)
(* What TLAPS proves of Sender, for any number of Sends and links and any          *)
(* buffer: the three invariants of the correlator, and that the Sender             *)
(* keeps the promise of RequestReply.                                              *)
(***********************************************************************************)
EXTENDS Sender, TLAPS, SequenceTheorems

Before == {"idle", "checked", "correlate", "subscribe", "register"}

(* A live link is known while the peer is up.                                      *)
UpHasLink == peer = "up" => link \in LinkId

(* Nothing is registered before its time.                                          *)
Untouched ==
  \A q \in Sends : pc[q] \in Before =>
    q \notin pending /\ q \notin forwarding /\ chan[q] = "empty"

(* An entry in the map is waited for, and its channel is unused.                   *)
Fresh ==
  \A q \in pending :
    pc[q] \in {"write", "wait"} /\ chan[q] = "empty" /\ q \notin forwarding

(* From its registration on, a Send can be reached.                                *)
Reachable ==
  \A q \in Sends : pc[q] \in {"write", "wait"} =>
    q \in pending \/ q \in forwarding \/ chan[q] # "empty"

(* An answer on its way, or in the channel, is one the OCS gave.                   *)
Genuine ==
  /\ \A q \in forwarding : chan[q] = "empty" /\ q \in replied
  /\ \A q \in Sends : chan[q] = "answer" => q \in replied

(* What is written was written by a Send that got that far; a Send has no          *)
(* result before it is done.                                                       *)
Honest ==
  /\ \A q \in written : pc[q] \in {"wait", "done"}
  /\ \A q \in Sends : pc[q] # "done" => result[q] = "none"

SendInv == Untouched /\ Fresh /\ Reachable /\ Genuine /\ Honest

IInv == TypeOK /\ UpHasLink /\ SendInv

-----------------------------------------------------------------------------
(* The peer and the watch channel.                                                 *)

LEMMA EmitTyped ==
  ASSUME TypeOK, NEW b \in BOOLEAN, Emit(b)
  PROVE  /\ events' \in Seq(BOOLEAN) /\ Len(events') <= BufferSize
         /\ watch' = watch
<1>1. CASE watch # "live"
  BY <1>1 DEF Emit, TypeOK
<1>2. CASE watch = "live" /\ Len(events) < BufferSize
  BY <1>2, SenderAssumption DEF Emit, TypeOK
<1>3. CASE watch = "live" /\ ~(Len(events) < BufferSize)
  <2>1. events # <<>>
    BY <1>3, SenderAssumption DEF TypeOK
  <2>2. Tail(events) \in Seq(BOOLEAN) /\ Len(Tail(events)) = Len(events) - 1
    BY <2>1 DEF TypeOK
  <2> QED BY <1>3, <2>2, SenderAssumption DEF Emit, TypeOK
<1> QED BY <1>1, <1>2, <1>3

PeerMoves ==
  Connect \/ LinkUp \/ LinkDies \/ Disconnect \/ PeerProgress

LEMMA PeerTyped ==
  ASSUME IInv, PeerMoves
  PROVE  TypeOK' /\ UpHasLink'
<1> USE DEF IInv, TypeOK, UpHasLink, PeerState, PeerStep, NoEvent, corrVars, sendVars,
            watchVars
<1>1. CASE Connect
  <2>1. events' \in Seq(BOOLEAN) /\ Len(events') <= BufferSize /\ watch' = watch
    BY <1>1, EmitTyped DEF Connect
  <2> QED BY <1>1, <2>1 DEF Connect
<1>2. CASE LinkUp
  <2>1. events' \in Seq(BOOLEAN) /\ Len(events') <= BufferSize /\ watch' = watch
    BY <1>2, EmitTyped DEF LinkUp
  <2>2. links + 1 \in LinkId /\ links + 1 \in 0..MaxLinks
    BY <1>2, SenderAssumption DEF LinkUp, LinkId
  <2>3. open' \subseteq LinkId
    BY <1>2, <2>2 DEF LinkUp
  <2> QED BY <1>2, <2>1, <2>2, <2>3 DEF LinkUp
<1>3. CASE LinkDies
  BY <1>3 DEF LinkDies
<1>4. ASSUME NEW next \in {"lost", "leaving"}, TearDown(next)
      PROVE  TypeOK' /\ UpHasLink'
  <2>1. link \in LinkId /\ 0 \in 0..MaxLinks
    BY <1>4, SenderAssumption DEF TearDown
  <2> QED BY <1>4, <2>1 DEF TearDown
<1>5. CASE Disconnect
  <2>1. CASE TearDown("leaving") BY <1>4, <2>1
  <2>2. CASE ~TearDown("leaving")
    <3>1. events' \in Seq(BOOLEAN) /\ Len(events') <= BufferSize /\ watch' = watch
      BY <1>5, <2>2, EmitTyped DEF Disconnect
    <3> QED BY <1>5, <2>2, <3>1 DEF Disconnect
  <2> QED BY <2>1, <2>2
<1>6. CASE SeeDrop
  BY <1>4, <1>6 DEF SeeDrop
<1>7. CASE AnnounceDrop \/ AnnounceStopped
  BY <1>7 DEF AnnounceDrop, AnnounceStopped, Store
<1>8. CASE EmitDrop
  <2>1. events' \in Seq(BOOLEAN) /\ Len(events') <= BufferSize /\ watch' = watch
    BY <1>8, EmitTyped DEF EmitDrop
  <2> QED BY <1>8, <2>1 DEF EmitDrop
<1>9. CASE EmitStopped
  <2>1. events' \in Seq(BOOLEAN) /\ Len(events') <= BufferSize /\ watch' = watch
    BY <1>9, EmitTyped DEF EmitStopped
  <2> QED BY <1>9, <2>1 DEF EmitStopped
<1>10. CASE CloseSubscribers \/ ReplaceSubscribers
  BY <1>10 DEF CloseSubscribers, ReplaceSubscribers, WatchState
<1> QED
  BY <1>1, <1>2, <1>3, <1>5, <1>6, <1>7, <1>8, <1>9, <1>10 DEF PeerMoves, PeerProgress

LEMMA PeerFrame ==
  ASSUME PeerMoves
  PROVE  UNCHANGED <<corrVars, sendVars, replied>>
BY DEF PeerMoves, PeerProgress, Connect, LinkUp, LinkDies, Disconnect, SeeDrop,
       TearDown, AnnounceDrop, AnnounceStopped, Store, EmitDrop, EmitStopped,
       CloseSubscribers, ReplaceSubscribers, PeerStep

LEMMA PeerPreserves ==
  ASSUME IInv, PeerMoves
  PROVE  IInv'
<1>1. SendInv'
  BY PeerFrame DEF IInv, SendInv, Untouched, Fresh, Reachable, Genuine, Honest,
     corrVars, sendVars
<1> QED BY <1>1, PeerTyped DEF IInv

-----------------------------------------------------------------------------
(* The watcher.                                                                    *)

LEMMA WatchPreserves ==
  ASSUME IInv, Watch
  PROVE  IInv'
<1> USE DEF IInv, peerVars, sendVars, corrVars
<1>1. UNCHANGED <<peerVars, sendVars, replied>>
  BY DEF Watch, WatchEvent, WatchExit
<1>2. closeAll \/ UNCHANGED corrVars
  BY DEF Watch, WatchEvent, WatchExit
<1>3. TypeOK'
  <2>1. /\ events' \in Seq(BOOLEAN) /\ Len(events') <= BufferSize
        /\ watch' \in WatchState
    <3>1. CASE WatchEvent
      <4>1. events # <<>> /\ events' = Tail(events) /\ watch' = watch
        BY <3>1 DEF WatchEvent
      <4>2. Tail(events) \in Seq(BOOLEAN) /\ Len(Tail(events)) = Len(events) - 1
            /\ Len(events) \in Nat
        BY <4>1 DEF TypeOK
      <4> QED BY <4>1, <4>2, SenderAssumption DEF TypeOK
    <3>2. CASE WatchExit
      BY <3>2 DEF WatchExit, TypeOK, WatchState
    <3> QED BY <3>1, <3>2 DEF Watch
  <2>2. /\ pending' \subseteq Sends /\ forwarding' \subseteq Sends
        /\ chan' \in [Sends -> {"empty", "answer", "closed"}]
    BY <1>2 DEF closeAll, TypeOK
  <2> QED BY <1>1, <2>1, <2>2 DEF TypeOK
<1>4. UpHasLink'
  BY <1>1 DEF UpHasLink
<1>5. SendInv'
  <2>1. CASE UNCHANGED corrVars
    BY <1>1, <2>1 DEF SendInv, Untouched, Fresh, Reachable, Genuine, Honest
  <2>2. CASE closeAll
    <3>1. \A q \in Sends : chan'[q] = IF q \in pending THEN "closed" ELSE chan[q]
      BY <2>2 DEF closeAll
    <3>2. pending' = {} /\ forwarding' = forwarding
      BY <2>2 DEF closeAll
    <3> QED
      BY <1>1, <3>1, <3>2
         DEF TypeOK, SendInv, Untouched, Fresh, Reachable, Genuine, Honest
  <2> QED BY <1>2, <2>1, <2>2
<1> QED BY <1>3, <1>4, <1>5

-----------------------------------------------------------------------------
(* A Send, the OCS and the CCA handler.                                            *)

(* The parts of SendInv that speak of one Send.                                    *)
SendInvOf(q) ==
  /\ pc[q] \in Before => q \notin pending /\ q \notin forwarding /\ chan[q] = "empty"
  /\ q \in pending =>
       pc[q] \in {"write", "wait"} /\ chan[q] = "empty" /\ q \notin forwarding
  /\ pc[q] \in {"write", "wait"} =>
       q \in pending \/ q \in forwarding \/ chan[q] # "empty"
  /\ q \in forwarding => chan[q] = "empty" /\ q \in replied
  /\ chan[q] = "answer" => q \in replied
  /\ q \in written => pc[q] \in {"wait", "done"}
  /\ pc[q] # "done" => result[q] = "none"

LEMMA OneByOne ==
  ASSUME TypeOK
  PROVE  SendInv <=> \A q \in Sends : SendInvOf(q)
BY DEF TypeOK, SendInv, Untouched, Fresh, Reachable, Genuine, Honest, SendInvOf

LEMMA OneByOneNext ==
  ASSUME TypeOK'
  PROVE  SendInv' <=> \A q \in Sends : SendInvOf(q)'
BY DEF TypeOK, SendInv, Untouched, Fresh, Reachable, Genuine, Honest, SendInvOf

(* A Send moves nothing of another.                                                *)
LEMMA SendFrame ==
  ASSUME TypeOK, NEW q \in Sends, NEW p \in Sends, p # q,
         CheckState(q) \/ SendProgress(q) \/ CtxDone(q)
  PROVE  /\ pc'[p] = pc[p] /\ chan'[p] = chan[p] /\ result'[p] = result[p]
         /\ p \in pending' <=> p \in pending
         /\ p \in forwarding' <=> p \in forwarding
         /\ p \in written' <=> p \in written
         /\ replied' = replied
BY DEF TypeOK, CheckState, SendProgress, TakeConn, correlatorFor, Subscribe, register,
       Write, ReceiveResponse, CtxDone, Goto, Return, deregister, corrVars

LEMMA SendTyped ==
  ASSUME TypeOK, NEW q \in Sends,
         CheckState(q) \/ SendProgress(q) \/ CtxDone(q)
  PROVE  TypeOK'
<1> USE DEF Goto, Return, deregister, peerVars, watchVars, corrVars, SendState, Result
<1>1. CASE CheckState(q) BY <1>1 DEF CheckState, TypeOK
<1>2. CASE TakeConn(q)
  <2>1. at' \in [Sends -> 0..MaxLinks]
    BY <1>2 DEF TakeConn, TypeOK
  <2>2. pc' \in [Sends -> SendState] /\ result' \in [Sends -> Result]
    BY <1>2 DEF TakeConn, TypeOK
  <2> QED BY <1>2, <2>1, <2>2 DEF TakeConn, TypeOK
<1>3. CASE correlatorFor(q) \/ Subscribe(q)
  BY <1>3 DEF correlatorFor, Subscribe, TypeOK, WatchState
<1>4. CASE register(q) BY <1>4 DEF register, TypeOK
<1>5. CASE Write(q)
  <2>1. pc' \in [Sends -> SendState] /\ result' \in [Sends -> Result]
    BY <1>5 DEF Write, TypeOK
  <2>2. /\ pending' \subseteq Sends /\ written' \subseteq Sends
        /\ chan' = chan /\ forwarding' = forwarding
    BY <1>5 DEF Write, TypeOK
  <2> QED BY <1>5, <2>1, <2>2 DEF Write, TypeOK
<1>6. CASE ReceiveResponse(q) BY <1>6 DEF ReceiveResponse, TypeOK
<1>7. CASE CtxDone(q)
  <2>1. pc' \in [Sends -> SendState] /\ result' \in [Sends -> Result]
    BY <1>7 DEF CtxDone, TypeOK
  <2> QED BY <1>7, <2>1 DEF CtxDone, TypeOK
<1> QED BY <1>1, <1>2, <1>3, <1>4, <1>5, <1>6, <1>7 DEF SendProgress

LEMMA SendPreserves ==
  ASSUME IInv, NEW q \in Sends,
         CheckState(q) \/ SendProgress(q) \/ CtxDone(q)
  PROVE  IInv'
<1>1. TypeOK'
  BY SendTyped DEF IInv
<1>2. UpHasLink'
  BY DEF IInv, UpHasLink, CheckState, SendProgress, TakeConn, correlatorFor, Subscribe,
     register, Write, ReceiveResponse, CtxDone, peerVars
<1>3. ASSUME NEW p \in Sends PROVE SendInvOf(p)'
  <2>1. TypeOK /\ SendInvOf(p) /\ SendInvOf(q)
    BY OneByOne DEF IInv
  <2>2. CASE p # q
    BY <2>1, <2>2, SendFrame DEF SendInvOf
  <2>3. CASE p = q
    <3> USE DEF SendInvOf, Goto, Return, deregister, corrVars, Before
    <3>1. CASE CheckState(q) BY <2>1, <2>3, <3>1 DEF CheckState, TypeOK
    <3>2. CASE TakeConn(q) BY <2>1, <2>3, <3>2 DEF TakeConn, TypeOK
    <3>3. CASE correlatorFor(q) \/ Subscribe(q)
      BY <2>1, <2>3, <3>3 DEF correlatorFor, Subscribe, TypeOK
    <3>4. CASE register(q) BY <2>1, <2>3, <3>4 DEF register, TypeOK
    <3>5. CASE Write(q) BY <2>1, <2>3, <3>5 DEF Write, TypeOK
    <3>6. CASE ReceiveResponse(q) BY <2>1, <2>3, <3>6 DEF ReceiveResponse, TypeOK
    <3>7. CASE CtxDone(q) BY <2>1, <2>3, <3>7 DEF CtxDone, TypeOK
    <3> QED BY <3>1, <3>2, <3>3, <3>4, <3>5, <3>6, <3>7 DEF SendProgress
  <2> QED BY <2>2, <2>3
<1> QED BY <1>1, <1>2, <1>3, OneByOneNext DEF IInv

LEMMA ReplyPreserves ==
  ASSUME IInv, NEW q \in Sends, Reply(q) \/ dispatch(q) \/ Forward(q)
  PROVE  IInv'
<1> USE DEF IInv, peerVars, watchVars, corrVars, sendVars, SendInv,
            Untouched, Fresh, Reachable, Genuine, Honest, UpHasLink, Before
<1>1. CASE Reply(q)
  BY <1>1 DEF Reply, TypeOK
<1>2. CASE dispatch(q)
  BY <1>2 DEF dispatch, TypeOK
<1>3. CASE Forward(q)
  BY <1>3 DEF Forward, TypeOK
<1> QED BY <1>1, <1>2, <1>3

-----------------------------------------------------------------------------
LEMMA Initial == Init => IInv
<1> SUFFICES ASSUME Init PROVE IInv
  OBVIOUS
<1>1. <<>> \in Seq(BOOLEAN) /\ Len(<<>>) = 0
  OBVIOUS
<1>2. TypeOK
  BY <1>1, SenderAssumption DEF Init, TypeOK, PeerState, SendState, WatchState, Result
<1>3. UpHasLink /\ SendInv
  BY DEF Init, UpHasLink, SendInv, Untouched, Fresh, Reachable, Genuine, Honest, Before
<1> QED BY <1>2, <1>3 DEF IInv

LEMMA Inductive == IInv /\ [Next]_vars => IInv'
<1> SUFFICES ASSUME IInv, [Next]_vars PROVE IInv'
  OBVIOUS
<1>1. CASE PeerMoves
  BY <1>1, PeerPreserves
<1>2. CASE Watch
  BY <1>2, WatchPreserves
<1>3. ASSUME NEW q \in Sends,
             \/ CheckState(q) \/ SendProgress(q) \/ CtxDone(q)
             \/ Reply(q) \/ dispatch(q) \/ Forward(q)
      PROVE  IInv'
  BY <1>3, SendPreserves, ReplyPreserves
<1>4. CASE UNCHANGED vars
  BY <1>4 DEF vars, IInv, TypeOK, UpHasLink, SendInv, Untouched, Fresh, Reachable,
     Genuine, Honest
<1> QED BY <1>1, <1>2, <1>3, <1>4 DEF Next, PeerMoves

LEMMA Invariance == Spec => []IInv
BY Initial, Inductive, PTL DEF Spec

(* The types, and with them the bound on the watch channel.                        *)
THEOREM SenderTypes == Spec => []TypeOK
BY Invariance, PTL DEF IInv

(* No entry of the pending map outlives the Send that registered it.               *)
THEOREM EntriesAreRemoved == Spec => []NoStaleEntry
<1>1. IInv => NoStaleEntry
  BY DEF IInv, SendInv, Fresh, NoStaleEntry
<1> QED BY <1>1, Invariance, PTL

(* A waiting Send can always be reached, by an answer or by a drop.                *)
THEOREM WaitersAreReachable == Spec => []WaiterIsReachable
<1>1. IInv => WaiterIsReachable
  BY DEF IInv, SendInv, Reachable, WaiterIsReachable
<1> QED BY <1>1, Invariance, PTL

(* The handler's send outside the lock never meets a closed channel.               *)
THEOREM HandlerNeverPanics == Spec => []NoSendOnClosedChannel
<1>1. IInv => NoSendOnClosedChannel
  BY DEF IInv, SendInv, Fresh, Genuine, NoSendOnClosedChannel
<1> QED BY <1>1, Invariance, PTL

-----------------------------------------------------------------------------
(* The promise: what the variables of RequestReply are in Sender.                  *)

Outcome == [q \in Sends |->
              IF result[q] \in {"none", "answer"} THEN result[q] ELSE "failed"]

LEMMA Returns ==
  ASSUME TypeOK, NEW q \in Sends, NEW r \in Result, result' = [result EXCEPT ![q] = r]
  PROVE  Outcome' = [Outcome EXCEPT ![q] = IF r \in {"none", "answer"} THEN r
                                           ELSE "failed"]
BY DEF TypeOK, Outcome

LEMMA SendKeepsPromise ==
  ASSUME IInv, NEW q \in Sends,
         CheckState(q) \/ SendProgress(q) \/ CtxDone(q)
  PROVE  [Promise!Next]_(Promise!vars)
<1> DEFINE Quiet == UNCHANGED <<written, replied, result>>
<1>1. TypeOK /\ SendInvOf(q)
  BY OneByOne DEF IInv
<1>2. ASSUME Quiet PROVE UNCHANGED Promise!vars
  BY <1>2 DEF Promise!vars
<1>3. ASSUME NEW r \in Result \ {"none", "answer"},
             result' = [result EXCEPT ![q] = r], UNCHANGED <<written, replied>>,
             pc[q] # "done"
      PROVE  Promise!Next
  <2>1. Outcome' = [Outcome EXCEPT ![q] = "failed"]
    BY <1>1, <1>3, Returns DEF Result
  <2>2. Outcome[q] = "none"
    BY <1>1, <1>3 DEF SendInvOf, Outcome
  <2>3. Promise!Fail(q)
    BY <1>3, <2>1, <2>2 DEF Promise!Fail, Outcome
  <2> QED BY <2>3 DEF Promise!Next
<1>4. CASE CheckState(q)
  BY <1>2, <1>3, <1>4 DEF CheckState, Goto, Return, Result
<1>5. CASE TakeConn(q)
  BY <1>2, <1>3, <1>5 DEF TakeConn, Goto, Return, Result
<1>6. CASE correlatorFor(q) \/ Subscribe(q) \/ register(q)
  BY <1>2, <1>3, <1>6 DEF correlatorFor, Subscribe, register, Return, Result
<1>7. CASE Write(q)
  <2>1. CASE written' = written \cup {q} /\ UNCHANGED <<result, replied>>
    <3>1. Outcome[q] = "none" /\ Outcome' = Outcome /\ q \notin written
      BY <1>1, <1>7, <2>1 DEF Write, SendInvOf, Outcome
    <3>2. Promise!Write(q)
      BY <2>1, <3>1 DEF Promise!Write, Outcome
    <3> QED BY <3>2 DEF Promise!Next
  <2>2. CASE /\ result' = [result EXCEPT ![q] = "writeFailed"]
             /\ UNCHANGED <<written, replied>>
    BY <1>3, <1>7, <2>2 DEF Write, Result
  <2> QED BY <1>7, <2>1, <2>2 DEF Write, Return
<1>8. CASE ReceiveResponse(q)
  <2>1. CASE result' = [result EXCEPT ![q] = "closed"]
    BY <1>3, <1>8, <2>1 DEF ReceiveResponse, Result
  <2>2. CASE result' = [result EXCEPT ![q] = "undecodable"]
    BY <1>3, <1>8, <2>2 DEF ReceiveResponse, Result
  <2>3. CASE chan[q] = "answer" /\ result' = [result EXCEPT ![q] = "answer"]
    <3>1. Outcome' = [Outcome EXCEPT ![q] = "answer"]
      BY <1>1, <2>3, Returns DEF Result
    <3>2. Outcome[q] = "none" /\ q \in replied
      BY <1>1, <1>8, <2>3 DEF ReceiveResponse, SendInvOf, Outcome
    <3>3. Promise!Answer(q)
      BY <1>8, <3>1, <3>2 DEF Promise!Answer, Outcome, ReceiveResponse
    <3> QED BY <3>3 DEF Promise!Next
  <2>4. chan[q] \in {"empty", "answer", "closed"}
    BY <1>1 DEF TypeOK
  <2> QED BY <1>8, <2>1, <2>2, <2>3, <2>4 DEF ReceiveResponse, Return
<1>9. CASE CtxDone(q)
  BY <1>3, <1>9 DEF CtxDone, Return, Result
<1> QED BY <1>4, <1>5, <1>6, <1>7, <1>8, <1>9 DEF SendProgress

LEMMA StepKeepsPromise ==
  IInv /\ [Next]_vars => [Promise!Next]_(Promise!vars)
<1> SUFFICES ASSUME IInv, [Next]_vars PROVE [Promise!Next]_(Promise!vars)
  OBVIOUS
<1>1. ASSUME UNCHANGED <<written, replied, result>> PROVE UNCHANGED Promise!vars
  BY <1>1 DEF Promise!vars
<1>2. CASE PeerMoves
  BY <1>1, <1>2, PeerFrame DEF sendVars
<1>3. CASE Watch
  BY <1>1, <1>3 DEF Watch, WatchEvent, WatchExit, sendVars
<1>4. ASSUME NEW q \in Sends, CheckState(q) \/ SendProgress(q) \/ CtxDone(q)
      PROVE  [Promise!Next]_(Promise!vars)
  BY <1>4, SendKeepsPromise
<1>5. ASSUME NEW q \in Sends, Reply(q)
      PROVE  Promise!Next
  <2>1. Promise!Reply(q)
    BY <1>5 DEF Reply, Promise!Reply, sendVars
  <2> QED BY <2>1 DEF Promise!Next
<1>6. ASSUME NEW q \in Sends, dispatch(q) \/ Forward(q)
      PROVE  UNCHANGED Promise!vars
  BY <1>1, <1>6 DEF dispatch, Forward, sendVars
<1>7. CASE UNCHANGED vars
  BY <1>1, <1>7 DEF vars
<1> QED BY <1>2, <1>3, <1>4, <1>5, <1>6, <1>7 DEF Next, PeerMoves

(* The Sender implements RequestReply: every Send ends at most once, and           *)
(* returns an answer only if the OCS gave it to that request.                      *)
THEOREM SenderKeepsPromise == Spec => ImplementsRequestReply
<1>1. Init => Promise!Init
  BY DEF Init, Promise!Init
<1> QED
  BY <1>1, Invariance, StepKeepsPromise, PTL
     DEF Spec, ImplementsRequestReply, Promise!Spec
=============================================================================
