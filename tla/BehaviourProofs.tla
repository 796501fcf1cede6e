--------------------------- MODULE BehaviourProofs ---------------------------
(***********************************************************************************)
(* What TLAPS proves of Behaviour, for any number of engine goroutines and         *)
(* timers and any bound on the numbers: the three action properties of the         *)
(* run, which TLC checks on a small instance.                                      *)
(***********************************************************************************)
EXTENDS Behaviour, TLAPS, SequenceTheorems

(* state.ccRequestNumber is at least every number given or seen.                   *)
NumbersCounted ==
  /\ \A m \in seen : m <= ccrn
  /\ \A i \in DOMAIN handed : handed[i] <= ccrn

(* An automatic request belongs to a tracked session, and Stop terminates          *)
(* those: a re-auth on its way to Send when Stop is called is refused.             *)
StopReachesReAuths ==
  \A n \in 1..MaxNumber : auto[n] = "entered" => tracked /\ (stopped => terminated)

IInv == TypeOK /\ NumbersCounted /\ StopReachesReAuths

-----------------------------------------------------------------------------
LEMMA Elements ==
  ASSUME TypeOK
  PROVE  /\ DOMAIN handed = 1..Len(handed) /\ Len(handed) \in Nat
         /\ \A i \in DOMAIN handed : handed[i] \in Nat
         /\ \A m \in seen : m \in Nat
         /\ ccrn \in Nat
<1>1. handed \in Seq(1..MaxNumber) /\ seen \subseteq Number /\ ccrn \in Number
  BY DEF TypeOK
<1>2. DOMAIN handed = 1..Len(handed) /\ Len(handed) \in Nat
  BY <1>1
<1>3. \A i \in 1..Len(handed) : handed[i] \in 1..MaxNumber
  BY <1>1, ElementOfSeq
<1> QED BY <1>1, <1>2, <1>3, BehaviourAssumption DEF Number

LEMMA StillCounted ==
  ASSUME TypeOK, NumbersCounted, ccrn' \in Nat, ccrn' >= ccrn, handed' = handed,
         \A m \in seen' : m \in seen \/ m <= ccrn'
  PROVE  NumbersCounted'
<1>1. \A i \in DOMAIN handed : handed[i] \in Nat /\ handed[i] <= ccrn
  BY Elements DEF NumbersCounted
<1>2. \A m \in seen : m \in Nat /\ m <= ccrn
  BY Elements DEF NumbersCounted
<1>3. ccrn \in Nat
  BY Elements
<1>4. \A i \in DOMAIN handed' : handed'[i] <= ccrn'
  BY <1>1, <1>3
<1> QED BY <1>2, <1>3, <1>4 DEF NumbersCounted

(* Handing out the next number.                                                    *)
LEMMA HandsOutNext ==
  ASSUME TypeOK, NumbersCounted, ccrn' \in Nat, ccrn' > ccrn,
         NEW fn \in [1..MaxNumber -> AutoState], NEW at \in {"entered", "terminate"},
         HandsOut(ccrn', fn, at)
  PROVE  /\ ccrn' \in Number
         /\ auto' \in [1..MaxNumber -> AutoState] /\ handed' \in Seq(1..MaxNumber)
         /\ \A i \in DOMAIN handed' : handed'[i] <= ccrn'
         /\ handed' # handed => handed' = Append(handed, ccrn')
         /\ \A n \in 1..MaxNumber : auto'[n] \in {fn[n], at, "done"}
<1>1. ccrn' \in 1..MaxNumber /\ ccrn' \in Number /\ ccrn \in Nat
  BY BehaviourAssumption DEF HandsOut, TypeOK, Number
<1>2. CASE builders
  <2>1. handed' = Append(handed, ccrn')
    BY <1>2 DEF HandsOut
  <2>2. PICK s \in {at, "done"} : auto' = [fn EXCEPT ![ccrn'] = s]
    BY <1>2 DEF HandsOut
  <2>3. handed' \in Seq(1..MaxNumber)
    BY <1>1, <2>1 DEF TypeOK
  <2>4. \A i \in DOMAIN handed' : handed'[i] <= ccrn'
    <3> SUFFICES ASSUME NEW i \in DOMAIN handed' PROVE handed'[i] <= ccrn'
      OBVIOUS
    <3>1. i \in 1..(Len(handed) + 1)
      BY <1>1, <2>1, Elements DEF TypeOK
    <3>2. CASE i \in DOMAIN handed
      <4>1. handed'[i] = handed[i] /\ handed[i] \in Nat /\ handed[i] <= ccrn
        BY <2>1, <3>2, Elements DEF NumbersCounted, TypeOK
      <4> QED BY <1>1, <4>1
    <3>3. CASE i \notin DOMAIN handed
      <4>1. i = Len(handed) + 1
        BY <3>1, <3>3, Elements
      <4>2. handed'[i] = ccrn'
        BY <1>1, <2>1, <4>1, Elements DEF TypeOK
      <4> QED BY <1>1, <4>2
    <3> QED BY <3>2, <3>3
  <2> QED BY <1>1, <2>1, <2>2, <2>3, <2>4 DEF AutoState, TypeOK
<1>3. CASE ~builders
  BY <1>1, <1>3 DEF HandsOut, TypeOK, NumbersCounted
<1> QED BY <1>2, <1>3

(* What observeCCA may do, whoever calls it.                                       *)
LEMMA ObserveStep ==
  ASSUME IInv, NEW num \in Number, NEW fn \in [1..MaxNumber -> AutoState],
         \A n \in 1..MaxNumber : fn[n] \in {auto[n], "done"},
         observeCCA(num, fn)
  PROVE  /\ tracked' = TRUE /\ terminated' \in BOOLEAN /\ (terminated => terminated')
         /\ UNCHANGED <<builders, stopped, firing>>
         /\ ccrn' \in Number /\ ccrn' >= ccrn
         /\ timer' \in Timers \cup {None} /\ armed' \subseteq Timers
         /\ armed' \cap firing = {}
         /\ auto' \in [1..MaxNumber -> AutoState] /\ handed' \in Seq(1..MaxNumber)
         /\ seen' = seen \cup {num}
         /\ NumbersCounted'
         /\ handed' # handed => handed' = Append(handed, ccrn') /\ ccrn' > ccrn
         /\ \A n \in 1..MaxNumber : auto'[n] \in {auto[n], "terminate", "done"}
<1> USE DEF IInv
<1>1. /\ LastNumber(num) \in Number /\ LastNumber(num) >= ccrn
      /\ LastNumber(num) >= num /\ ccrn \in Nat /\ num \in Nat
  BY BehaviourAssumption DEF TypeOK, LastNumber, Number
<1>2. seen' = seen \cup {num} /\ tracked' = TRUE /\ UNCHANGED <<builders, stopped, firing>>
  BY DEF observeCCA
<1>3. CASE Failure(num, fn) \/ Plain(num, fn)
  <2>1. /\ terminated' \in {TRUE, terminated} /\ ccrn' = LastNumber(num) /\ auto' = fn
        /\ handed' = handed /\ timer' \in {timer, None} /\ armed' \subseteq armed
    BY <1>3 DEF Failure, Plain, cancelTimer
  <2>2. NumbersCounted'
    BY <1>1, <1>2, <2>1, StillCounted DEF Number
  <2>3. armed' \cap firing = {} /\ armed' \subseteq Timers
    BY <2>1 DEF TypeOK
  <2>4. \A n \in 1..MaxNumber : auto'[n] \in {auto[n], "terminate", "done"}
    BY <2>1
  <2>5. terminated' \in BOOLEAN /\ (terminated => terminated')
    <3>1. terminated' = TRUE \/ terminated' = terminated
      BY <2>1
    <3>2. terminated \in BOOLEAN
      BY DEF TypeOK
    <3>3. CASE terminated' = TRUE
      BY <3>3
    <3>4. CASE terminated' = terminated
      BY <3>2, <3>4
    <3> QED BY <3>1, <3>3, <3>4, Zenon
  <2>6. handed' \in Seq(1..MaxNumber) /\ timer' \in Timers \cup {None}
    BY <2>1 DEF TypeOK
  <2> QED BY <1>1, <1>2, <2>1, <2>2, <2>3, <2>4, <2>5, <2>6
<1>4. CASE ValidityTime(num, fn)
  <2>1. PICK t \in Timers \ (armed \cup firing) :
          timer' = t /\ armed' = (armed \ {timer}) \cup {t}
    BY <1>4 DEF ValidityTime
  <2>2. terminated' = terminated /\ ccrn' = LastNumber(num) /\ auto' = fn /\ handed' = handed
    BY <1>4 DEF ValidityTime
  <2>3. NumbersCounted'
    BY <1>1, <1>2, <2>2, StillCounted DEF Number
  <2> QED BY <1>1, <1>2, <2>1, <2>2, <2>3 DEF TypeOK
<1>5. CASE FinalUnit(num, fn)
  <2>1. /\ terminated' = TRUE /\ timer' = None /\ armed' = armed \ {timer}
        /\ ccrn' = LastNumber(num) + 1 /\ HandsOut(ccrn', fn, "terminate")
    BY <1>5 DEF FinalUnit, cancelTimer
  <2>2. ccrn' \in Nat /\ ccrn' > ccrn /\ ccrn' > num
    BY <1>1, <2>1 DEF Number
  <2>3. /\ ccrn' \in Number
        /\ auto' \in [1..MaxNumber -> AutoState] /\ handed' \in Seq(1..MaxNumber)
        /\ \A i \in DOMAIN handed' : handed'[i] <= ccrn'
        /\ handed' # handed => handed' = Append(handed, ccrn')
        /\ \A n \in 1..MaxNumber : auto'[n] \in {fn[n], "terminate", "done"}
    BY <2>1, <2>2, HandsOutNext
  <2>4. NumbersCounted'
    BY <1>1, <1>2, <2>2, <2>3 DEF NumbersCounted, TypeOK, Number
  <2> QED BY <1>1, <1>2, <2>1, <2>2, <2>3, <2>4 DEF TypeOK
<1> QED BY <1>3, <1>4, <1>5 DEF observeCCA

(* The same of the timer's callback.                                               *)
LEMMA FireStep ==
  ASSUME IInv, NEW t \in Timers, fireReAuth(t), tracked, ~terminated, ~stopped
  PROVE  /\ ccrn' \in Number /\ ccrn' > ccrn /\ timer' = None
         /\ auto' \in [1..MaxNumber -> AutoState] /\ handed' \in Seq(1..MaxNumber)
         /\ NumbersCounted'
         /\ handed' # handed => handed' = Append(handed, ccrn')
         /\ \A n \in 1..MaxNumber : auto'[n] \in {auto[n], "entered", "done"}
<1> USE DEF IInv
<1>1. ccrn' = ccrn + 1 /\ timer' = None /\ HandsOut(ccrn', auto, "entered") /\ seen' = seen
  BY DEF fireReAuth
<1>2. ccrn \in Nat /\ ccrn' \in Nat /\ ccrn' > ccrn
  BY <1>1 DEF TypeOK, Number
<1>3. auto \in [1..MaxNumber -> AutoState]
  BY DEF TypeOK
<1>4. /\ ccrn' \in Number
      /\ auto' \in [1..MaxNumber -> AutoState] /\ handed' \in Seq(1..MaxNumber)
      /\ \A i \in DOMAIN handed' : handed'[i] <= ccrn'
      /\ handed' # handed => handed' = Append(handed, ccrn')
      /\ \A n \in 1..MaxNumber : auto'[n] \in {auto[n], "entered", "done"}
  BY <1>1, <1>2, <1>3, HandsOutNext
<1>5. NumbersCounted'
  BY <1>1, <1>2, <1>4 DEF NumbersCounted, TypeOK, Number
<1> QED BY <1>1, <1>2, <1>4, <1>5

-----------------------------------------------------------------------------
(* Every step, action by action: the invariant is kept, a number given is          *)
(* new, a terminated session stays so, and no re-auth is sent once over.           *)

NewNumber == handed' # handed => handed' = Append(handed, ccrn') /\ ccrn' > ccrn

StaysOver ==
  /\ terminated => terminated'
  /\ terminated \/ stopped =>
       \A n \in 1..MaxNumber : auto'[n] = "sent" => auto[n] = "sent"

LEMMA EngineKeeps ==
  ASSUME IInv, NEW c \in Callers, EngineSends(c) \/ Guard(c) \/ InnerReturns(c)
  PROVE  IInv' /\ NewNumber /\ StaysOver
<1> USE DEF IInv, Goes, sessionVars, timerVars
<1>1. /\ UNCHANGED <<builders, stopped, tracked, terminated, ccrn, seen, timer, armed,
                     firing, next, auto, handed>>
  BY DEF EngineSends, Guard, InnerReturns
<1>2. send' \in [Callers -> [at : SendState, final : BOOLEAN, num : Number]]
  <2>1. CASE EngineSends(c)
    <3>1. next \in Number
      BY <2>1 DEF EngineSends, TypeOK, Number
    <3> QED BY <2>1, <3>1 DEF EngineSends, TypeOK, SendState
  <2>2. CASE Guard(c) BY <2>2 DEF Guard, TypeOK, SendState
  <2>3. CASE InnerReturns(c) BY <2>3 DEF InnerReturns, TypeOK, SendState
  <2> QED BY <2>1, <2>2, <2>3
<1>3. TypeOK' BY <1>1, <1>2 DEF TypeOK
<1> QED BY <1>1, <1>3 DEF NumbersCounted, StopReachesReAuths, NewNumber, StaysOver

LEMMA AutoKeeps ==
  ASSUME IInv, NEW n \in 1..MaxNumber, AutoGuard(n) \/ AutoInnerReturns(n)
  PROVE  IInv' /\ NewNumber /\ StaysOver
<1> USE DEF IInv, AutoGoes, sessionVars, timerVars
<1>1. UNCHANGED <<builders, stopped, tracked, terminated, ccrn, seen, timer, armed,
                  firing, next, send, handed>>
  BY DEF AutoGuard, AutoInnerReturns
<1>2. PICK s \in {"sent", "answered", "done"} : auto' = [auto EXCEPT ![n] = s]
  BY DEF AutoGuard, AutoInnerReturns
<1>3. TypeOK'
  BY <1>1, <1>2 DEF TypeOK, AutoState
<1>4. \A m \in 1..MaxNumber : auto'[m] = "entered" => auto[m] = "entered"
  BY <1>2 DEF TypeOK
<1>5. StaysOver
  <2>1. CASE AutoGuard(n)
    <3>1. auto[n] = "entered" /\ (terminated => s # "sent")
      BY <1>2, <2>1 DEF AutoGuard, Passes, TypeOK
    <3> QED BY <1>1, <1>2, <3>1 DEF StaysOver, StopReachesReAuths, TypeOK
  <2>2. CASE AutoInnerReturns(n)
    <3>1. s # "sent"
      BY <1>2, <2>2 DEF AutoInnerReturns, TypeOK
    <3> QED BY <1>1, <1>2, <3>1 DEF StaysOver, TypeOK
  <2> QED BY <2>1, <2>2
<1> QED BY <1>1, <1>3, <1>4, <1>5 DEF NumbersCounted, StopReachesReAuths, NewNumber

LEMMA ObserveKeeps ==
  ASSUME IInv, NEW num \in Number, NEW fn \in [1..MaxNumber -> AutoState],
         \A n \in 1..MaxNumber : fn[n] \in {auto[n], "done"},
         observeCCA(num, fn), next' \in Nat,
         send' \in [Callers -> [at : SendState, final : BOOLEAN, num : Number]]
  PROVE  IInv' /\ NewNumber /\ StaysOver
<1>1. /\ tracked' = TRUE /\ terminated' \in BOOLEAN /\ (terminated => terminated')
      /\ UNCHANGED <<builders, stopped, firing>>
      /\ ccrn' \in Number /\ ccrn' >= ccrn
      /\ timer' \in Timers \cup {None} /\ armed' \subseteq Timers
      /\ armed' \cap firing = {}
      /\ auto' \in [1..MaxNumber -> AutoState] /\ handed' \in Seq(1..MaxNumber)
      /\ seen' = seen \cup {num}
      /\ NumbersCounted'
      /\ handed' # handed => handed' = Append(handed, ccrn') /\ ccrn' > ccrn
      /\ \A n \in 1..MaxNumber : auto'[n] \in {auto[n], "terminate", "done"}
  BY ObserveStep
<1>2. TypeOK'
  BY <1>1 DEF IInv, TypeOK
<1> QED BY <1>1, <1>2 DEF IInv, StopReachesReAuths, NewNumber, StaysOver

LEMMA StepKeeps ==
  ASSUME IInv, [Next]_vars
  PROVE  IInv' /\ NewNumber /\ StaysOver
<1> USE DEF IInv
<1>1. ASSUME NEW c \in Callers, EngineSends(c) \/ Guard(c) \/ InnerReturns(c)
      PROVE  IInv' /\ NewNumber /\ StaysOver
  BY <1>1, EngineKeeps
<1>2. ASSUME NEW n \in 1..MaxNumber, AutoGuard(n) \/ AutoInnerReturns(n)
      PROVE  IInv' /\ NewNumber /\ StaysOver
  BY <1>2, AutoKeeps
<1>3. ASSUME NEW c \in Callers, Observe(c)
      PROVE  IInv' /\ NewNumber /\ StaysOver
  <2>1. send[c].num \in Number /\ auto \in [1..MaxNumber -> AutoState] /\ next' \in Nat
    BY <1>3 DEF TypeOK, Observe
  <2>2. send' \in [Callers -> [at : SendState, final : BOOLEAN, num : Number]]
    BY <1>3 DEF TypeOK, Observe, Goes, SendState
  <2>3. observeCCA(send[c].num, auto)
    BY <1>3 DEF Observe
  <2> QED BY <2>1, <2>2, <2>3, ObserveKeeps
<1>4. ASSUME NEW n \in 1..MaxNumber, AutoObserve(n)
      PROVE  IInv' /\ NewNumber /\ StaysOver
  <2> DEFINE fn == [auto EXCEPT ![n] = "done"]
  <2>1. /\ n \in Number /\ fn \in [1..MaxNumber -> AutoState]
        /\ \A m \in 1..MaxNumber : fn[m] \in {auto[m], "done"}
    BY BehaviourAssumption DEF TypeOK, AutoState, Number
  <2>2. next' \in Nat /\ send' \in [Callers -> [at : SendState, final : BOOLEAN, num : Number]]
    BY <1>4 DEF TypeOK, AutoObserve
  <2>3. observeCCA(n, fn)
    BY <1>4 DEF AutoObserve
  <2> HIDE DEF fn
  <2> QED BY <2>1, <2>2, <2>3, ObserveKeeps
<1>5. ASSUME NEW t \in Timers, Expire(t)
      PROVE  IInv' /\ NewNumber /\ StaysOver
  BY <1>5 DEF Expire, TypeOK, NumbersCounted, StopReachesReAuths, NewNumber, StaysOver,
     sessionVars
<1>6. ASSUME NEW t \in Timers, fireReAuth(t)
      PROVE  IInv' /\ NewNumber /\ StaysOver
  <2>1. UNCHANGED <<builders, stopped, tracked, terminated, seen, armed, next, send>>
        /\ firing' = firing \ {t}
    BY <1>6 DEF fireReAuth
  <2>2. CASE ~tracked \/ terminated \/ stopped
    <3>1. UNCHANGED <<ccrn, timer, auto, handed>>
      BY <1>6, <2>2 DEF fireReAuth
    <3>2. TypeOK'
      BY <2>1, <3>1 DEF TypeOK
    <3> QED BY <2>1, <3>1, <3>2 DEF NumbersCounted, StopReachesReAuths, NewNumber, StaysOver
  <2>3. CASE tracked /\ ~terminated /\ ~stopped
    <3>1. /\ ccrn' \in Number /\ ccrn' > ccrn /\ timer' = None
          /\ auto' \in [1..MaxNumber -> AutoState] /\ handed' \in Seq(1..MaxNumber)
          /\ NumbersCounted'
          /\ handed' # handed => handed' = Append(handed, ccrn')
          /\ \A n \in 1..MaxNumber : auto'[n] \in {auto[n], "entered", "done"}
      BY <1>6, <2>3, FireStep
    <3>2. TypeOK'
      BY <2>1, <3>1 DEF TypeOK
    <3> QED BY <2>1, <2>3, <3>1, <3>2 DEF StopReachesReAuths, NewNumber, StaysOver
  <2> QED BY <2>2, <2>3 DEF TypeOK
<1>7. CASE Stop
  BY <1>7 DEF Stop, cancelTimer, TypeOK, NumbersCounted, StopReachesReAuths, NewNumber,
     StaysOver
<1>8. CASE UNCHANGED vars
  BY <1>8 DEF vars, TypeOK, NumbersCounted, StopReachesReAuths, NewNumber, StaysOver
<1> QED BY <1>1, <1>2, <1>3, <1>4, <1>5, <1>6, <1>7, <1>8 DEF Next

LEMMA Initial == Init => IInv
<1> SUFFICES ASSUME Init PROVE IInv
  OBVIOUS
<1>1. <<>> \in Seq(1..MaxNumber) /\ DOMAIN <<>> = {}
  OBVIOUS
<1>2. TypeOK
  <2>1. 0 \in Number
    BY BehaviourAssumption DEF Number
  <2>2. /\ send \in [Callers -> [at : SendState, final : BOOLEAN, num : Number]]
        /\ auto \in [1..MaxNumber -> AutoState]
    BY <2>1 DEF Init, SendState, AutoState
  <2> QED BY <1>1, <2>1, <2>2 DEF Init, TypeOK
<1> QED BY <1>1, <1>2 DEF Init, IInv, NumbersCounted, StopReachesReAuths

LEMMA Invariance == Spec => []IInv
<1>1. IInv /\ [Next]_vars => IInv'
  BY StepKeeps
<1> QED BY Initial, <1>1, PTL DEF Spec

-----------------------------------------------------------------------------
(* The types.                                                                      *)
THEOREM BehaviourTypes == Spec => []TypeOK
BY Invariance, PTL DEF IInv

(* The number given to an automatic request is above all that went before.         *)
THEOREM AutomaticNumbersAreNew == Spec => AutoNumberIsNew
<1> DEFINE A == handed' # handed =>
                  /\ \A m \in seen : m < Given
                  /\ \A i \in DOMAIN handed : handed[i] < Given
<1>1. IInv /\ [Next]_vars => [A]_vars
  <2> SUFFICES ASSUME IInv, [Next]_vars, handed' # handed PROVE A
    OBVIOUS
  <2>1. handed' = Append(handed, ccrn') /\ ccrn' > ccrn
    BY StepKeeps DEF NewNumber
  <2>2. IInv' /\ ccrn \in Nat /\ ccrn' \in Nat
    BY StepKeeps DEF IInv, TypeOK, Number
  <2>3. Given = ccrn'
    BY <2>1 DEF Given, IInv, TypeOK
  <2>4. \A m \in seen : m \in Nat /\ m <= ccrn
    BY Elements DEF IInv, NumbersCounted
  <2>5. \A i \in DOMAIN handed : handed[i] \in Nat /\ handed[i] <= ccrn
    BY Elements DEF IInv, NumbersCounted
  <2>6. \A m \in seen : m < Given
    BY <2>1, <2>2, <2>3, <2>4
  <2>7. \A i \in DOMAIN handed : handed[i] < Given
    BY <2>1, <2>2, <2>3, <2>5
  <2> QED BY <2>6, <2>7
<1> QED BY Invariance, <1>1, PTL DEF Spec, AutoNumberIsNew

(* A terminated session stays terminated, whatever answers come late.              *)
THEOREM TerminationIsFinal == Spec => TerminationSticks
<1>1. IInv /\ [Next]_vars => [terminated => terminated']_vars
  BY StepKeeps DEF StaysOver
<1> QED BY Invariance, <1>1, PTL DEF Spec, TerminationSticks

(* No re-auth is put on the wire after the session's end or after Stop.            *)
THEOREM NoLateReAuth == Spec => NoReAuthOnceOver
<1> DEFINE A == terminated \/ stopped =>
                  \A n \in 1..MaxNumber : auto'[n] = "sent" => auto[n] = "sent"
<1>1. IInv /\ [Next]_vars => [A]_vars
  BY StepKeeps DEF StaysOver
<1> QED BY Invariance, <1>1, PTL DEF Spec, NoReAuthOnceOver
=============================================================================
