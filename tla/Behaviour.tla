------------------------------ MODULE Behaviour ------------------------------
(***********************************************************************************)
(* protocol.Behaviour for one session                                              *)
(* (internal/diameter/protocol/behaviour.go): it stands between the engine         *)
(* and the Sender, watches the CCAs, and answers a Validity-Time with a            *)
(* timer and a CCR-Update, a final-unit indication with a CCR-Terminate,           *)
(* and a permanent failure by refusing what comes after.                           *)
(*                                                                                 *)
(* b.mu is released around every call of the inner Sender, and a timer             *)
(* that has expired is past cancelling while its callback waits for b.mu:          *)
(* each action is one critical section or one event between two of them.           *)
(* A request is its CC-Request-Number, an answer what observeCCA makes of          *)
(* it.  Sessions share the map and the stopped flag only, so one of them           *)
(* is enough; peers, delays and the contents of requests are left out.             *)
(***********************************************************************************)
EXTENDS Naturals, Sequences

CONSTANTS
  Callers,    \* goroutines of the engine that send for the session
  Timers,     \* timers that can exist at once (a bound)
  MaxNumber,  \* bound on the CC-Request-Numbers
  None

ASSUME BehaviourAssumption ==
  /\ MaxNumber \in Nat \ {0}
  /\ None \notin Timers

VARIABLES
  builders,    \* whether Options has the CCRUpdate and CCRTerminate builders
  stopped,     \* b.stopped
  tracked,     \* b.sessions has the session
  terminated,  \* state.terminated
  ccrn,        \* state.ccRequestNumber
  timer,       \* state.timer
  armed,       \* timers that run
  firing,      \* timers that expired and whose callback has yet to take b.mu
  next,        \* the engine's sc.CCRequestNumber
  send,        \* each engine goroutine in Send
  auto,        \* each number given to an automatic request
  handed,      \* those numbers in the order they were given
  seen         \* numbers of the requests whose answers were observed

vars == <<builders, stopped, tracked, terminated, ccrn, timer, armed, firing,
          next, send, auto, handed, seen>>
sessionVars == <<tracked, terminated, ccrn, seen>>
timerVars == <<timer, armed, firing>>

Number == 0..MaxNumber
SendState == {"idle", "entered", "sent", "answered"}
AutoState == {"unused", "entered", "sent", "answered", "terminate", "done"}

Init ==
  /\ builders \in BOOLEAN
  /\ stopped = FALSE /\ tracked = FALSE /\ terminated = FALSE /\ ccrn = 0
  /\ timer = None /\ armed = {} /\ firing = {}
  /\ next = 0
  /\ send = [c \in Callers |-> [at |-> "idle", final |-> FALSE, num |-> 0]]
  /\ auto = [n \in 1..MaxNumber |-> "unused"]
  /\ handed = <<>> /\ seen = {}

-----------------------------------------------------------------------------
(* Send, up to the answer: called by the engine and, for a re-auth, by the         *)
(* Behaviour itself.  Only a CCR-Terminate passes once the session is over.        *)

Passes(final) == final \/ ~terminated

Goes(c, at) == send' = [send EXCEPT ![c].at = at]

AutoGoes(n, at) == auto' = [auto EXCEPT ![n] = at]

EngineSends(c) ==
  /\ send[c].at = "idle" /\ next <= MaxNumber
  /\ \E final \in BOOLEAN :
       send' = [send EXCEPT ![c] = [at |-> "entered", final |-> final, num |-> next]]
  /\ UNCHANGED <<builders, stopped, sessionVars, timerVars, next, auto, handed>>

Guard(c) ==
  /\ send[c].at = "entered"
  /\ Goes(c, IF Passes(send[c].final) THEN "sent" ELSE "idle")
  /\ UNCHANGED <<builders, stopped, sessionVars, timerVars, next, auto, handed>>

AutoGuard(n) ==
  /\ auto[n] = "entered"
  /\ AutoGoes(n, IF Passes(FALSE) THEN "sent" ELSE "done")
  /\ UNCHANGED <<builders, stopped, sessionVars, timerVars, next, send, handed>>

(* The inner Send answers or fails.  The goroutine of an automatic                 *)
(* CCR-Terminate called it directly: nobody observes that answer.                  *)
InnerReturns(c) ==
  /\ send[c].at = "sent"
  /\ \E at \in {"answered", "idle"} : Goes(c, at)
  /\ UNCHANGED <<builders, stopped, sessionVars, timerVars, next, auto, handed>>

AutoInnerReturns(n) ==
  /\ \/ auto[n] = "sent" /\ \E at \in {"answered", "done"} : AutoGoes(n, at)
     \/ auto[n] = "terminate" /\ AutoGoes(n, "done")
  /\ UNCHANGED <<builders, stopped, sessionVars, timerVars, next, send, handed>>

-----------------------------------------------------------------------------
(* observeCCA.                                                                     *)

cancelTimer == timer' = None /\ armed' = armed \ {timer}

(* Faulty: the number of the last answer, whatever came before.                    *)
NumberOfAnswer(num) == num

LastNumber(num) == IF num > ccrn THEN num ELSE ccrn

(* Hand the next number to a builder: a builder may decline.                       *)
HandsOut(n, fn, at) ==
  /\ n <= MaxNumber
  /\ IF builders
     THEN /\ handed' = Append(handed, n)
          /\ \E s \in {at, "done"} : auto' = [fn EXCEPT ![n] = s]
     ELSE auto' = fn /\ UNCHANGED handed

Failure(num, fn) ==
  /\ terminated' = TRUE /\ cancelTimer
  /\ ccrn' = LastNumber(num)
  /\ auto' = fn /\ UNCHANGED handed

FinalUnit(num, fn) ==
  /\ terminated' = TRUE /\ cancelTimer
  /\ ccrn' = LastNumber(num) + 1
  /\ HandsOut(ccrn', fn, "terminate")

ValidityTime(num, fn) ==
  /\ \E t \in Timers \ (armed \cup firing) :
       /\ timer' = t
       /\ armed' = (armed \ {timer}) \cup {t}
  /\ ccrn' = LastNumber(num)
  /\ auto' = fn /\ UNCHANGED <<terminated, handed>>

(* A likely bug: the timer is cancelled by every answer, not only by one that      *)
(* brings another.                                                                 *)
PlainCancels(num, fn) ==
  /\ ccrn' = LastNumber(num) /\ cancelTimer
  /\ auto' = fn /\ UNCHANGED <<terminated, handed>>

Plain(num, fn) ==
  /\ ccrn' = LastNumber(num)
  /\ auto' = fn /\ UNCHANGED <<terminated, timer, armed, handed>>

(* num: the request's number; fn: auto once its own request is settled.            *)
observeCCA(num, fn) ==
  /\ tracked' = TRUE /\ seen' = seen \cup {num}
  /\ Failure(num, fn) \/ FinalUnit(num, fn) \/ ValidityTime(num, fn) \/ Plain(num, fn)
  /\ UNCHANGED <<builders, stopped, firing>>

(* The engine counts a request once Send has returned its answer.                  *)
Observe(c) ==
  /\ send[c].at = "answered"
  /\ observeCCA(send[c].num, auto)
  /\ Goes(c, "idle")
  /\ next' = next + 1

AutoObserve(n) ==
  /\ auto[n] = "answered"
  /\ observeCCA(n, [auto EXCEPT ![n] = "done"])
  /\ UNCHANGED <<next, send>>

-----------------------------------------------------------------------------
(* Timers and Stop.                                                                *)

Expire(t) ==
  /\ t \in armed
  /\ armed' = armed \ {t} /\ firing' = firing \cup {t}
  /\ UNCHANGED <<builders, stopped, sessionVars, timer, next, send, auto, handed>>

fireReAuth(t) ==
  /\ t \in firing
  /\ firing' = firing \ {t}
  /\ IF ~tracked \/ terminated \/ stopped
     THEN UNCHANGED <<ccrn, timer, auto, handed>>
     ELSE /\ ccrn' = ccrn + 1 /\ timer' = None
          /\ HandsOut(ccrn + 1, auto, "entered")
  /\ UNCHANGED <<builders, stopped, tracked, terminated, seen, armed, next, send>>

Stop ==
  /\ ~stopped
  /\ stopped' = TRUE
  /\ IF tracked THEN cancelTimer /\ terminated' = TRUE
     ELSE UNCHANGED <<timer, armed, terminated>>
  /\ UNCHANGED <<builders, tracked, ccrn, seen, firing, next, send, auto, handed>>

Next ==
  \/ \E c \in Callers : EngineSends(c) \/ Guard(c) \/ InnerReturns(c) \/ Observe(c)
  \/ \E n \in 1..MaxNumber : AutoGuard(n) \/ AutoInnerReturns(n) \/ AutoObserve(n)
  \/ \E t \in Timers : Expire(t) \/ fireReAuth(t)
  \/ Stop

Spec == Init /\ [][Next]_vars

(* Timers expire and callbacks run.  The OCS need not answer.                      *)
FairSpec == Spec /\ \A t \in Timers : WF_vars(Expire(t)) /\ WF_vars(fireReAuth(t))

-----------------------------------------------------------------------------
(* Type invariant.                                                                 *)
TypeOK ==
  /\ builders \in BOOLEAN /\ stopped \in BOOLEAN
  /\ tracked \in BOOLEAN /\ terminated \in BOOLEAN
  /\ ccrn \in Number
  /\ timer \in Timers \cup {None}
  /\ armed \subseteq Timers /\ firing \subseteq Timers /\ armed \cap firing = {}
  /\ next \in Nat
  /\ send \in [Callers -> [at : SendState, final : BOOLEAN, num : Number]]
  /\ auto \in [1..MaxNumber -> AutoState]
  /\ handed \in Seq(1..MaxNumber) /\ seen \subseteq Number

(* However answers overtake each other, the number the Behaviour gives to a        *)
(* request of its own is above every number it gave before and every number        *)
(* whose answer it has seen.                                                       *)
Given == handed'[Len(handed')]

AutoNumberIsNew ==
  [][handed' # handed =>
       /\ \A m \in seen : m < Given
       /\ \A i \in DOMAIN handed : handed[i] < Given]_vars

(* A late answer to another request of the session does not bring it back          *)
(* once it is terminated.                                                          *)
TerminationSticks == [][terminated => terminated']_vars

(* Once the session is terminated or the Behaviour stopped, no re-auth is          *)
(* put on the wire: not by a timer armed or expired before or after, nor by        *)
(* one already built.                                                              *)
NoReAuthOnceOver ==
  [][terminated \/ stopped =>
       \A n \in 1..MaxNumber : auto'[n] = "sent" => auto[n] = "sent"]_vars

(* A pending re-auth is made: if there are builders, one of them is handed a       *)
(* number above those so far, unless the session is terminated, the Behaviour      *)
(* stopped, or the re-auth put off by an answer that brings another timer.  (At    *)
(* the bound on numbers the model has no more to give.)                            *)
PutOff(t) == timer \in Timers \ {t}

HandedAbove(n) == \E i \in DOMAIN handed : handed[i] > n

ReAuthTakesPlace ==
  \A t \in Timers, n \in 0..(MaxNumber - 1) :
    builders /\ timer = t /\ ccrn = n
      ~> HandedAbove(n) \/ terminated \/ stopped \/ PutOff(t) \/ ccrn = MaxNumber

(* The comment on Stop: it "cancels every outstanding re-auth timer".              *)
StopCancelsEveryTimer == [][~stopped /\ stopped' => armed' = {}]_vars
=============================================================================
