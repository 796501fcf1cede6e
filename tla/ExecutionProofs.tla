--------------------------- MODULE ExecutionProofs ---------------------------
(***********************************************************************************)
(* What TLAPS proves of Execution, for any number of callers, steps, runs,         *)
(* repeats and rounds, and with calls overlapping in any way: the types,           *)
(* an active session has its goroutine, and a paused one can be resumed;           *)
(* and what calls made one after the other can rely on.                            *)
(***********************************************************************************)
EXTENDS Execution, TLAPS, FiniteSetTheorems

(* A goroutine that walks has a step to walk.                                      *)
RunOK(b) ==
  /\ b \in RunRecord
  /\ b.at \in {"off", "reserved", "spawned", "returned"} \/ b.from < NSteps

Walks == \A r \in Runs : RunOK(run[r])

(* Where a step of a goroutine may leave it, but for a request on its way.         *)
Between == {"pass", "step", "delay", "gotoDelay", "execute", "passEnd", "returned"}

IInv == TypeOK /\ Walks /\ ActiveHasRun /\ ResumeInRange

-----------------------------------------------------------------------------
(* The records the engine moves through.                                           *)

LEMMA NoRunTyped == NoRun \in RunRecord
<1>1. /\ 0 \in 0..NSteps /\ 1 \in 1..NSteps /\ 0 \in 0..MaxRuns
      /\ 1 \in 1..MaxRounds /\ 0 \in 0..MaxRepeats
  BY ExecutionAssumption
<1> QED BY <1>1 DEF NoRun, RunRecord, RunState

LEMMA EndsOK ==
  ASSUME NEW b,
         NEW out \in {"none", "completed", "interrupted", "cancelled", "error"}
  PROVE  RunOK(Ends(b, out)) /\ Ends(b, out).at = "returned"
BY NoRunTyped DEF Ends, RunOK, RunRecord, RunState

LEMMA PassEndsOK ==
  ASSUME NEW b \in RunRecord, b.from < NSteps
  PROVE  RunOK(PassEnds(b)) /\ PassEnds(b).at = "passEnd"
BY NoRunTyped DEF PassEnds, RunOK, RunRecord, RunState

LEMMA TriesOK ==
  ASSUME NEW b \in RunRecord, b.from < NSteps, NEW i \in 1..NSteps,
         NEW round \in 1..MaxRounds, NEW mayDelay, NEW x \in Tries(b, i, round, mayDelay)
  PROVE  RunOK(x) /\ x.at \in {"execute", "delay"}
BY DEF Tries, RunOK, RunRecord, RunState

LEMMA BeginsOK ==
  ASSUME NEW b \in RunRecord, b.from < NSteps, NEW i \in 1..NSteps,
         NEW x \in Begins(b, i)
  PROVE  RunOK(x) /\ x.at \in {"execute", "delay"}
<1>1. 1 \in 1..MaxRounds BY ExecutionAssumption
<1> QED BY <1>1, TriesOK DEF Begins

LEMMA JumpsOK ==
  ASSUME NEW b \in RunRecord, b.from < NSteps, NEW x \in Jumps(b)
  PROVE  RunOK(x) /\ x.at \in {"execute", "delay"}
<1>1. NSteps \in 1..NSteps BY ExecutionAssumption
<1>2. /\ [b EXCEPT !.jump = TRUE] \in RunRecord
      /\ [b EXCEPT !.jump = TRUE].from < NSteps
  BY DEF RunRecord
<1> QED BY <1>1, <1>2, BeginsOK DEF Jumps

LEMMA ContinuesOK ==
  ASSUME NEW r, NEW b \in RunRecord, b.from < NSteps, NEW x \in Continues(r, b)
  PROVE  RunOK(x) /\ x.at \in Between
<1>1. CASE x = Leaves(b)
  <2>1. CASE b.jump \/ b.idx = NSteps
    BY <1>1, <2>1, PassEndsOK DEF Leaves, Between
  <2>2. CASE ~(b.jump \/ b.idx = NSteps)
    <3>1. b.idx + 1 \in 1..NSteps
      BY <2>2, ExecutionAssumption DEF RunRecord
    <3> QED BY <1>1, <2>2, <3>1 DEF Leaves, RunOK, RunRecord, RunState, Between
  <2> QED BY <2>1, <2>2
<1>2. CASE x = PassEnds(b)
  BY <1>2, PassEndsOK DEF Between
<1>3. CASE x = Ends(b, "interrupted")
  BY <1>3, EndsOK DEF Between
<1>4. CASE b.round < MaxRounds /\ x \in Tries(b, b.idx, b.round + 1, TRUE)
  <2>1. b.idx \in 1..NSteps /\ b.round + 1 \in 1..MaxRounds
    BY <1>4, ExecutionAssumption DEF RunRecord
  <2> QED BY <1>4, <2>1, TriesOK DEF Between
<1> QED BY <1>1, <1>2, <1>3, <1>4 DEF Continues

LEMMA HandlesOK ==
  ASSUME NEW r, NEW b \in RunRecord, b.from < NSteps, NEW action \in Action,
         NEW x \in Handles(r, b, action)
  PROVE  RunOK(x) /\ x.at \in Between
<1>1. CASE action = "continue"
  BY <1>1, ContinuesOK DEF Handles
<1>2. CASE action # "continue" /\ b.jump
  BY <1>2, PassEndsOK DEF Handles, Between
<1>3. CASE action = "goto" /\ ~b.jump
  <2>1. CASE x = PassEnds(b) BY <2>1, PassEndsOK DEF Between
  <2>2. CASE x = [b EXCEPT !.at = "gotoDelay"]
    BY <2>2 DEF RunOK, RunRecord, RunState, Between
  <2>3. CASE x \in Jumps(b) BY <2>3, JumpsOK DEF Between
  <2> QED BY <1>3, <2>1, <2>2, <2>3 DEF Handles
<1>4. CASE action \in {"pause", "terminate", "retry"} /\ ~b.jump
  BY <1>4, EndsOK DEF Handles, Between
<1> QED BY <1>1, <1>2, <1>3, <1>4 DEF Action

-----------------------------------------------------------------------------
(* Steps of the goroutines.                                                        *)

(* What a step of the walk does to the CC-Request-Numbers: it sends one, gets      *)
(* past the one it sent, starts a session anew, or leaves them alone.              *)
Sends(r, b) ==
  /\ run[r].at = "execute" /\ b.at = "sending"
  /\ used' = used \cup {ccrn} /\ ccrn' = ccrn

Counts(r, b) ==
  /\ run[r].at = "sending" /\ b.at \in Between
  /\ ccrn' = ccrn + 1 /\ used' = used

Renews(b) == b.at \in Between /\ ccrn' = 0 /\ used' = {}

KeepsNumbers(r, b) ==
  /\ b.at \in Between /\ (run[r].at = "sending" => b.at = "returned")
  /\ UNCHANGED dccaVars

(* A goroutine at work moves on to a proper record, and may move stepIdx to a      *)
(* step of the scenario.                                                           *)
Moves(r, b) ==
  /\ run[r].at \notin {"off", "reserved", "returned"}
  /\ RunOK(b) /\ Becomes(r, b) /\ EngineOnly
  /\ stepIdx' \in Nat /\ (stepIdx' = stepIdx \/ stepIdx' <= NSteps)
  /\ Sends(r, b) \/ Counts(r, b) \/ Renews(b) \/ KeepsNumbers(r, b)

LEMMA EnginePreserves ==
  ASSUME IInv, NEW r \in Runs, NEW b, Moves(r, b)
  PROVE  IInv'
<1>0. /\ RunOK(b) /\ b.at # "off" /\ Becomes(r, b) /\ EngineOnly
      /\ stepIdx' \in Nat /\ (stepIdx' = stepIdx \/ stepIdx' <= NSteps)
  BY DEF Moves, Sends, Counts, Renews, KeepsNumbers, Between
<1>n. ccrn' \in Nat /\ used' \subseteq Nat
  <2>1. ccrn \in Nat /\ used \subseteq Nat
    BY DEF IInv, TypeOK
  <2>2. /\ ccrn' \in {ccrn, ccrn + 1, 0}
        /\ used' \in {used, used \cup {ccrn}, {}}
    BY DEF Moves, Sends, Counts, Renews, KeepsNumbers, dccaVars
  <2> QED BY <2>1, <2>2
<1>1. TypeOK'
  BY <1>0, <1>n DEF IInv, TypeOK, RunOK, Becomes, EngineOnly, fixedVars, signalVars
<1>2. Walks'
  BY <1>0 DEF IInv, TypeOK, Walks, Becomes, RunOK
<1>3. ActiveHasRun'
  BY <1>0 DEF IInv, TypeOK, ActiveHasRun, Becomes, EngineOnly, signalVars
<1>4. ResumeInRange'
  BY <1>0 DEF IInv, ResumeInRange, EngineOnly
<1> QED BY <1>1, <1>2, <1>3, <1>4 DEF IInv

LEMMA RunTypes ==
  ASSUME IInv, NEW r \in Runs
  PROVE  /\ run[r] \in RunRecord
         /\ RunOK(run[r])
         /\ run[r].idx \in 1..NSteps
         /\ stepIdx \in Nat /\ ccrn \in Nat /\ used \subseteq Nat
         /\ runs \in Runs
BY DEF IInv, TypeOK, Walks, RunRecord

LEMMA EngineMoves ==
  ASSUME IInv, NEW r \in Runs,
         \/ RunStart(r) \/ PassCheck(r) \/ StepCheck(r) \/ Delay(r) \/ GotoDelay(r)
         \/ Execute(r) \/ Answered(r) \/ SendFails(r) \/ SendCancelled(r)
         \/ PassEnd(r)
  PROVE  \E b : Moves(r, b)
<1> DEFINE b0 == run[r]
<1>0. /\ b0 \in RunRecord /\ RunOK(b0) /\ b0.idx \in 1..NSteps
      /\ stepIdx \in Nat /\ ccrn \in Nat /\ used \subseteq Nat /\ runs \in Runs
  BY RunTypes
<1>e. ASSUME NEW out \in {"completed", "interrupted", "cancelled", "error"}
      PROVE  RunOK(Ends(b0, out)) /\ Ends(b0, out).at = "returned"
  BY EndsOK
<1>i. b0.idx \in Nat /\ b0.idx <= NSteps
  BY <1>0, ExecutionAssumption
<1>k. ASSUME NEW b, RunOK(b), b.at \in Between, Becomes(r, b), EngineOnly,
             UNCHANGED dccaVars, stepIdx' = stepIdx \/ stepIdx' = b0.idx,
             b0.at \notin {"off", "reserved", "returned"},
             b0.at = "sending" => b.at = "returned"
      PROVE  \E x : Moves(r, x)
  <2>1. Moves(r, b)
    BY <1>0, <1>i, <1>k DEF Moves, KeepsNumbers
  <2> QED BY <2>1
<1>1. CASE RunStart(r)
  <2> DEFINE b == [b0 EXCEPT !.ch = runs]
  <2>1. b \in RunRecord /\ b.from = b0.from
    BY <1>0, ExecutionAssumption DEF RunRecord, Runs
  <2>4. b0.at = "spawned" /\ EngineOnly /\ UNCHANGED <<stepIdx, dccaVars>>
    BY <1>1 DEF RunStart
  <2>2. CASE b.from = NSteps
    <3>1. Becomes(r, Ends(b, "completed"))
      BY <1>1, <2>2 DEF RunStart
    <3>2. RunOK(Ends(b, "completed")) /\ Ends(b, "completed").at \in Between
      BY EndsOK DEF Between
    <3> QED BY <1>k, <2>4, <3>1, <3>2
  <2>3. CASE b.from # NSteps
    <3> DEFINE n == [b EXCEPT !.at = "pass"]
    <3>1. Becomes(r, n)
      BY <1>1, <2>3 DEF RunStart
    <3>2. b.from < NSteps
      BY <2>1, <2>3, ExecutionAssumption DEF RunRecord
    <3>3. n \in RunRecord /\ n.from = b.from /\ n.at = "pass"
      BY <2>1 DEF RunRecord, RunState
    <3>4. RunOK(n) /\ n.at \in Between
      BY <3>2, <3>3 DEF RunOK, Between
    <3> HIDE DEF n
    <3> QED BY <1>k, <2>4, <3>1, <3>4
  <2> QED BY <2>2, <2>3
<1>2. ASSUME NEW at \in {"pass", "step"}, NEW n, RunOK(n), n.at \in Between,
             Check(r, at, n)
      PROVE  \E b : Moves(r, b)
  <2>1. \/ Becomes(r, Ends(b0, "completed")) \/ Becomes(r, Ends(b0, "interrupted"))
        \/ Becomes(r, n)
    BY <1>2 DEF Check
  <2>2. b0.at = at /\ EngineOnly /\ UNCHANGED <<stepIdx, dccaVars>>
    BY <1>2 DEF Check
  <2>3. "returned" \in Between
    BY DEF Between
  <2> QED BY <1>2, <1>e, <1>k, <2>1, <2>2, <2>3
<1>3. CASE PassCheck(r)
  <2> DEFINE n == [b0 EXCEPT !.at = "step", !.idx = b0.from + 1]
  <2>1. b0.at = "pass" /\ Check(r, "pass", n)
    BY <1>3 DEF PassCheck, Check
  <2>2. b0.from < NSteps /\ b0.from + 1 \in 1..NSteps
    BY <1>0, <2>1, ExecutionAssumption DEF RunOK, RunRecord
  <2>3. RunOK(n) /\ n.at \in Between
    BY <1>0, <2>2 DEF RunOK, RunRecord, RunState, Between
  <2> HIDE DEF n
  <2> QED BY <1>2, <2>1, <2>3
<1>4. CASE StepCheck(r)
  <2>1. PICK n \in Begins(b0, b0.idx) : Check(r, "step", n)
    BY <1>4 DEF StepCheck
  <2>2. b0.from < NSteps
    BY <1>0, <2>1 DEF Check, RunOK
  <2>3. RunOK(n) /\ n.at \in Between
    BY <1>0, <2>2, BeginsOK DEF Between
  <2> QED BY <1>2, <2>1, <2>3
<1>5. CASE Delay(r)
  <2>1. b0.at = "delay" /\ b0.from < NSteps
    BY <1>0, <1>5 DEF Delay, RunOK
  <2>2. RunOK(PassEnds(b0)) /\ PassEnds(b0).at \in Between
    BY <1>0, <2>1, PassEndsOK DEF Between
  <2> DEFINE n == [b0 EXCEPT !.at = "execute"]
  <2>3. RunOK(n) /\ n.at \in Between
    BY <1>0, <2>1 DEF RunOK, RunRecord, RunState, Between
  <2>4. \/ \E out \in {"completed", "interrupted", "cancelled"} : Becomes(r, Ends(b0, out))
        \/ Becomes(r, PassEnds(b0))
        \/ Becomes(r, n)
    BY <1>5 DEF Delay
  <2>5. EngineOnly /\ UNCHANGED <<stepIdx, dccaVars>>
    BY <1>5 DEF Delay
  <2>6. "returned" \in Between
    BY DEF Between
  <2> HIDE DEF n
  <2> QED BY <1>e, <1>k, <2>1, <2>2, <2>3, <2>4, <2>5, <2>6
<1>6. CASE GotoDelay(r)
  <2>1. b0.at = "gotoDelay" /\ b0.from < NSteps
    BY <1>0, <1>6 DEF GotoDelay, RunOK
  <2>2. \/ \E out \in {"completed", "interrupted", "cancelled"} : Becomes(r, Ends(b0, out))
        \/ \E n \in Jumps(b0) : Becomes(r, n)
    BY <1>6 DEF GotoDelay
  <2>3. EngineOnly /\ UNCHANGED <<stepIdx, dccaVars>>
    BY <1>6 DEF GotoDelay
  <2>4. \A n \in Jumps(b0) : RunOK(n) /\ n.at \in Between
    BY <1>0, <2>1, JumpsOK DEF Between
  <2>5. "returned" \in Between
    BY DEF Between
  <2> QED BY <1>e, <1>k, <2>1, <2>2, <2>3, <2>4, <2>5
<1>7. CASE Execute(r)
  <2>1. b0.at = "execute" /\ b0.from < NSteps /\ EngineOnly
    BY <1>0, <1>7 DEF Execute, RunOK
  <2>2. CASE /\ \E n \in Continues(r, b0) : Becomes(r, n)
             /\ stepIdx' = b0.idx /\ UNCHANGED dccaVars
    <3>1. \A n \in Continues(r, b0) : RunOK(n) /\ n.at \in Between
      BY <1>0, <2>1, ContinuesOK
    <3> QED BY <1>k, <2>1, <2>2, <3>1
  <2>3. CASE Becomes(r, Ends(b0, "error")) /\ stepIdx' = b0.idx /\ UNCHANGED dccaVars
    <3>1. "returned" \in Between
      BY DEF Between
    <3> QED BY <1>e, <1>k, <2>1, <2>3, <3>1
  <2>4. CASE /\ Becomes(r, [b0 EXCEPT !.at = "sending"])
             /\ used' = used \cup {ccrn} /\ UNCHANGED <<stepIdx, ccrn>>
    <3> DEFINE n == [b0 EXCEPT !.at = "sending"]
    <3>1. RunOK(n) /\ n.at = "sending" /\ Becomes(r, n)
      BY <1>0, <2>1, <2>4 DEF RunOK, RunRecord, RunState
    <3> HIDE DEF n
    <3>2. Moves(r, n)
      BY <1>0, <2>1, <2>4, <3>1 DEF Moves, Sends
    <3> QED BY <3>2
  <2> QED BY <1>7, <2>2, <2>3, <2>4 DEF Execute
<1>8. CASE Answered(r)
  <2>1. /\ b0.at = "sending" /\ b0.from < NSteps /\ EngineOnly
        /\ ccrn' = ccrn + 1 /\ used' = used
    BY <1>0, <1>8 DEF Answered, RunOK
  <2> DEFINE again == [b0 EXCEPT !.at = "execute", !.tries = 1]
             got == [b0 EXCEPT !.prev = TRUE]
  <2>2. RunOK(again) /\ again.at \in Between
    BY <1>0, <2>1 DEF RunOK, RunRecord, RunState, Between
  <2>3. got \in RunRecord /\ got.from < NSteps
    BY <1>0, <2>1 DEF RunRecord
  <2>4. \/ Becomes(r, again) /\ stepIdx' = stepIdx
        \/ /\ \E action \in Action : \E n \in Handles(r, got, action) : Becomes(r, n)
           /\ stepIdx' = b0.idx
    BY <1>8 DEF Answered
  <2> HIDE DEF again, got
  <2>5. \A action \in Action : \A n \in Handles(r, got, action) :
          RunOK(n) /\ n.at \in Between
    BY <2>3, HandlesOK
  <2>6. PICK n : /\ Becomes(r, n) /\ RunOK(n) /\ n.at \in Between
                 /\ stepIdx' = stepIdx \/ stepIdx' = b0.idx
    BY <2>2, <2>4, <2>5
  <2>7. Moves(r, n)
    BY <1>0, <1>i, <2>1, <2>6 DEF Moves, Counts
  <2> QED BY <2>7
<1>9. CASE SendFails(r) \/ SendCancelled(r)
  <2>1. /\ b0.at = "sending" /\ EngineOnly /\ UNCHANGED dccaVars /\ stepIdx' = b0.idx
        /\ \E out \in {"error", "cancelled"} : Becomes(r, Ends(b0, out))
    BY <1>9 DEF SendFails, SendCancelled
  <2>2. "returned" \in Between
    BY DEF Between
  <2> QED BY <1>e, <1>k, <2>1, <2>2
<1>10. CASE PassEnd(r)
  <2>1. b0.at = "passEnd" /\ b0.from < NSteps /\ EngineOnly /\ stepIdx' = stepIdx
    BY <1>0, <1>10 DEF PassEnd, RunOK
  <2> DEFINE n == [b0 EXCEPT !.at = "pass",
                     !.passes = IF repeats = 0 THEN 0 ELSE @ + 1]
  <2>2. CASE Becomes(r, Ends(b0, "completed")) /\ UNCHANGED dccaVars
    <3>1. "returned" \in Between
      BY DEF Between
    <3> QED BY <1>e, <1>k, <2>1, <2>2, <3>1
  <2>3. CASE /\ ~(repeats > 0 /\ b0.passes + 1 >= repeats)
             /\ Becomes(r, n) /\ ccrn' = 0 /\ used' = {}
    <3>1. repeats \in 0..MaxRepeats /\ b0.passes \in 0..MaxRepeats
      BY <1>0 DEF IInv, TypeOK, RunRecord
    <3>2. n.passes \in 0..MaxRepeats
      BY <1>0, <2>3, <3>1, ExecutionAssumption DEF RunRecord
    <3>3. RunOK(n) /\ n.at \in Between
      BY <1>0, <2>1, <3>2 DEF RunOK, RunRecord, RunState, Between
    <3> HIDE DEF n
    <3>4. Moves(r, n)
      BY <1>0, <2>1, <2>3, <3>3 DEF Moves, Renews
    <3> QED BY <3>4
  <2> QED BY <1>10, <2>2, <2>3 DEF PassEnd
<1> QED
  BY <1>1, <1>3, <1>4, <1>5, <1>6, <1>7, <1>8, <1>9, <1>10

LEMMA EngineStep ==
  ASSUME IInv, NEW r \in Runs,
         \/ RunStart(r) \/ PassCheck(r) \/ StepCheck(r) \/ Delay(r) \/ GotoDelay(r)
         \/ Execute(r) \/ Answered(r) \/ SendFails(r) \/ SendCancelled(r)
         \/ PassEnd(r)
  PROVE  IInv'
BY EngineMoves, EnginePreserves

(* The run that RunToEnd started last takes the session out of "active".           *)
LEMMA RunEndStep ==
  ASSUME IInv, NEW r \in Runs, RunEnd(r)
  PROVE  IInv'
<1>0. run[r] \in RunRecord /\ stepIdx \in Nat
  BY RunTypes
<1>1. state' \in {"paused", "error", "completed"}
  BY DEF RunEnd
<1>2. TypeOK'
  <2>1. run' \in [Runs -> RunRecord]
    BY NoRunTyped DEF RunEnd, Becomes, IInv, TypeOK
  <2>2. stepIdx' \in Nat /\ ccrn' \in Nat /\ used' \subseteq Nat
    BY <1>0, ExecutionAssumption DEF RunEnd, dccaVars, IInv, TypeOK
  <2> QED
    BY <1>1, <2>1, <2>2 DEF RunEnd, IInv, TypeOK, fixedVars, signalVars
<1>3. Walks'
  <2>1. RunOK(NoRun)
    BY NoRunTyped DEF RunOK, NoRun
  <2> QED BY <2>1 DEF RunEnd, Becomes, IInv, TypeOK, Walks, RunOK
<1>4. ActiveHasRun'
  BY <1>1 DEF ActiveHasRun
<1>5. ResumeInRange'
  BY ExecutionAssumption DEF RunEnd, ResumeInRange
<1> QED BY <1>2, <1>3, <1>4, <1>5 DEF IInv

-----------------------------------------------------------------------------
(* Steps of the calls.                                                             *)

(* A call that leaves the runs and the signals alone, and does not claim           *)
(* the session active, has types and the range of a resume to keep.                *)
LEMMA CallPreserves ==
  ASSUME IInv, UNCHANGED <<fixedVars, signalVars, run>>,
         call' \in [Callers -> CallRecord],
         state' \in {"active", "paused", "completed", "terminated", "error"},
         state' = "active" => state = "active",
         state' = "paused" => stepIdx' <= NSteps,
         stepIdx' \in Nat, history' \in Seq(0..NSteps),
         ccrn' \in Nat, used' \subseteq Nat
  PROVE  IInv'
BY DEF IInv, TypeOK, Walks, RunOK, ActiveHasRun, ResumeInRange, fixedVars,
       signalVars

(* What the type invariant says of a call, and of its next record.                 *)
CallFacts(c) ==
  /\ stepIdx \in Nat /\ ccrn \in Nat /\ used \subseteq Nat
  /\ history \in Seq(0..NSteps)
  /\ call \in [Callers -> CallRecord]
  /\ state \in {"active", "paused", "completed", "terminated", "error"}
  /\ state = "paused" => stepIdx <= NSteps
  /\ [call EXCEPT ![c] = NoCall] \in [Callers -> CallRecord]
  /\ \A at \in CallState : [call EXCEPT ![c].at = at] \in [Callers -> CallRecord]

LEMMA CallTypes ==
  ASSUME IInv, NEW c \in Callers
  PROVE  CallFacts(c)
<1>1. NoCall \in CallRecord
  BY ExecutionAssumption DEF NoCall, CallRecord, CallState
<1>2. call[c] \in CallRecord
  BY DEF IInv, TypeOK
<1>3. \A at \in CallState : [call[c] EXCEPT !.at = at] \in CallRecord
  BY <1>2 DEF CallRecord
<1> QED BY <1>1, <1>3 DEF IInv, TypeOK, ResumeInRange, CallFacts

LEMMA StepSteps ==
  ASSUME IInv, NEW c \in Callers,
         \/ StepBegin(c) \/ StepTake(c) \/ StepExecute(c) \/ StepAnswered(c)
         \/ StepSendFails(c) \/ StepRecord(c) \/ StepFinish(c) \/ Skip(c)
  PROVE  IInv'
<1>0. CallFacts(c) BY CallTypes
<1>r. call[c] \in CallRecord
  BY <1>0 DEF CallFacts
<1> USE <1>0, <1>r DEF CallFacts, Goes, CallEnds, recVars, dccaVars, CallState
<1>1. CASE StepBegin(c)
  BY <1>1, CallPreserves DEF StepBegin
<1>2. CASE StepTake(c)
  <2>1. call' \in [Callers -> CallRecord]
    <3>1. CASE state \notin {"active", "paused"} \/ stepIdx >= NSteps
      BY <1>2, <3>1 DEF StepTake
    <3>2. CASE ~(state \notin {"active", "paused"} \/ stepIdx >= NSteps)
      <4>1. stepIdx + 1 \in 0..NSteps
        BY <3>2, ExecutionAssumption
      <4>2. call' = [call EXCEPT ![c] =
                       [call[c] EXCEPT !.at = "execute", !.idx = stepIdx + 1]]
        BY <1>2, <3>2 DEF StepTake
      <4>3. [call[c] EXCEPT !.at = "execute", !.idx = stepIdx + 1] \in CallRecord
        BY <4>1 DEF CallRecord
      <4> QED BY <4>2, <4>3
    <3> QED BY <3>1, <3>2
  <2> QED BY <1>2, <2>1, CallPreserves DEF StepTake
<1>3. CASE StepExecute(c)
  <2>1. [call[c] EXCEPT !.at = "record", !.ok = FALSE] \in CallRecord
    BY DEF CallRecord
  <2>2. call' \in [Callers -> CallRecord]
    BY <1>3, <2>1 DEF StepExecute
  <2>3. ccrn' \in Nat /\ used' \subseteq Nat
    BY <1>3 DEF StepExecute
  <2> QED BY <1>3, <2>2, <2>3, CallPreserves DEF StepExecute
<1>4. CASE StepAnswered(c)
  BY <1>4, CallPreserves DEF StepAnswered
<1>5. CASE StepSendFails(c)
  <2>1. [call[c] EXCEPT !.at = "record", !.ok = FALSE] \in CallRecord
    BY DEF CallRecord
  <2>2. call' \in [Callers -> CallRecord]
    BY <1>5, <2>1 DEF StepSendFails
  <2> QED BY <1>5, <2>2, CallPreserves DEF StepSendFails
<1>6. CASE StepRecord(c)
  <2>1. call[c].idx \in 0..NSteps
    BY DEF CallRecord
  <2>2. Append(history, call[c].idx) \in Seq(0..NSteps)
    BY <2>1
  <2>3. history' \in Seq(0..NSteps)
    BY <1>6, <2>2 DEF StepRecord
  <2> QED BY <1>6, <2>3, CallPreserves DEF StepRecord
<1>7. CASE StepFinish(c)
  BY <1>7, CallPreserves, ExecutionAssumption DEF StepFinish
<1>8. CASE Skip(c)
  <2>1. stepIdx + 1 \in 0..NSteps
    BY <1>8, ExecutionAssumption DEF Skip
  <2>2. Append(history, stepIdx + 1) \in Seq(0..NSteps)
    BY <2>1
  <2>3. history' \in Seq(0..NSteps)
    BY <1>8, <2>2 DEF Skip
  <2>4. stepIdx' \in Nat /\ stepIdx' <= NSteps /\ state' \in {"completed", "paused"}
    BY <1>8, <2>1, ExecutionAssumption DEF Skip
  <2> QED BY <1>8, <2>3, <2>4, CallPreserves DEF Skip
<1> QED BY <1>1, <1>2, <1>3, <1>4, <1>5, <1>6, <1>7, <1>8

LEMMA StopSteps ==
  ASSUME IInv, NEW c \in Callers,
         Stop(c) \/ StopClose(c) \/ StopCancel(c) \/ StopMark(c)
  PROVE  IInv'
<1>0. CallFacts(c) BY CallTypes
<1>r. call[c] \in CallRecord
  BY <1>0 DEF CallFacts
<1> USE <1>0, <1>r DEF CallFacts, Goes, CallEnds, recVars, dccaVars, CallState
<1>1. CASE Stop(c)
  BY <1>1, CallPreserves DEF Stop
<1>2. CASE StopClose(c)
  <2>1. call' \in [Callers -> CallRecord]
    BY <1>2 DEF StopClose
  <2> QED
    BY <1>2, <2>1 DEF StopClose, IInv, TypeOK, Walks, RunOK, ActiveHasRun, ResumeInRange,
       fixedVars
<1>3. CASE StopCancel(c)
  BY <1>3 DEF StopCancel, IInv, TypeOK, Walks, RunOK, ActiveHasRun, ResumeInRange,
     fixedVars
<1>4. CASE StopMark(c)
  BY <1>4, CallPreserves DEF StopMark
<1> QED BY <1>1, <1>2, <1>3, <1>4

LEMMA InterruptSteps ==
  ASSUME IInv, NEW c \in Callers,
         Interrupt(c) \/ InterruptTest(c) \/ InterruptClose(c)
  PROVE  IInv'
<1>0. CallFacts(c) BY CallTypes
<1>r. call[c] \in CallRecord
  BY <1>0 DEF CallFacts
<1> USE <1>0, <1>r DEF CallFacts, Goes, CallEnds, recVars, dccaVars, CallState
<1>1. CASE Interrupt(c)
  BY <1>1, CallPreserves DEF Interrupt
<1>2. CASE InterruptTest(c)
  BY <1>2, CallPreserves DEF InterruptTest
<1>3. CASE InterruptClose(c)
  BY <1>3 DEF InterruptClose, IInv, TypeOK, Walks, RunOK, ActiveHasRun, ResumeInRange,
     fixedVars
<1> QED BY <1>1, <1>2, <1>3

(* RunToEnd reserves the goroutine in the step that makes the session              *)
(* active, and the goroutine runs only after it is started.                        *)
LEMMA ResumeSteps ==
  ASSUME IInv, NEW c \in Callers, RunToEnd(c) \/ RunToEndSpawn(c)
  PROVE  IInv'
<1>0. CallFacts(c) /\ call[c] \in CallRecord
  BY CallTypes DEF CallFacts
<1> USE <1>0 DEF CallFacts, CallEnds, recVars, dccaVars, CallState
<1>1. CASE RunToEnd(c)
  <2>1. runs + 1 \in Runs /\ runs + 1 \in 0..MaxRuns
    BY <1>1, ExecutionAssumption DEF RunToEnd, Runs, IInv, TypeOK
  <2>2. stepIdx \in 0..NSteps
    BY <1>1, ExecutionAssumption DEF RunToEnd
  <2> DEFINE b == [NoRun EXCEPT !.at = "reserved", !.from = stepIdx]
  <2>3. b \in RunRecord /\ b.at = "reserved"
    BY <2>2, NoRunTyped DEF RunRecord, RunState
  <2>4. run' = [run EXCEPT ![runs + 1] = b] /\ runs' = runs + 1
    BY <1>1 DEF RunToEnd
  <2> HIDE DEF b
  <2>5. [call[c] EXCEPT !.at = "resume", !.run = runs + 1] \in CallRecord
    BY <2>1 DEF CallRecord
  <2>6. call' \in [Callers -> CallRecord]
    BY <1>1, <2>5 DEF RunToEnd
  <2>7. TypeOK'
    BY <1>1, <2>1, <2>3, <2>4, <2>6 DEF RunToEnd, IInv, TypeOK, fixedVars
  <2>8. Walks'
    BY <2>3, <2>4 DEF IInv, TypeOK, Walks, RunOK
  <2>9. ActiveHasRun' /\ ResumeInRange'
    BY <1>1, <2>1, <2>3, <2>4 DEF RunToEnd, ActiveHasRun, ResumeInRange, IInv, TypeOK
  <2> QED BY <2>7, <2>8, <2>9 DEF IInv
<1>2. CASE RunToEndSpawn(c)
  <2> DEFINE q == call[c].run
  <2>1. run' = [run EXCEPT ![q].at = "spawned"] /\ UNCHANGED <<runs, state, stepIdx>>
    BY <1>2 DEF RunToEndSpawn
  <2>2. \A r \in Runs : run[r] \in RunRecord /\ RunOK(run[r])
    BY RunTypes
  <2>3. ASSUME NEW r \in Runs
        PROVE  /\ [run[r] EXCEPT !.at = "spawned"] \in RunRecord
               /\ [run[r] EXCEPT !.at = "spawned"].at = "spawned"
    <3>1. run[r] \in RunRecord BY <2>2
    <3> QED BY <3>1 DEF RunRecord, RunState
  <2>4. \A r \in Runs : \/ run'[r] = run[r]
                        \/ run'[r] = [run[r] EXCEPT !.at = "spawned"]
    BY <2>1 DEF IInv, TypeOK
  <2>5. run' \in [Runs -> RunRecord]
    BY <2>1, <2>2, <2>3, <2>4 DEF IInv, TypeOK
  <2>6. Walks' /\ ActiveHasRun' /\ ResumeInRange'
    BY <2>1, <2>2, <2>3, <2>4 DEF IInv, TypeOK, Walks, ActiveHasRun, ResumeInRange, RunOK
  <2>7. TypeOK'
    BY <1>2, <2>5 DEF RunToEndSpawn, IInv, TypeOK, fixedVars
  <2> QED BY <2>6, <2>7 DEF IInv
<1> QED BY <1>1, <1>2

-----------------------------------------------------------------------------
LEMMA Initial == Init => IInv
<1> SUFFICES ASSUME Init PROVE IInv
  OBVIOUS
<1> USE ExecutionAssumption
<1>1. NoRun \in RunRecord /\ RunOK(NoRun)
  BY NoRunTyped DEF RunOK, NoRun
<1>2. /\ [NoRun EXCEPT !.at = "spawned"] \in RunRecord
      /\ RunOK([NoRun EXCEPT !.at = "spawned"])
      /\ [NoRun EXCEPT !.at = "spawned"].at # "off"
  BY <1>1 DEF RunOK, RunRecord, RunState
<1>3. NoCall \in CallRecord
  BY DEF NoCall, CallRecord, CallState
<1>4. run \in [Runs -> RunRecord] /\ Walks
  BY <1>1, <1>2 DEF Init, Walks
<1>5. 1 \in Runs
  BY DEF Runs
<1>6. TypeOK
  <2>1. /\ runs = 1 /\ cancelOf = 1 /\ cancelled \subseteq {1} /\ interrupted = {}
        /\ repeats \in 0..MaxRepeats /\ stepIdx = 0 /\ ccrn = 0 /\ used = {}
        /\ mode \in {"interactive", "continuous"} /\ state \in {"active", "paused"}
        /\ overlap \in BOOLEAN /\ stopped = FALSE /\ history = <<>>
    BY DEF Init
  <2>2. call \in [Callers -> CallRecord]
    BY <1>3 DEF Init
  <2>3. history \in Seq(0..NSteps)
    BY <2>1
  <2>4. /\ stepIdx \in Nat /\ ccrn \in Nat /\ used \subseteq Nat
        /\ runs \in Runs /\ cancelOf \in Runs
        /\ interrupted \subseteq Runs /\ cancelled \subseteq Runs
    BY <1>5, <2>1
  <2>5. /\ overlap \in BOOLEAN /\ stopped \in BOOLEAN
        /\ state \in {"active", "paused", "completed", "terminated", "error"}
    BY <2>1
  <2> QED BY <1>4, <2>1, <2>2, <2>3, <2>4, <2>5 DEF TypeOK
<1>7. ActiveHasRun
  <2>1. CASE mode = "continuous"
    <3>1. runs = 1 /\ run[1] = [NoRun EXCEPT !.at = "spawned"]
      BY <1>5, <2>1 DEF Init
    <3> QED BY <1>2, <3>1 DEF ActiveHasRun
  <2>2. CASE mode # "continuous"
    BY <2>2 DEF Init, ActiveHasRun
  <2> QED BY <2>1, <2>2
<1>8. ResumeInRange
  BY DEF Init, ResumeInRange
<1> QED BY <1>4, <1>6, <1>7, <1>8 DEF IInv

LEMMA Inductive == IInv /\ [Next]_vars => IInv'
<1> SUFFICES ASSUME IInv, [Next]_vars PROVE IInv'
  OBVIOUS
<1>1. ASSUME NEW r \in Runs, RunProgress(r) \/ Answered(r) \/ SendFails(r)
      PROVE  IInv'
  BY <1>1, EngineStep, RunEndStep DEF RunProgress
<1>2. ASSUME NEW c \in Callers,
             \/ CallProgress(c) \/ StepAnswered(c) \/ StepSendFails(c)
             \/ StepBegin(c) \/ Skip(c) \/ Stop(c) \/ Interrupt(c) \/ RunToEnd(c)
      PROVE  IInv'
  BY <1>2, StepSteps, StopSteps, InterruptSteps, ResumeSteps DEF CallProgress
<1>3. CASE UNCHANGED vars
  BY <1>3 DEF vars, IInv, TypeOK, Walks, RunOK, ActiveHasRun, ResumeInRange
<1> QED BY <1>1, <1>2, <1>3 DEF Next

LEMMA Invariance == Spec => []IInv
BY Initial, Inductive, PTL DEF Spec

(* The types of the session record, of its goroutines and of the calls.            *)
THEOREM ExecutionTypes == Spec => []TypeOK
BY Invariance, PTL DEF IInv

(* No session is left active without a goroutine, however the calls overlap        *)
(* each other and the goroutines.                                                  *)
THEOREM NoStrandedSession == Spec => []ActiveHasRun
BY Invariance, PTL DEF IInv

(* RunToEnd never slices the steps of a session past their end.                    *)
THEOREM ResumeNeverPanics == Spec => []ResumeInRange
BY Invariance, PTL DEF IInv

-----------------------------------------------------------------------------
(* Calls made one after the other.  What follows holds while they do not           *)
(* overlap: a Step finds no goroutine, because the session is paused or            *)
(* interactive, and a resume starts one in a session that had none.                *)
InStep(c) == call[c].at \in {"step", "execute", "sending", "record", "finish"}

Off(r) == run[r].at = "off"

CallsInTurn ==
  /\ \A c, d \in Callers : ~At(c, "idle") /\ ~At(d, "idle") => c = d
  /\ \A c \in Callers : InStep(c) => \A r \in Runs : Off(r)
  /\ \A c \in Callers : At(c, "resume") =>
       call[c].run = runs /\ state = "active" /\ run[runs].at = "reserved"

RunsInTurn ==
  /\ \A r \in Runs : ~Off(r) => r = runs
  /\ \A r \in Runs : run[r].at = "reserved" => \E c \in Callers : At(c, "resume")
  /\ \A r \in Runs : Live(r) => state \in {"active", "terminated"}
  /\ mode = "interactive" => \A r \in Runs : Off(r)

(* A Step records the step it is at and moves past it afterwards.                  *)
Upto(n) == [i \in 1..n |-> i]

WalkInTurn ==
  mode = "interactive" =>
    /\ (\A c \in Callers : ~At(c, "finish")) => history = Upto(stepIdx)
    /\ \A c \in Callers :
         /\ At(c, "finish") => history = Upto(stepIdx + 1)
         /\ call[c].at \in {"execute", "sending", "record"} => call[c].idx = stepIdx + 1

(* The number to be sent next is new wherever the session can go on from: a        *)
(* number is spent by a request on its way, or by one whose failure ended it.      *)
Fresh == \A n \in used : n < ccrn

NumbersInTurn ==
  /\ \A n \in used : n <= ccrn
  /\ \A r \in Runs : run[r].at \notin {"off", "sending", "returned"} => Fresh
  /\ \A c \in Callers :
       At(c, "execute") \/ (call[c].at \in {"record", "finish"} /\ call[c].ok) => Fresh
  /\ state = "paused"
       /\ (\A c \in Callers : call[c].at \notin {"sending", "record", "finish"})
       => Fresh

InTurn == CallsInTurn /\ RunsInTurn /\ WalkInTurn /\ NumbersInTurn

TurnInv == ~overlap => InTurn

LEMMA TurnAfterEngine ==
  ASSUME IInv, InTurn, NEW r \in Runs, NEW b, Moves(r, b)
  PROVE  InTurn'
<1> USE DEF InTurn
<1>0. /\ UNCHANGED <<state, history, mode, runs, call>>
      /\ run[r].at \notin {"off", "reserved", "returned"}
      /\ run' = [run EXCEPT ![r] = b]
  BY DEF Moves, EngineOnly, fixedVars, signalVars, Becomes
<1>1. run'[r] = b /\ \A q \in Runs \ {r} : run'[q] = run[q]
  BY <1>0 DEF IInv, TypeOK
<1>2. r = runs /\ mode # "interactive" /\ Live(r)
  BY <1>0 DEF RunsInTurn, Off, Live
<1>3. \A c \in Callers : ~InStep(c) /\ ~At(c, "resume")
  BY <1>0, <1>2 DEF CallsInTurn, Off
<1>4. b.at \in Between \cup {"sending"}
  BY DEF Moves, Sends, Counts, Renews, KeepsNumbers
<1>5. CallsInTurn'
  BY <1>0, <1>3 DEF CallsInTurn, InStep, At
<1>6. RunsInTurn'
  BY <1>0, <1>1, <1>2, <1>4 DEF RunsInTurn, Off, Live, Between
<1>7. WalkInTurn'
  BY <1>0, <1>2 DEF WalkInTurn
<1>8. NumbersInTurn'
  <2>1. ccrn \in Nat /\ used \subseteq Nat
    BY DEF IInv, TypeOK
  <2>2. \A q \in Runs \ {r} : run'[q].at = "off"
    BY <1>1, <1>2 DEF RunsInTurn, Off
  <2>3. state' # "paused"
    BY <1>0, <1>2 DEF RunsInTurn
  <2>4. \A c \in Callers : call'[c].at \notin {"execute", "record", "finish"}
    BY <1>0, <1>3 DEF InStep
  <2>5. (\A n \in used' : n <= ccrn') /\ (b.at \in {"sending", "returned"} \/ Fresh')
    <3>1. CASE Sends(r, b)
      BY <2>1, <3>1 DEF Sends, NumbersInTurn
    <3>2. CASE Counts(r, b)
      <4>1. \A n \in used : n <= ccrn
        BY DEF NumbersInTurn
      <4>2. \A n \in used' : n < ccrn'
        BY <2>1, <3>2, <4>1 DEF Counts
      <4> QED BY <2>1, <3>2, <4>2 DEF Counts, Fresh
    <3>3. CASE Renews(b)
      BY <3>3 DEF Renews, Fresh
    <3>4. CASE KeepsNumbers(r, b)
      BY <1>0, <3>4 DEF KeepsNumbers, dccaVars, NumbersInTurn, Fresh
    <3> QED BY <3>1, <3>2, <3>3, <3>4 DEF Moves
  <2> QED BY <1>1, <2>2, <2>3, <2>4, <2>5 DEF NumbersInTurn, At
<1> QED BY <1>5, <1>6, <1>7, <1>8

(* The goroutine leaves a session that is over, or paused with a new               *)
(* Session-Id.                                                                     *)
LEMMA TurnAfterRunEnd ==
  ASSUME IInv, InTurn, NEW r \in Runs, RunEnd(r)
  PROVE  InTurn'
<1> USE DEF InTurn
<1>0. /\ UNCHANGED <<history, mode, runs, call>> /\ run[r].at = "returned"
      /\ run' = [run EXCEPT ![r] = NoRun]
  BY DEF RunEnd, fixedVars, signalVars, Becomes
<1>1. r = runs /\ mode # "interactive"
  BY <1>0 DEF RunsInTurn, Off
<1>2. \A q \in Runs : run'[q].at = "off"
  BY <1>0, <1>1 DEF IInv, TypeOK, RunsInTurn, Off, NoRun
<1>3. \A c \in Callers : ~InStep(c) /\ ~At(c, "resume")
  BY <1>0, <1>1 DEF CallsInTurn, Off
<1>4. CallsInTurn'
  BY <1>0, <1>3 DEF CallsInTurn, InStep, At
<1>5. RunsInTurn'
  BY <1>2 DEF RunsInTurn, Off, Live
<1>6. WalkInTurn'
  BY <1>0, <1>1 DEF WalkInTurn
<1>7. NumbersInTurn'
  <2>1. \A c \in Callers : call'[c].at \notin {"execute", "record", "finish"}
    BY <1>0, <1>3 DEF InStep
  <2>2. \/ used' = {}
        \/ used' = used /\ ccrn' = ccrn /\ state' # "paused"
    BY DEF RunEnd, dccaVars
  <2> QED BY <1>2, <2>1, <2>2 DEF NumbersInTurn, Fresh, At
<1> QED BY <1>4, <1>5, <1>6, <1>7

(* A caller finds every other one idle, and a paused session without a             *)
(* goroutine.                                                                      *)
LEMMA IdleAlone ==
  ASSUME IInv, InTurn, ~overlap, NEW c \in Callers, Idle(c)
  PROVE  /\ \A d \in Callers : call[d].at = "idle"
         /\ state = "paused" \/ mode = "interactive" => \A r \in Runs : Off(r)
         /\ state = "paused" => Fresh
<1>1. \A d \in Callers : call[d].at = "idle"
  BY DEF Idle, At
<1>2. \A r \in Runs : run[r].at # "reserved"
  BY <1>1 DEF InTurn, RunsInTurn, At
<1> QED BY <1>1, <1>2 DEF InTurn, RunsInTurn, NumbersInTurn, Off, Live

(* A call under way, the record it moves to, and the calls that stay idle.         *)
LEMMA OthersIdle ==
  ASSUME IInv, InTurn, NEW c \in Callers, ~At(c, "idle")
  PROVE  \A d \in Callers \ {c} : call[d].at = "idle"
BY DEF InTurn, CallsInTurn, At

(* A Step ends before it sends when nothing is left or the session is over, and    *)
(* else takes the step the session is at.                                          *)
LEMMA StepTakeNext ==
  ASSUME IInv, NEW c \in Callers, StepTake(c)
  PROVE  /\ call[c].at = "step" /\ UNCHANGED <<stepIdx, history, dccaVars>>
         /\ \/ call'[c].at = "idle" /\ (state' = "paused" => state = "paused")
            \/ /\ call'[c].at = "execute" /\ call'[c].idx = stepIdx + 1
               /\ state \in {"active", "paused"}
<1>0. call[c] \in CallRecord /\ call \in [Callers -> CallRecord]
  BY DEF IInv, TypeOK
<1>1. CASE state \notin {"active", "paused"} \/ stepIdx >= NSteps
  <2>1. call' = [call EXCEPT ![c] = NoCall]
    BY <1>1 DEF StepTake, CallEnds
  <2>2. call'[c].at = "idle"
    BY <1>0, <2>1 DEF NoCall
  <2> QED BY <2>2 DEF StepTake, At
<1>2. CASE ~(state \notin {"active", "paused"} \/ stepIdx >= NSteps)
  <2>1. call'[c] = [call[c] EXCEPT !.at = "execute", !.idx = stepIdx + 1]
    BY <1>0, <1>2 DEF StepTake
  <2>2. call'[c].at = "execute" /\ call'[c].idx = stepIdx + 1
    BY <1>0, <2>1 DEF CallRecord
  <2> QED BY <1>2, <2>2 DEF StepTake, At
<1> QED BY <1>1, <1>2

LEMMA StepExecuteNext ==
  ASSUME IInv, NEW c \in Callers, StepExecute(c)
  PROVE  /\ call[c].at = "execute" /\ UNCHANGED <<stepIdx, history>>
         /\ call'[c].idx = call[c].idx
         /\ \/ call'[c].at = "record" /\ UNCHANGED dccaVars
            \/ call'[c].at = "sending" /\ used' = used \cup {ccrn} /\ ccrn' = ccrn
<1>0. call[c] \in CallRecord /\ call \in [Callers -> CallRecord]
  BY DEF IInv, TypeOK
<1>1. \/ /\ \/ call'[c] = [call[c] EXCEPT !.at = "record"]
            \/ call'[c] = [call[c] EXCEPT !.at = "record", !.ok = FALSE]
         /\ UNCHANGED dccaVars
      \/ /\ call'[c] = [call[c] EXCEPT !.at = "sending"]
         /\ used' = used \cup {ccrn} /\ ccrn' = ccrn
  BY <1>0 DEF StepExecute, Goes
<1>2. \A at \in CallState :
        /\ [call[c] EXCEPT !.at = at].at = at
        /\ [call[c] EXCEPT !.at = at].idx = call[c].idx
  BY <1>0 DEF CallRecord
<1>3. /\ [call[c] EXCEPT !.at = "record", !.ok = FALSE].at = "record"
      /\ [call[c] EXCEPT !.at = "record", !.ok = FALSE].idx = call[c].idx
  BY <1>0 DEF CallRecord
<1>4. "record" \in CallState /\ "sending" \in CallState
  BY DEF CallState
<1> QED BY <1>1, <1>2, <1>3, <1>4 DEF StepExecute, At, recVars

LEMMA StepSendFailsNext ==
  ASSUME IInv, NEW c \in Callers, StepSendFails(c)
  PROVE  /\ call[c].at = "sending" /\ UNCHANGED <<stepIdx, history, dccaVars>>
         /\ call'[c].at = "record" /\ call'[c].ok = FALSE /\ call'[c].idx = call[c].idx
<1>0. call[c] \in CallRecord /\ call \in [Callers -> CallRecord]
  BY DEF IInv, TypeOK
<1>1. call'[c] = [call[c] EXCEPT !.at = "record", !.ok = FALSE]
  BY <1>0 DEF StepSendFails
<1>2. call'[c].at = "record" /\ call'[c].ok = FALSE /\ call'[c].idx = call[c].idx
  BY <1>0, <1>1 DEF CallRecord
<1> QED BY <1>2 DEF StepSendFails, At, recVars

LEMMA TurnAfterStep ==
  ASSUME IInv, InTurn, ~overlap, NEW c \in Callers,
         \/ StepBegin(c) \/ StepTake(c) \/ StepExecute(c) \/ StepAnswered(c)
         \/ StepSendFails(c) \/ StepRecord(c) \/ StepFinish(c)
  PROVE  InTurn'
<1> USE DEF InTurn
<1>0. UNCHANGED <<mode, runs, run>>
  BY DEF StepBegin, StepTake, StepExecute, StepAnswered, StepSendFails, StepRecord,
     StepFinish, fixedVars, signalVars
<1>1. /\ \A d \in Callers \ {c} : call[d].at = "idle"
      /\ \A r \in Runs : Off(r)
  <2>1. CASE StepBegin(c)
    BY <2>1, IdleAlone DEF StepBegin
  <2>2. CASE ~StepBegin(c)
    <3>1. InStep(c) /\ ~At(c, "idle")
      BY <2>2 DEF StepTake, StepExecute, StepAnswered, StepSendFails, StepRecord,
         StepFinish, InStep, At
    <3> QED BY <3>1, OthersIdle DEF CallsInTurn
  <2> QED BY <2>1, <2>2
<1>2. \A r \in Runs : run'[r].at = "off"
  BY <1>0, <1>1 DEF Off
<1>3. PICK v \in CallRecord : call' = [call EXCEPT ![c] = v]
  <2>1. call' \in [Callers -> CallRecord]
    BY StepSteps DEF IInv, TypeOK
  <2>2. \E v : call' = [call EXCEPT ![c] = v]
    BY DEF StepBegin, StepTake, StepExecute, StepAnswered, StepSendFails, StepRecord,
       StepFinish, Goes, CallEnds
  <2> QED BY <2>1, <2>2 DEF IInv, TypeOK
<1>4. call'[c] = v /\ \A d \in Callers \ {c} : call'[d] = call[d]
  BY <1>3 DEF IInv, TypeOK
<1>5. v.at # "resume"
  <2>1. CASE StepTake(c)
    BY <1>4, <2>1, StepTakeNext
  <2>2. CASE StepExecute(c)
    BY <1>4, <2>2, StepExecuteNext
  <2>3. CASE StepBegin(c) \/ StepAnswered(c) \/ StepRecord(c)
    BY <1>4, <2>3 DEF StepBegin, StepAnswered, StepRecord, Goes, IInv, TypeOK, CallRecord
  <2>5. CASE StepSendFails(c)
    BY <1>4, <2>5, StepSendFailsNext
  <2>4. CASE StepFinish(c)
    BY <1>4, <2>4 DEF StepFinish, CallEnds, NoCall, IInv, TypeOK
  <2> QED BY <2>1, <2>2, <2>3, <2>4, <2>5
<1>6. CallsInTurn'
  BY <1>1, <1>2, <1>4, <1>5 DEF CallsInTurn, InStep, At, Off
<1>7. RunsInTurn'
  BY <1>2 DEF RunsInTurn, Off, Live
<1>t. stepIdx \in Nat /\ ccrn \in Nat /\ used \subseteq Nat /\ call[c] \in CallRecord
  BY DEF IInv, TypeOK
<1>8. WalkInTurn'
  <2> SUFFICES ASSUME mode = "interactive" PROVE WalkInTurn'
    BY <1>0 DEF WalkInTurn
  <2>1. CASE StepBegin(c)
    <3>1. v.at = "step" /\ call[c].at = "idle" /\ history' = history /\ stepIdx' = stepIdx
      BY <1>4, <1>t, <2>1 DEF StepBegin, Goes, Idle, At, recVars, IInv, TypeOK, CallRecord
    <3> QED BY <1>1, <1>4, <3>1 DEF WalkInTurn, At
  <2>2. CASE StepTake(c)
    <3>1. /\ call[c].at = "step" /\ history' = history /\ stepIdx' = stepIdx
          /\ v.at = "idle" \/ (v.at = "execute" /\ v.idx = stepIdx + 1)
      BY <1>4, <2>2, StepTakeNext
    <3> QED BY <1>1, <1>4, <3>1 DEF WalkInTurn, At
  <2>3. CASE StepExecute(c) \/ StepAnswered(c) \/ StepSendFails(c)
    <3>1. /\ call[c].at \in {"execute", "sending"} /\ history' = history
          /\ stepIdx' = stepIdx /\ v.at \in {"sending", "record"} /\ v.idx = call[c].idx
      <4>1. CASE StepExecute(c)
        BY <1>4, <4>1, StepExecuteNext
      <4>2. CASE StepAnswered(c)
        BY <1>4, <1>t, <4>2 DEF StepAnswered, Goes, At, recVars, IInv, TypeOK, CallRecord
      <4>3. CASE StepSendFails(c)
        BY <1>4, <4>3, StepSendFailsNext
      <4> QED BY <2>3, <4>1, <4>2, <4>3
    <3> QED BY <1>1, <1>4, <3>1 DEF WalkInTurn, At
  <2>4. CASE StepRecord(c)
    <3>1. /\ call[c].at = "record" /\ v.at = "finish" /\ stepIdx' = stepIdx
          /\ history' = Append(history, call[c].idx)
      BY <1>4, <1>t, <2>4 DEF StepRecord, Goes, At, IInv, TypeOK, CallRecord
    <3>2. history = Upto(stepIdx) /\ call[c].idx = stepIdx + 1
      BY <1>1, <3>1 DEF WalkInTurn, At
    <3>3. Append(Upto(stepIdx), stepIdx + 1) = Upto(stepIdx + 1)
      BY <1>t DEF Upto
    <3> QED BY <1>1, <1>4, <3>1, <3>2, <3>3 DEF WalkInTurn, At
  <2>5. CASE StepFinish(c)
    <3>1. /\ call[c].at = "finish" /\ v.at = "idle" /\ stepIdx' = stepIdx + 1
          /\ history' = history
      BY <1>4, <1>t, <2>5 DEF StepFinish, CallEnds, NoCall, At, IInv, TypeOK, CallRecord
    <3> QED BY <1>1, <1>4, <3>1 DEF WalkInTurn, At
  <2> QED BY <2>1, <2>2, <2>3, <2>4, <2>5
<1>9. NumbersInTurn'
  <2> SUFFICES /\ \A n \in used' : n <= ccrn'
               /\ v.at = "execute" \/ (v.at \in {"record", "finish"} /\ v.ok) => Fresh'
               /\ state' = "paused" /\ v.at \notin {"sending", "record", "finish"} => Fresh'
    BY <1>1, <1>2, <1>4 DEF NumbersInTurn, At
  <2>0. ASSUME UNCHANGED dccaVars
        PROVE  (\A n \in used' : n <= ccrn') /\ (Fresh => Fresh')
    BY <2>0 DEF dccaVars, Fresh, NumbersInTurn
  <2>1. CASE StepBegin(c)
    <3>1. v.at = "step" /\ state' = state /\ UNCHANGED dccaVars
      BY <1>4, <1>t, <2>1 DEF StepBegin, Goes, recVars, IInv, TypeOK, CallRecord
    <3>2. state = "paused" => Fresh
      BY <2>1, IdleAlone DEF StepBegin
    <3> QED BY <2>0, <3>1, <3>2
  <2>2. CASE StepTake(c)
    <3>1. /\ call[c].at = "step" /\ UNCHANGED dccaVars
          /\ \/ v.at = "idle" /\ (state' = "paused" => state = "paused")
             \/ v.at = "execute" /\ state \in {"active", "paused"}
      BY <1>4, <2>2, StepTakeNext
    <3>2. state # "active"
      BY <1>1 DEF IInv, TypeOK, ActiveHasRun, Off
    <3>3. state = "paused" => Fresh
      BY <1>1, <3>1 DEF NumbersInTurn
    <3> QED BY <2>0, <3>1, <3>2, <3>3
  <2>3. CASE StepExecute(c)
    <3>1. call[c].at = "execute" /\ Fresh
      BY <2>3 DEF StepExecute, At, NumbersInTurn
    <3>2. CASE UNCHANGED dccaVars
      BY <2>0, <3>1, <3>2
    <3>3. CASE v.at = "sending" /\ used' = used \cup {ccrn} /\ ccrn' = ccrn
      <4>1. \A n \in used : n <= ccrn
        BY DEF NumbersInTurn
      <4>2. \A n \in used' : n <= ccrn'
        BY <1>t, <3>3, <4>1
      <4> QED BY <3>3, <4>2
    <3> QED BY <1>4, <2>3, <3>2, <3>3, StepExecuteNext
  <2>4. CASE StepAnswered(c)
    <3>1. ccrn' = ccrn + 1 /\ used' = used
      BY <2>4 DEF StepAnswered
    <3>2. \A n \in used : n <= ccrn
      BY DEF NumbersInTurn
    <3>3. \A n \in used' : n < ccrn' /\ n <= ccrn'
      BY <1>t, <3>1, <3>2
    <3> QED BY <3>3 DEF Fresh
  <2>5. CASE StepSendFails(c)
    <3>1. v.at = "record" /\ v.ok = FALSE /\ UNCHANGED dccaVars
      BY <1>4, <2>5, StepSendFailsNext
    <3> QED BY <2>0, <3>1
  <2>6. CASE StepRecord(c)
    <3>1. call[c].at = "record" /\ v.at = "finish" /\ v.ok = call[c].ok /\ UNCHANGED dccaVars
      BY <1>4, <1>t, <2>6 DEF StepRecord, Goes, At, IInv, TypeOK, CallRecord
    <3> QED BY <2>0, <3>1 DEF NumbersInTurn
  <2>7. CASE StepFinish(c)
    <3>1. /\ call[c].at = "finish" /\ v.at = "idle" /\ UNCHANGED dccaVars
          /\ state' = "paused" => call[c].ok
      BY <1>4, <1>t, <2>7 DEF StepFinish, CallEnds, NoCall, At, IInv, TypeOK, CallRecord
    <3> QED BY <2>0, <3>1 DEF NumbersInTurn
  <2> QED BY <2>1, <2>2, <2>3, <2>4, <2>5, <2>6, <2>7
<1> QED BY <1>6, <1>7, <1>8, <1>9

LEMMA TurnAfterSkip ==
  ASSUME IInv, InTurn, ~overlap, NEW c \in Callers, Skip(c)
  PROVE  InTurn'
<1> USE DEF InTurn
<1>0. /\ UNCHANGED <<mode, runs, run, call, dccaVars>> /\ stepIdx' = stepIdx + 1
      /\ history' = IF mode = "interactive" THEN Append(history, stepIdx + 1) ELSE history
      /\ state = "paused"
  BY DEF Skip, fixedVars, signalVars
<1>1. /\ \A d \in Callers : call[d].at = "idle"
      /\ \A r \in Runs : run[r].at = "off"
      /\ Fresh
  BY <1>0, IdleAlone DEF Skip, Off
<1>2. CallsInTurn' /\ RunsInTurn'
  BY <1>0, <1>1 DEF CallsInTurn, RunsInTurn, InStep, At, Off, Live
<1>3. WalkInTurn'
  <2>1. stepIdx \in Nat
    BY DEF IInv, TypeOK
  <2>2. Append(Upto(stepIdx), stepIdx + 1) = Upto(stepIdx + 1)
    BY <2>1 DEF Upto
  <2> QED BY <1>0, <1>1, <2>2 DEF WalkInTurn, At
<1>4. NumbersInTurn'
  BY <1>0, <1>1 DEF NumbersInTurn, dccaVars, Fresh
<1> QED BY <1>2, <1>3, <1>4

(* Stop and Interrupt change neither the goroutines nor the numbers.               *)
LEMMA TurnAfterSignal ==
  ASSUME IInv, InTurn, ~overlap, NEW c \in Callers,
         \/ Stop(c) \/ StopClose(c) \/ StopCancel(c) \/ StopMark(c)
         \/ Interrupt(c) \/ InterruptTest(c) \/ InterruptClose(c)
  PROVE  InTurn'
<1> USE DEF InTurn
<1>0. UNCHANGED <<mode, runs, run, stepIdx, history, dccaVars>>
  BY DEF Stop, StopClose, StopCancel, StopMark, Interrupt, InterruptTest,
     InterruptClose, fixedVars, recVars, signalVars
<1>1. \A d \in Callers \ {c} : call[d].at = "idle"
  <2>1. Idle(c) \/ ~At(c, "idle")
    BY DEF Stop, StopClose, StopCancel, StopMark, Interrupt, InterruptTest,
       InterruptClose, At
  <2> QED BY <2>1, IdleAlone, OthersIdle
<1>2. call[c].at \notin {"step", "execute", "sending", "record", "finish", "resume"}
  BY DEF Stop, StopClose, StopCancel, StopMark, Interrupt, InterruptTest,
     InterruptClose, At, Idle
<1>3. /\ call'[c].at \notin {"step", "execute", "sending", "record", "finish", "resume"}
      /\ \A d \in Callers \ {c} : call'[d] = call[d]
  BY DEF Stop, StopClose, StopCancel, StopMark, Interrupt, InterruptTest,
     InterruptClose, Goes, CallEnds, NoCall, IInv, TypeOK, CallRecord
<1>4. state' = state \/ state' = "terminated"
  BY DEF Stop, StopClose, StopCancel, StopMark, Interrupt, InterruptTest,
     InterruptClose, recVars
<1>5. CallsInTurn'
  BY <1>1, <1>3 DEF CallsInTurn, InStep, At
<1>6. RunsInTurn'
  BY <1>0, <1>1, <1>2, <1>4 DEF RunsInTurn, At, Off, Live
<1>7. WalkInTurn'
  BY <1>0, <1>1, <1>2, <1>3 DEF WalkInTurn, At
<1>8. NumbersInTurn'
  BY <1>0, <1>1, <1>2, <1>3, <1>4 DEF NumbersInTurn, At, dccaVars, Fresh
<1> QED BY <1>5, <1>6, <1>7, <1>8

LEMMA TurnAfterResume ==
  ASSUME IInv, InTurn, ~overlap, NEW c \in Callers, RunToEnd(c) \/ RunToEndSpawn(c)
  PROVE  InTurn'
<1> USE DEF InTurn
<1>0. UNCHANGED <<mode, stepIdx, history, dccaVars>> /\ runs \in Runs
  BY DEF RunToEnd, RunToEndSpawn, fixedVars, recVars, IInv, TypeOK
<1>1. CASE RunToEnd(c)
  <2>1. /\ \A d \in Callers : call[d].at = "idle"
        /\ \A r \in Runs : run[r].at = "off"
        /\ Fresh /\ mode = "continuous"
    BY <1>1, IdleAlone DEF RunToEnd, Off
  <2>2. runs + 1 \in Runs /\ runs' = runs + 1 /\ state' = "active"
    BY <1>1, ExecutionAssumption DEF RunToEnd, Runs, IInv, TypeOK
  <2>3. /\ call'[c].at = "resume" /\ call'[c].run = runs'
        /\ \A d \in Callers \ {c} : call'[d] = call[d]
    BY <1>1 DEF RunToEnd, IInv, TypeOK, CallRecord
  <2>4. /\ run'[runs'].at = "reserved"
        /\ \A r \in Runs : r # runs' => run'[r].at = "off"
    BY <1>1, <2>1, <2>2 DEF RunToEnd, IInv, TypeOK, NoRun
  <2>5. CallsInTurn'
    BY <2>1, <2>2, <2>3, <2>4 DEF CallsInTurn, InStep, At
  <2>6. RunsInTurn'
    BY <1>0, <2>1, <2>2, <2>3, <2>4 DEF RunsInTurn, At, Off, Live
  <2>7. WalkInTurn'
    BY <1>0, <2>1 DEF WalkInTurn
  <2>8. NumbersInTurn'
    BY <1>0, <2>1 DEF NumbersInTurn, dccaVars, Fresh
  <2> QED BY <2>5, <2>6, <2>7, <2>8
<1>2. CASE RunToEndSpawn(c)
  <2>1. /\ call[c].run = runs /\ state = "active" /\ run[runs].at = "reserved"
        /\ \A d \in Callers \ {c} : call[d].at = "idle"
    BY <1>2, OthersIdle DEF RunToEndSpawn, CallsInTurn, At
  <2>2. runs' = runs /\ state' = state
    BY <1>2 DEF RunToEndSpawn, recVars
  <2>3. call'[c].at = "idle" /\ \A d \in Callers \ {c} : call'[d] = call[d]
    BY <1>2 DEF RunToEndSpawn, CallEnds, NoCall, IInv, TypeOK
  <2>4. run'[runs].at = "spawned" /\ \A r \in Runs : r # runs => run'[r] = run[r]
    BY <1>0, <1>2, <2>1 DEF RunToEndSpawn, IInv, TypeOK, RunRecord
  <2>5. Fresh /\ mode # "interactive"
    BY <1>0, <2>1 DEF NumbersInTurn, RunsInTurn, Off
  <2>6. CallsInTurn'
    BY <2>1, <2>3 DEF CallsInTurn, InStep, At
  <2>7. RunsInTurn'
    BY <1>0, <2>1, <2>2, <2>4, <2>5 DEF RunsInTurn, At, Off, Live
  <2>8. WalkInTurn'
    BY <1>0, <2>5 DEF WalkInTurn
  <2>9. NumbersInTurn'
    BY <1>0, <2>5 DEF NumbersInTurn, dccaVars, Fresh
  <2> QED BY <2>6, <2>7, <2>8, <2>9
<1> QED BY <1>1, <1>2

LEMMA TurnInitial == Init => TurnInv
<1> SUFFICES ASSUME Init PROVE InTurn
  BY DEF TurnInv
<1>1. \A c \in Callers : call[c].at = "idle"
  BY DEF Init, NoCall
<1>2. /\ used = {} /\ history = <<>> /\ stepIdx = 0 /\ runs = 1 /\ 1 \in Runs
      /\ mode \in {"continuous", "interactive"}
      /\ mode = "continuous" => state = "active"
  BY ExecutionAssumption DEF Init, Runs
<1>3. CASE mode = "continuous"
  <2>1. run[1].at = "spawned" /\ \A r \in Runs : r # 1 => run[r].at = "off"
    <3>1. run = [r \in Runs |-> IF r = 1 THEN [NoRun EXCEPT !.at = "spawned"] ELSE NoRun]
      BY <1>3 DEF Init
    <3> QED BY <1>2, <3>1 DEF NoRun
  <2>2. state = "active"
    BY <1>2, <1>3
  <2>3. CallsInTurn /\ RunsInTurn
    BY <1>1, <1>2, <1>3, <2>1, <2>2 DEF CallsInTurn, RunsInTurn, InStep, At, Off, Live
  <2> QED BY <1>2, <1>3, <2>3 DEF InTurn, WalkInTurn, NumbersInTurn, Fresh
<1>4. CASE mode = "interactive"
  <2>1. \A r \in Runs : run[r].at = "off"
    BY <1>4 DEF Init, NoRun
  <2>2. CallsInTurn /\ RunsInTurn
    BY <1>1, <2>1 DEF CallsInTurn, RunsInTurn, InStep, At, Off, Live
  <2>3. Upto(0) = <<>>
    BY DEF Upto
  <2> QED BY <1>1, <1>2, <2>2, <2>3 DEF InTurn, WalkInTurn, NumbersInTurn, Fresh, At
<1> QED BY <1>2, <1>3, <1>4

LEMMA TurnInductive == IInv /\ TurnInv /\ [Next]_vars => TurnInv'
<1> SUFFICES ASSUME IInv, TurnInv, [Next]_vars, ~overlap' PROVE InTurn'
  BY DEF TurnInv
<1>1. ASSUME NEW r \in Runs, RunProgress(r) \/ Answered(r) \/ SendFails(r)
      PROVE  InTurn'
  <2>1. CASE RunEnd(r)
    <3>1. ~overlap
      BY <2>1 DEF RunEnd, fixedVars
    <3> QED BY <2>1, <3>1, TurnAfterRunEnd DEF TurnInv
  <2>2. CASE ~RunEnd(r)
    <3>1. PICK b : Moves(r, b)
      BY <1>1, <2>2, EngineMoves DEF RunProgress
    <3>2. ~overlap
      BY <3>1 DEF Moves, EngineOnly, fixedVars
    <3> QED BY <3>1, <3>2, TurnAfterEngine DEF TurnInv
  <2> QED BY <2>1, <2>2
<1>2. ASSUME NEW c \in Callers,
             \/ CallProgress(c) \/ StepAnswered(c) \/ StepSendFails(c)
             \/ StepBegin(c) \/ Skip(c) \/ Stop(c) \/ Interrupt(c) \/ RunToEnd(c)
      PROVE  InTurn'
  <2>1. ~overlap
    BY <1>2 DEF CallProgress, StepTake, StepExecute, StepRecord, StepFinish, StopClose,
       StopCancel, StopMark, InterruptTest, InterruptClose, RunToEndSpawn, StepAnswered,
       StepSendFails, StepBegin, Skip, Stop, Interrupt, RunToEnd, fixedVars
  <2> QED
    BY <1>2, <2>1, TurnAfterStep, TurnAfterSkip, TurnAfterSignal, TurnAfterResume
       DEF TurnInv, CallProgress
<1>3. CASE UNCHANGED vars
  BY <1>3 DEF vars, TurnInv, InTurn, CallsInTurn, RunsInTurn, WalkInTurn, NumbersInTurn,
     InStep, Off, At, Live, Fresh
<1> QED BY <1>1, <1>2, <1>3 DEF Next

LEMMA TurnInvariance == Spec => []TurnInv
BY Initial, Inductive, TurnInitial, TurnInductive, PTL DEF Spec

(* A session that says it is paused, completed or in error has no goroutine        *)
(* left, when calls are made one after the other.                                  *)
THEOREM QuietSessionHasNoRun == Spec => []QuietUnlessActive
<1>1. TurnInv => QuietUnlessActive
  BY DEF TurnInv, InTurn, RunsInTurn, QuietUnlessActive
<1> QED BY <1>1, TurnInvariance, PTL

(* One request at a time is on its way for a session: a Step never sends next      *)
(* to a goroutine.                                                                 *)
THEOREM OneSenderInTurn == Spec => []SingleThreadedInTurn
<1>1. TurnInv => SingleThreadedInTurn
  <2> SUFFICES ASSUME InTurn PROVE Cardinality(Sending) <= 1
    BY DEF TurnInv, SingleThreadedInTurn
  <2>1. \A c, d \in Callers : At(c, "sending") /\ At(d, "sending") => c = d
    BY DEF InTurn, CallsInTurn, At
  <2>2. \A r, q \in Runs : run[r].at = "sending" /\ run[q].at = "sending" => r = q
    BY DEF InTurn, RunsInTurn, Off
  <2>3. \A c \in Callers, r \in Runs : ~(At(c, "sending") /\ run[r].at = "sending")
    BY DEF InTurn, CallsInTurn, InStep, At, Off
  <2>4. \A x, y \in Sending : x = y
    BY <2>1, <2>2, <2>3 DEF Sending
  <2>5. CASE Sending = {}
    BY <2>5, FS_EmptySet
  <2>6. CASE Sending # {}
    <3>1. PICK x : Sending = {x}
      BY <2>4, <2>6
    <3> QED BY <3>1, FS_Singleton
  <2> QED BY <2>5, <2>6
<1> QED BY <1>1, TurnInvariance, PTL

(* The history of an interactive session is its walk, whatever is skipped,         *)
(* fails or is terminated on the way.                                              *)
THEOREM HistoryIsComplete == Spec => []HistoryIsTheWalk
<1>1. TurnInv => HistoryIsTheWalk
  BY DEF TurnInv, InTurn, WalkInTurn, HistoryIsTheWalk, Upto
<1> QED BY <1>1, TurnInvariance, PTL

(* Who comes to send holds a number that was not sent under the Session-Id.        *)
LEMMA SendersAreFresh ==
  ASSUME IInv, InTurn, [Next]_vars, ~(Sending' \subseteq Sending)
  PROVE  ccrn \notin used
<1>0. ccrn \in Nat
  BY DEF IInv, TypeOK
<1>1. SUFFICES Fresh
  BY <1>0, <1>1 DEF Fresh
<1>2. CASE \E r \in Runs : run'[r].at = "sending" /\ run[r].at # "sending"
  <2>1. PICK r \in Runs : run'[r].at = "sending" /\ run[r].at # "sending"
    BY <1>2
  <2>2. run[r].at = "execute"
    <3>1. ASSUME NEW q \in Runs, RunProgress(q) \/ Answered(q) \/ SendFails(q)
          PROVE  run[r].at = "execute"
      <4>1. CASE RunEnd(q)
        BY <2>1, <4>1 DEF RunEnd, Becomes, NoRun, IInv, TypeOK
      <4>2. CASE ~RunEnd(q)
        <5>1. PICK b : Moves(q, b)
          BY <3>1, <4>2, EngineMoves DEF RunProgress
        <5>2. q = r /\ b.at = "sending"
          BY <2>1, <5>1 DEF Moves, Becomes, IInv, TypeOK
        <5> QED
          BY <5>1, <5>2 DEF Moves, Sends, Counts, Renews, KeepsNumbers, Between
      <4> QED BY <4>1, <4>2
    <3>2. ASSUME NEW c \in Callers, RunToEnd(c) \/ RunToEndSpawn(c)
          PROVE  FALSE
      <4>1. CASE RunToEnd(c)
        BY <2>1, <4>1 DEF RunToEnd, NoRun, IInv, TypeOK
      <4>2. CASE RunToEndSpawn(c)
        BY <2>1, <4>2 DEF RunToEndSpawn, IInv, TypeOK, RunRecord
      <4> QED BY <3>2, <4>1, <4>2
    <3>3. ASSUME UNCHANGED run PROVE FALSE
      BY <2>1, <3>3
    <3>4. ASSUME NEW c \in Callers,
                 \/ StepTake(c) \/ StepExecute(c) \/ StepRecord(c) \/ StepFinish(c)
                 \/ StopClose(c) \/ StopCancel(c) \/ StopMark(c) \/ InterruptTest(c)
                 \/ InterruptClose(c) \/ StepAnswered(c) \/ StepSendFails(c)
                 \/ StepBegin(c) \/ Skip(c) \/ Stop(c) \/ Interrupt(c)
          PROVE  UNCHANGED run
      BY <3>4 DEF StepTake, StepExecute, StepRecord, StepFinish, StopClose, StopCancel,
         StopMark, InterruptTest, InterruptClose, StepAnswered, StepSendFails, StepBegin,
         Skip, Stop, Interrupt
    <3> QED BY <3>1, <3>2, <3>3, <3>4 DEF Next, CallProgress, vars
  <2> QED BY <2>1, <2>2 DEF InTurn, NumbersInTurn
<1>3. CASE \E c \in Callers : call'[c].at = "sending" /\ call[c].at # "sending"
  <2>1. PICK c \in Callers : call'[c].at = "sending" /\ call[c].at # "sending"
    BY <1>3
  <2>2. ASSUME UNCHANGED call PROVE FALSE
    BY <2>1, <2>2
  <2>3. ASSUME NEW r \in Runs, RunProgress(r) \/ Answered(r) \/ SendFails(r)
        PROVE  UNCHANGED call
    BY <2>3 DEF RunProgress, Answered, SendFails, RunStart, PassCheck, StepCheck, Check,
       Delay, GotoDelay, Execute, SendCancelled, PassEnd, RunEnd, EngineOnly
  <2>4. ASSUME NEW d \in Callers,
               \/ StepBegin(d) \/ StepAnswered(d) \/ StepRecord(d) \/ StepFinish(d)
               \/ Skip(d) \/ Stop(d) \/ StopClose(d) \/ StopCancel(d) \/ StopMark(d)
               \/ Interrupt(d) \/ InterruptTest(d) \/ InterruptClose(d)
               \/ RunToEndSpawn(d)
        PROVE  FALSE
    <3>1. \/ UNCHANGED call \/ CallEnds(d)
          \/ \E at \in CallState \ {"sending"} : Goes(d, at)
      BY <2>4 DEF StepBegin, StepAnswered, StepRecord, StepFinish, Skip, Stop,
         StopClose, StopCancel, StopMark, Interrupt, InterruptTest, InterruptClose,
         RunToEndSpawn, CallState
    <3>2. call \in [Callers -> CallRecord]
      BY DEF IInv, TypeOK
    <3>3. CASE CallEnds(d)
      BY <2>1, <3>2, <3>3 DEF CallEnds, NoCall
    <3>4. CASE \E at \in CallState \ {"sending"} : Goes(d, at)
      BY <2>1, <3>2, <3>4 DEF Goes, CallRecord
    <3> QED BY <2>2, <3>1, <3>3, <3>4
  <2>5. ASSUME NEW d \in Callers, RunToEnd(d) PROVE FALSE
    BY <2>1, <2>5 DEF RunToEnd, IInv, TypeOK, CallRecord
  <2>6. ASSUME NEW d \in Callers, StepTake(d) \/ StepSendFails(d) PROVE FALSE
    <3>1. \A e \in Callers \ {d} : call'[e] = call[e]
      BY <2>6 DEF StepTake, StepSendFails, CallEnds, IInv, TypeOK
    <3> QED BY <2>1, <2>6, <3>1, StepTakeNext, StepSendFailsNext
  <2>7. ASSUME NEW d \in Callers, StepExecute(d) PROVE Fresh
    BY <2>7, StepExecuteNext DEF InTurn, NumbersInTurn, At
  <2> QED
    BY <2>2, <2>3, <2>4, <2>5, <2>6, <2>7 DEF Next, CallProgress, vars
<1> QED BY <1>2, <1>3 DEF Sending, At

(* No CC-Request-Number is sent twice under one Session-Id, when calls are         *)
(* made one after the other: not by a retry, a resume, or a new iteration.         *)
THEOREM NumbersAreFresh == Spec => NoNumberReused
<1>1. IInv /\ TurnInv /\ [Next]_vars =>
        [~overlap /\ ~(Sending' \subseteq Sending) => ccrn \notin used]_vars
  BY SendersAreFresh DEF TurnInv
<1> QED BY <1>1, Invariance, TurnInvariance, PTL DEF Spec, NoNumberReused
=============================================================================
