------------------------------ MODULE Execution ------------------------------
(***********************************************************************************)
(* One execution: the sessionRecord of api.SessionManager                          *)
(* (internal/api/session_manager.go), the goroutines of runContinuous that         *)
(* walk its steps (internal/engine/orchestrator.go), the step executor             *)
(* they and Step share (internal/engine/step_executor.go), and the calls           *)
(* of the API that stop, interrupt, resume, step and skip.                         *)
(*                                                                                 *)
(* A CCR is reduced to its CC-Request-Number and a CCA to the action the           *)
(* step executor derives from it.  Variables, assertions, metrics, events          *)
(* and the history of continuous sessions are left out.  The lists of              *)
(* repeats, delays, guards and handlers of a scenario are left open: every         *)
(* choice a scenario could make is allowed.                                        *)
(***********************************************************************************)
EXTENDS Naturals, Sequences, FiniteSets

CONSTANTS
  Callers,     \* API callers
  NSteps,      \* steps of the scenario
  MaxRuns,     \* bound on the goroutines started for the session
  MaxRepeats,  \* bound on the iteration limit of a session (0: no limit)
  MaxRounds    \* bound on the rounds of a repeated step

ASSUME ExecutionAssumption ==
  /\ NSteps \in Nat \ {0}
  /\ MaxRuns \in Nat \ {0}
  /\ MaxRepeats \in Nat
  /\ MaxRounds \in Nat \ {0}

VARIABLES
  overlap,     \* whether API calls may overlap in this behaviour
  mode,        \* rec.mode
  repeats,     \* rec.repeats
  state,       \* rec.state
  stepIdx,     \* rec.stepIdx: the number of steps behind us
  history,     \* indices of the steps in rec.stepHistory (interactive mode)
  stopped,     \* rec.stopCh is closed
  interrupted, \* the interrupt channels that are closed
  runs,        \* runs so far; rec.interruptCh is the channel of the last one
  cancelOf,    \* the run whose context rec.cancel cancels
  cancelled,   \* runs whose context is cancelled
  run,         \* each runContinuous goroutine
  call,        \* each API caller
  ccrn,        \* sc.CCRequestNumber
  used         \* numbers sent under the present sc.SessionID

vars == <<overlap, mode, repeats, state, stepIdx, history, stopped, interrupted,
          runs, cancelOf, cancelled, run, call, ccrn, used>>
fixedVars == <<overlap, mode, repeats>>
recVars == <<state, stepIdx, history>>
signalVars == <<stopped, interrupted, runs, cancelOf, cancelled>>
dccaVars == <<ccrn, used>>

Runs == 1..MaxRuns
RunState == {"off", "reserved", "spawned", "pass", "step", "delay", "gotoDelay",
             "execute", "sending", "passEnd", "returned"}
CallState == {"idle", "step", "execute", "sending", "record", "finish", "close",
              "cancel", "mark", "interrupt", "closeInterrupt", "resume"}

RunRecord ==
  [at : RunState, from : 0..NSteps, idx : 1..NSteps, ch : 0..MaxRuns,
   prev : BOOLEAN, tries : {0, 1}, round : 1..MaxRounds, jump : BOOLEAN,
   passes : 0..MaxRepeats,
   out : {"none", "completed", "interrupted", "cancelled", "error"}]
CallRecord ==
  [at : CallState, idx : 0..NSteps, run : 0..MaxRuns, ok : BOOLEAN]

NoRun == [at |-> "off", from |-> 0, idx |-> 1, ch |-> 0, prev |-> FALSE,
          tries |-> 0, round |-> 1, jump |-> FALSE, passes |-> 0, out |-> "none"]
NoCall == [at |-> "idle", idx |-> 0, run |-> 0, ok |-> TRUE]

(* SessionManager.Start: a continuous session is active with its goroutine         *)
(* started, an interactive one is paused and has none.                             *)
Init ==
  /\ overlap \in BOOLEAN
  /\ \/ /\ mode = "continuous" /\ state = "active" /\ repeats \in 0..MaxRepeats
        /\ runs = 1 /\ cancelled = {}
        /\ run = [r \in Runs |-> IF r = 1 THEN [NoRun EXCEPT !.at = "spawned"]
                                 ELSE NoRun]
     \/ /\ mode = "interactive" /\ state = "paused" /\ repeats = 0
        /\ runs = 1 /\ cancelled = {1}
        /\ run = [r \in Runs |-> NoRun]
  /\ stepIdx = 0 /\ history = <<>>
  /\ stopped = FALSE /\ interrupted = {} /\ cancelOf = 1
  /\ call = [c \in Callers |-> NoCall]
  /\ ccrn = 0 /\ used = {}

-----------------------------------------------------------------------------
(* Engine: Orchestrator.RunContinuous and StepExecutor.Execute.                    *)

(* What Execute makes of an answer.  A stop handler and a terminate one            *)
(* end the run alike.                                                              *)
Action == {"continue", "terminate", "goto", "pause", "retry"}

Interrupted(r) == run[r].ch \in interrupted

Ends(b, out) == [NoRun EXCEPT !.at = "returned", !.out = out]

PassEnds(b) == [NoRun EXCEPT !.at = "passEnd", !.from = b.from, !.ch = b.ch,
                  !.passes = b.passes]

(* A round of the repeat loop of step i, after its delay or without one.           *)
Tries(b, i, round, mayDelay) ==
  {[b EXCEPT !.at = a, !.idx = i, !.round = round, !.tries = 0] :
     a \in {"execute"} \cup (IF mayDelay THEN {"delay"} ELSE {})}

(* The first round waits unless no request of the pass came before it.             *)
Begins(b, i) == Tries(b, i, 1, b.prev)

Jumps(b) == Begins([b EXCEPT !.jump = TRUE], NSteps)

Leaves(b) ==
  IF b.jump \/ b.idx = NSteps THEN PassEnds(b)
  ELSE [b EXCEPT !.at = "step", !.idx = @ + 1]

(* The end of a round that lets the walk go on: RepeatUntil or the count           *)
(* ends the loop, an interrupt does, or the step is tried again.  After a          *)
(* jump runStepLoop's verdict is ignored.                                          *)
Continues(r, b) ==
  {Leaves(b)}
    \cup IF Interrupted(r)
         THEN {IF b.jump THEN PassEnds(b) ELSE Ends(b, "interrupted")}
         ELSE IF b.round < MaxRounds THEN Tries(b, b.idx, b.round + 1, TRUE)
              ELSE {}

(* The switch on the action of a finished step.                                    *)
Handles(r, b, action) ==
  IF action = "continue" THEN Continues(r, b)
  ELSE IF b.jump THEN {PassEnds(b)}
  ELSE IF action = "goto"
       THEN IF b.idx = NSteps THEN {PassEnds(b)}
            ELSE {[b EXCEPT !.at = "gotoDelay"]} \cup Jumps(b)
  ELSE {Ends(b, IF action = "pause" THEN "error" ELSE "completed")}

Becomes(r, b) == run' = [run EXCEPT ![r] = b]

EngineOnly == UNCHANGED <<fixedVars, state, history, signalVars, call>>

(* The goroutine reads rec.stopCh and rec.interruptCh when it first runs.          *)
(* With no step left there is nothing to do.                                       *)
RunStart(r) ==
  /\ run[r].at = "spawned"
  /\ LET b == [run[r] EXCEPT !.ch = runs]
     IN Becomes(r, IF b.from = NSteps THEN Ends(b, "completed")
                   ELSE [b EXCEPT !.at = "pass"])
  /\ EngineOnly /\ UNCHANGED <<stepIdx, dccaVars>>

(* Faulty: the selects look at the stop channel only.                              *)
CheckStopOnly(r, at, next) ==
  /\ run[r].at = at
  /\ \/ stopped /\ Becomes(r, Ends(run[r], "completed"))
     \/ ~stopped /\ Becomes(r, next)
  /\ EngineOnly /\ UNCHANGED <<stepIdx, dccaVars>>

(* The selects before a pass and before a step.  With both channels closed         *)
(* either arm may be taken.                                                        *)
Check(r, at, next) ==
  /\ run[r].at = at
  /\ \/ stopped /\ Becomes(r, Ends(run[r], "completed"))
     \/ Interrupted(r) /\ Becomes(r, Ends(run[r], "interrupted"))
     \/ ~stopped /\ ~Interrupted(r) /\ Becomes(r, next)
  /\ EngineOnly /\ UNCHANGED <<stepIdx, dccaVars>>

PassCheck(r) ==
  Check(r, "pass", [run[r] EXCEPT !.at = "step", !.idx = run[r].from + 1])

StepCheck(r) ==
  \E b \in Begins(run[r], run[r].idx) : Check(r, "step", b)

(* A delay in front of a step.  After a jump a stop or an interrupt only           *)
(* ends the pass; a cancelled context always ends the run.                         *)
Delay(r) ==
  /\ run[r].at = "delay"
  /\ \/ r \in cancelled /\ Becomes(r, Ends(run[r], "cancelled"))
     \/ /\ stopped
        /\ Becomes(r, IF run[r].jump THEN PassEnds(run[r])
                      ELSE Ends(run[r], "completed"))
     \/ /\ Interrupted(r)
        /\ Becomes(r, IF run[r].jump THEN PassEnds(run[r])
                      ELSE Ends(run[r], "interrupted"))
     \/ Becomes(r, [run[r] EXCEPT !.at = "execute"])
  /\ EngineOnly /\ UNCHANGED <<stepIdx, dccaVars>>

(* The delay of a step that ended in GotoTerminate, before the last step.          *)
GotoDelay(r) ==
  /\ run[r].at = "gotoDelay"
  /\ \/ r \in cancelled /\ Becomes(r, Ends(run[r], "cancelled"))
     \/ stopped /\ Becomes(r, Ends(run[r], "completed"))
     \/ Interrupted(r) /\ Becomes(r, Ends(run[r], "interrupted"))
     \/ \E b \in Jumps(run[r]) : Becomes(r, b)
  /\ EngineOnly /\ UNCHANGED <<stepIdx, dccaVars>>

(* Execute: a false guard skips the step, a guard that cannot be evaluated         *)
(* or a template that cannot be rendered fails it, else the CCR is sent.           *)
(* OnStep moves rec.stepIdx in all cases but the last.                             *)
Execute(r) ==
  /\ run[r].at = "execute"
  /\ \/ /\ \E b \in Continues(r, run[r]) : Becomes(r, b)
        /\ stepIdx' = run[r].idx
        /\ UNCHANGED dccaVars
     \/ /\ Becomes(r, Ends(run[r], "error"))
        /\ stepIdx' = run[r].idx
        /\ UNCHANGED dccaVars
     \/ /\ Becomes(r, [run[r] EXCEPT !.at = "sending"])
        /\ used' = used \cup {ccrn}
        /\ UNCHANGED <<stepIdx, ccrn>>
  /\ EngineOnly

(* The CCA is in.  A retry goes round once more, without OnStep; after             *)
(* that it ends the run.                                                           *)
Answered(r) ==
  /\ run[r].at = "sending"
  /\ ccrn' = ccrn + 1
  /\ \E action \in Action :
       IF action = "retry" /\ run[r].tries = 0
       THEN /\ Becomes(r, [run[r] EXCEPT !.at = "execute", !.tries = 1])
            /\ UNCHANGED stepIdx
       ELSE /\ \E b \in Handles(r, [run[r] EXCEPT !.prev = TRUE], action) :
                 Becomes(r, b)
            /\ stepIdx' = run[r].idx
  /\ UNCHANGED used /\ EngineOnly

SendFails(r) ==
  /\ run[r].at = "sending"
  /\ Becomes(r, Ends(run[r], "error"))
  /\ stepIdx' = run[r].idx
  /\ UNCHANGED dccaVars /\ EngineOnly

(* The context of the run is cancelled while it waits for the CCA.                 *)
SendCancelled(r) ==
  /\ run[r].at = "sending" /\ r \in cancelled
  /\ Becomes(r, Ends(run[r], "cancelled"))
  /\ stepIdx' = run[r].idx
  /\ UNCHANGED dccaVars /\ EngineOnly

(* A pass is over: the limit is reached, or ResetForNewIteration.  Without         *)
(* a limit the passes need not be counted.                                         *)
PassEnd(r) ==
  /\ run[r].at = "passEnd"
  /\ IF repeats > 0 /\ run[r].passes + 1 >= repeats
     THEN Becomes(r, Ends(run[r], "completed")) /\ UNCHANGED dccaVars
     ELSE /\ Becomes(r, [run[r] EXCEPT !.at = "pass",
                           !.passes = IF repeats = 0 THEN 0 ELSE @ + 1])
          /\ ccrn' = 0 /\ used' = {}
  /\ UNCHANGED stepIdx /\ EngineOnly

(* Faulty: the interrupted session keeps its Session-Id.                           *)
RunEndKeepsSession(r) ==
  /\ run[r].at = "returned"
  /\ Becomes(r, NoRun)
  /\ state' = CASE run[r].out = "interrupted" -> "paused"
                [] run[r].out = "error"       -> "error"
                [] OTHER                      -> "completed"
  /\ IF run[r].out = "interrupted"
     THEN stepIdx' = 0 /\ ccrn' = 0 /\ UNCHANGED used
     ELSE /\ stepIdx' = IF stepIdx < NSteps THEN NSteps ELSE stepIdx
          /\ UNCHANGED dccaVars
  /\ UNCHANGED <<fixedVars, history, signalVars, call>>

(* Faulty: a cancelled run leaves the state as it was.                             *)
RunEndIgnoresCancel(r) ==
  /\ run[r].at = "returned"
  /\ Becomes(r, NoRun)
  /\ state' = CASE run[r].out = "interrupted" -> "paused"
                [] run[r].out = "error"       -> "error"
                [] run[r].out = "cancelled"   -> state
                [] OTHER                      -> "completed"
  /\ stepIdx' = IF run[r].out = "interrupted" THEN 0 ELSE NSteps
  /\ UNCHANGED <<fixedVars, history, signalVars, call, dccaVars>>

(* The rest of runContinuous, under rec.mu.  stepIdx is first raised to            *)
(* the number of steps, so an interrupted session always starts anew.              *)
RunEnd(r) ==
  /\ run[r].at = "returned"
  /\ Becomes(r, NoRun)
  /\ state' = CASE run[r].out = "interrupted" -> "paused"
                [] run[r].out = "error"       -> "error"
                [] OTHER                      -> "completed"
  /\ IF run[r].out = "interrupted"
     THEN stepIdx' = 0 /\ ccrn' = 0 /\ used' = {}
     ELSE /\ stepIdx' = IF stepIdx < NSteps THEN NSteps ELSE stepIdx
          /\ UNCHANGED dccaVars
  /\ UNCHANGED <<fixedVars, history, signalVars, call>>

RunProgress(r) ==
  \/ RunStart(r) \/ PassCheck(r) \/ StepCheck(r) \/ Delay(r) \/ GotoDelay(r)
  \/ Execute(r) \/ SendCancelled(r) \/ PassEnd(r) \/ RunEnd(r)

-----------------------------------------------------------------------------
(* API calls.  A call of each kind starts at "idle" and runs to "idle".            *)

At(c, at) == call[c].at = at

Goes(c, at) == call' = [call EXCEPT ![c].at = at]

CallEnds(c) == call' = [call EXCEPT ![c] = NoCall]

Idle(c) == At(c, "idle") /\ (~overlap => \A d \in Callers : At(d, "idle"))

(* Faulty: a running session may be stepped.                                       *)
StepBeginAnyTime(c) ==
  /\ Idle(c)
  /\ Goes(c, "step")
  /\ UNCHANGED <<fixedVars, recVars, signalVars, run, dccaVars>>

(* Step.  Its first test reads rec.state without the lock.                         *)
StepBegin(c) ==
  /\ Idle(c)
  /\ mode = "interactive" \/ state = "paused"
  /\ Goes(c, "step")
  /\ UNCHANGED <<fixedVars, recVars, signalVars, run, dccaVars>>

StepTake(c) ==
  /\ At(c, "step")
  /\ IF state \notin {"active", "paused"} \/ stepIdx >= NSteps
     THEN CallEnds(c)
     ELSE call' = [call EXCEPT ![c] = [@ EXCEPT !.at = "execute", !.idx = stepIdx + 1]]
  /\ state' = IF state \in {"active", "paused"} /\ stepIdx >= NSteps
              THEN "completed" ELSE state
  /\ UNCHANGED <<fixedVars, stepIdx, history, signalVars, run, dccaVars>>

(* RunStepWithPrev, outside the lock.                                              *)
StepExecute(c) ==
  /\ At(c, "execute")
  /\ \/ Goes(c, "record") /\ UNCHANGED dccaVars
     \/ /\ call' = [call EXCEPT ![c] = [@ EXCEPT !.at = "record", !.ok = FALSE]]
        /\ UNCHANGED dccaVars
     \/ /\ Goes(c, "sending")
        /\ used' = used \cup {ccrn} /\ UNCHANGED ccrn
  /\ UNCHANGED <<fixedVars, recVars, signalVars, run>>

StepAnswered(c) ==
  /\ At(c, "sending")
  /\ Goes(c, "record")
  /\ ccrn' = ccrn + 1
  /\ UNCHANGED <<fixedVars, recVars, signalVars, run, used>>

StepSendFails(c) ==
  /\ At(c, "sending")
  /\ call' = [call EXCEPT ![c] = [@ EXCEPT !.at = "record", !.ok = FALSE]]
  /\ UNCHANGED <<fixedVars, recVars, signalVars, run, dccaVars>>

StepRecord(c) ==
  /\ At(c, "record")
  /\ Goes(c, "finish")
  /\ history' = IF mode = "interactive" THEN Append(history, call[c].idx)
                ELSE history
  /\ UNCHANGED <<fixedVars, state, stepIdx, signalVars, run, dccaVars>>

(* Faulty: a failed step may be tried again.                                       *)
StepFinishRetries(c) ==
  /\ At(c, "finish")
  /\ stepIdx' = IF call[c].ok THEN stepIdx + 1 ELSE stepIdx
  /\ state' = IF stepIdx' >= NSteps THEN "completed" ELSE "paused"
  /\ CallEnds(c)
  /\ UNCHANGED <<fixedVars, history, signalVars, run, dccaVars>>

StepFinish(c) ==
  /\ At(c, "finish")
  /\ stepIdx' = stepIdx + 1
  /\ state' = IF ~call[c].ok THEN "error"
              ELSE IF stepIdx + 1 >= NSteps THEN "completed" ELSE "paused"
  /\ CallEnds(c)
  /\ UNCHANGED <<fixedVars, history, signalVars, run, dccaVars>>

(* Skip is one critical section.                                                   *)
Skip(c) ==
  /\ Idle(c)
  /\ state = "paused" /\ stepIdx < NSteps
  /\ history' = IF mode = "interactive" THEN Append(history, stepIdx + 1)
                ELSE history
  /\ stepIdx' = stepIdx + 1
  /\ state' = IF stepIdx + 1 >= NSteps THEN "completed" ELSE "paused"
  /\ UNCHANGED <<fixedVars, signalVars, run, call, dccaVars>>

(* Stop: the test of stopCh, its close, cancel() and the change of state           *)
(* are four steps.  A second close panics: the HTTP server recovers, and           *)
(* the rest of the call is lost.                                                   *)
Stop(c) ==
  /\ Idle(c)
  /\ Goes(c, IF stopped THEN "cancel" ELSE "close")
  /\ UNCHANGED <<fixedVars, recVars, signalVars, run, dccaVars>>

StopClose(c) ==
  /\ At(c, "close")
  /\ IF stopped THEN CallEnds(c) ELSE Goes(c, "cancel")
  /\ stopped' = TRUE
  /\ UNCHANGED <<interrupted, runs, cancelOf, cancelled, fixedVars, recVars, run,
                 dccaVars>>

(* Faulty: Stop only closes the stop channel.                                      *)
StopCancelNothing(c) ==
  /\ At(c, "cancel")
  /\ Goes(c, "mark")
  /\ UNCHANGED <<signalVars, fixedVars, recVars, run, dccaVars>>

StopCancel(c) ==
  /\ At(c, "cancel")
  /\ cancelled' = cancelled \cup {cancelOf}
  /\ Goes(c, "mark")
  /\ UNCHANGED <<stopped, interrupted, runs, cancelOf, fixedVars, recVars, run,
                 dccaVars>>

StopMark(c) ==
  /\ At(c, "mark")
  /\ state' = IF state \in {"active", "paused"} THEN "terminated" ELSE state
  /\ CallEnds(c)
  /\ UNCHANGED <<fixedVars, stepIdx, history, signalVars, run, dccaVars>>

(* Interrupt reads mode and state under a lock it then gives up.                   *)
Interrupt(c) ==
  /\ Idle(c)
  /\ mode = "continuous" /\ state = "active"
  /\ Goes(c, "interrupt")
  /\ UNCHANGED <<fixedVars, recVars, signalVars, run, dccaVars>>

InterruptTest(c) ==
  /\ At(c, "interrupt")
  /\ IF runs \in interrupted THEN CallEnds(c)
     ELSE Goes(c, "closeInterrupt")
  /\ UNCHANGED <<fixedVars, recVars, signalVars, run, dccaVars>>

InterruptClose(c) ==
  /\ At(c, "closeInterrupt")
  /\ interrupted' = interrupted \cup {runs}
  /\ CallEnds(c)
  /\ UNCHANGED <<stopped, runs, cancelOf, cancelled, fixedVars, recVars, run,
                 dccaVars>>

(* Faulty: an aborted session can be resumed too.                                  *)
RunToEndAborted(c) ==
  /\ Idle(c)
  /\ runs < MaxRuns
  /\ mode = "continuous" /\ state \in {"paused", "terminated"}
  /\ runs' = runs + 1 /\ state' = "active"
  /\ run' = [run EXCEPT ![runs + 1] = [NoRun EXCEPT !.at = "reserved", !.from = stepIdx]]
  /\ call' = [call EXCEPT ![c] = [@ EXCEPT !.at = "resume", !.run = runs + 1]]
  /\ UNCHANGED <<fixedVars, stepIdx, history, stopped, interrupted, cancelOf,
                 cancelled, dccaVars>>

(* RunToEnd: a critical section, then rec.cancel and the goroutine.                *)
RunToEnd(c) ==
  /\ Idle(c)
  /\ runs < MaxRuns
  /\ mode = "continuous" /\ state = "paused"
  /\ runs' = runs + 1 /\ state' = "active"
  /\ run' = [run EXCEPT ![runs + 1] = [NoRun EXCEPT !.at = "reserved", !.from = stepIdx]]
  /\ call' = [call EXCEPT ![c] = [@ EXCEPT !.at = "resume", !.run = runs + 1]]
  /\ UNCHANGED <<fixedVars, stepIdx, history, stopped, interrupted, cancelOf,
                 cancelled, dccaVars>>

RunToEndSpawn(c) ==
  /\ At(c, "resume")
  /\ cancelOf' = call[c].run
  /\ run' = [run EXCEPT ![call[c].run].at = "spawned"]
  /\ CallEnds(c)
  /\ UNCHANGED <<fixedVars, recVars, stopped, interrupted, runs, cancelled,
                 dccaVars>>

CallProgress(c) ==
  \/ StepTake(c) \/ StepExecute(c) \/ StepRecord(c) \/ StepFinish(c)
  \/ StopClose(c) \/ StopCancel(c) \/ StopMark(c)
  \/ InterruptTest(c) \/ InterruptClose(c) \/ RunToEndSpawn(c)

-----------------------------------------------------------------------------
Next ==
  \/ \E r \in Runs : RunProgress(r) \/ Answered(r) \/ SendFails(r)
  \/ \E c \in Callers :
       \/ CallProgress(c) \/ StepAnswered(c) \/ StepSendFails(c)
       \/ StepBegin(c) \/ Skip(c) \/ Stop(c) \/ Interrupt(c) \/ RunToEnd(c)

Spec == Init /\ [][Next]_vars

(* Goroutines run, delays elapse and a cancelled Send returns.  The OCS            *)
(* need not answer, and nobody has to call.                                        *)
FairSpec ==
  /\ Spec
  /\ \A r \in Runs : WF_vars(RunProgress(r))
  /\ \A c \in Callers : WF_vars(CallProgress(c))

-----------------------------------------------------------------------------
Live(r) == run[r].at \notin {"off", "reserved"}

Sending == {r \in Runs : run[r].at = "sending"} \cup {c \in Callers : At(c, "sending")}

(* Type invariant.                                                                 *)
TypeOK ==
  /\ overlap \in BOOLEAN /\ stopped \in BOOLEAN
  /\ mode \in {"interactive", "continuous"} /\ repeats \in 0..MaxRepeats
  /\ state \in {"active", "paused", "completed", "terminated", "error"}
  /\ stepIdx \in Nat /\ history \in Seq(0..NSteps)
  /\ runs \in Runs /\ cancelOf \in Runs
  /\ interrupted \subseteq Runs /\ cancelled \subseteq Runs
  /\ run \in [Runs -> RunRecord] /\ call \in [Callers -> CallRecord]
  /\ ccrn \in Nat /\ used \subseteq Nat

(* A session shown as running has a goroutine that runs it, or is about to         *)
(* start one: no interleaving of calls strands it in "active".                     *)
ActiveHasRun == state = "active" => run[runs].at # "off"

(* A paused session can be resumed where it stands, even when overlapping          *)
(* Steps have moved stepIdx past the end: RunToEnd slices rec.steps there,         *)
(* in a goroutine whose panic would end the process.                               *)
ResumeInRange == state = "paused" => stepIdx <= NSteps

(* Calls made one after the other never find a goroutine still at work in          *)
(* a session that says it is paused, completed or in error.                        *)
QuietUnlessActive ==
  ~overlap => \A r \in Runs : Live(r) => state \in {"active", "terminated"}

(* It is, when calls are made one after the other.                                 *)
SingleThreadedInTurn == ~overlap => Cardinality(Sending) <= 1

(* The history of an interactive session lists the steps behind it in              *)
(* order, none missing and none twice: Detail shows it with the one step           *)
(* to come.                                                                        *)
HistoryIsTheWalk ==
  ~overlap /\ mode = "interactive" /\ (\A c \in Callers : ~At(c, "finish"))
    => history = [i \in 1..stepIdx |-> i]

(* No CC-Request-Number is sent twice under one Session-Id.                        *)
NoNumberReused ==
  [][~overlap /\ ~(Sending' \subseteq Sending) => ccrn \notin used]_vars

(* Stop reaches every goroutine, also one a resume starts at that moment,          *)
(* and one that waits for the OCS.                                                 *)
StoppedRunEnds ==
  \A r \in Runs : ~overlap /\ stopped /\ Live(r) ~> ~Live(r)

(* An interrupt ends the run it was meant for, unless that waits for an            *)
(* answer for ever.                                                                *)
InterruptTakesEffect ==
  \A r \in Runs :
    (Live(r) /\ run[r].at # "spawned" /\ Interrupted(r) ~> ~Live(r))
      \/ <>[](run[r].at = "sending")
=============================================================================
