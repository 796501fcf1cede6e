------------------------------- MODULE Debugger -------------------------------
(***********************************************************************************)
(* The execution debugger of the web application (web/src/pages/debugger): a       *)
(* page that follows one execution through a polled REST snapshot, a stream of     *)
(* server-sent events and the answers to its own calls, three sources that         *)
(* overtake each other.                                                            *)
(*                                                                                 *)
(* The execution itself is what the page can see of it (Execution models it in     *)
(* full): its state, position and history, whether its goroutine lives, and the    *)
(* signals sent to it.  A snapshot is what Detail returns: the history and one     *)
(* pending row.  A fetch is taken at the server when it starts and arrives         *)
(* later.  The contents of rows, variables and AVP trees, the highlighted step,    *)
(* typed overrides, the clocks of the run and of a sleep, an expired fetch and     *)
(* the store's pause and resume, which no control calls, are left out.             *)
(***********************************************************************************)
EXTENDS Naturals, Sequences, FiniteSets

CONSTANTS
  NSteps,     \* steps of the scenario
  MaxRows,    \* bound on the history of the execution
  MaxEvents,  \* capacity of the server's event channel
  None

ASSUME DebuggerAssumption ==
  /\ NSteps \in Nat \ {0} /\ MaxRows \in Nat \ {0} /\ MaxEvents \in Nat \ {0}

VARIABLES
  mode,       \* interactive or continuous; fixed when the run is created
  overlap,    \* whether the user acts while a call is out; fixed at the start
  run,        \* the execution: its record and its goroutine
  signals,    \* what its goroutine has been asked
  stream,     \* the events that are under way to the page
  cached,     \* the query cache's snapshot
  fetch,      \* the snapshot a fetch is bringing
  stale,      \* the cached snapshot was invalidated
  page,       \* the page's store
  call        \* the store's imperative actions that are out

vars == <<mode, overlap, run, signals, stream, cached, fetch, stale, page,
          call>>
serverVars == <<run, signals>>
queryVars == <<cached, fetch, stale>>

Ended == {"success", "failure", "aborted", "error"}
PageState == {"pending", "running", "paused"} \cup Ended
Outcome == {"ran", "skipped"}   \* ran: success, failure or error
Kinds == {"send", "skip", "interrupt", "runToEnd", "stop"}

(* One row for each step that ran and one for the step that is next.               *)
Snapshot ==
  [state |-> run.state,
   rows |-> run.rows \o IF run.at < NSteps THEN <<"pending">> ELSE <<>>]

-----------------------------------------------------------------------------
(* The store's state machine: a transition that is not in the table is             *)
(* refused and the state stays.                                                    *)

Transitions ==
  [pending |-> {"running", "paused", "aborted", "error"},
   running |-> {"paused"} \cup Ended,
   paused |-> {"running", "aborted", "error"},
   success |-> {}, failure |-> {}, aborted |-> {}, error |-> {}]

(* Faulty: the table is not asked.                                                 *)
reduceUntested(from, to) == to

reduce(from, to) == IF to \in Transitions[from] THEN to ELSE from

(* The end of a run may be announced to a page that shows it paused.               *)
End(from, to) == reduce(IF from = "paused" THEN "running" ELSE from, to)

isStepCompleted(row) == row = "ran"

(* Whether a row of the history is viewed, or the run followed live.               *)
Completed(rows) == \E i \in DOMAIN rows : isStepCompleted(rows[i])

(* Faulty: a snapshot leaves the rows the page has and adds what is new.           *)
ingestSnapshotAppends(p, s) ==
  [p EXCEPT !.state = reduce(@, s.state), !.viewing = FALSE,
            !.rows = IF Len(@) >= Len(s.rows) THEN @ ELSE @ \o s.rows]

ingestSnapshot(p, s) ==
  [p EXCEPT !.state = reduce(@, s.state), !.rows = s.rows,
            !.viewing = s.state \in Ended /\ Completed(s.rows)]

FreshPage == [state |-> "pending", rows |-> <<>>, viewing |-> FALSE]

Idle == [at |-> "idle", snap |-> None]

Init ==
  /\ mode \in {"interactive", "continuous"} /\ overlap \in {FALSE, mode = "interactive"}
  /\ run \in {[state |-> IF mode = "interactive" THEN "paused" ELSE "running",
               at |-> 0, rows |-> <<>>, going |-> mode = "continuous"],
              [state |-> "error", at |-> NSteps, rows |-> <<"ran">>, going |-> FALSE]}
  /\ signals = {}
  /\ cached = Snapshot
  /\ fetch = None /\ stale = FALSE
  /\ page = ingestSnapshot(FreshPage, cached)
  /\ stream = <<>>
  /\ call = [k \in Kinds |-> Idle]

-----------------------------------------------------------------------------
(* The execution, as far as the page can tell.                                     *)

(* An event is lost when the channel is full, and when the page is not             *)
(* connected: the server ends the stream of a run without a goroutine, the         *)
(* browser opens it again, and links break.                                        *)
broadcast(e) ==
  \/ Len(stream) < MaxEvents /\ stream' = Append(stream, e)
  \/ UNCHANGED stream

ServerFrame == UNCHANGED <<mode, overlap, queryVars, page, call>>

(* The walk goes to the next step or starts over.                                  *)
RunStep ==
  /\ run.going /\ Len(run.rows) < MaxRows
  /\ LET i == IF run.at < NSteps THEN run.at ELSE 0
     IN /\ run' = [run EXCEPT !.rows = Append(@, "ran"), !.at = i + 1]
        /\ broadcast("running")
  /\ UNCHANGED signals /\ ServerFrame

(* The last event carries the state of the context, not of the record: a           *)
(* run that failed while pausing says "paused".  The "terminated" of a run         *)
(* ended by a handler is not known to the page, as if it were lost.                *)
RunEnds ==
  /\ run.going
  /\ \E s \in {"success", "error"}, e \in {"completed", "error", "paused"} :
       /\ s = "success" <=> e = "completed"
       /\ run' = [run EXCEPT !.state = s, !.at = NSteps, !.going = FALSE]
       /\ broadcast(e)
  /\ UNCHANGED signals /\ ServerFrame

RunIsInterrupted ==
  /\ run.going /\ "interrupt" \in signals
  /\ run' = [run EXCEPT !.state = "paused", !.at = 0, !.going = FALSE]
  /\ broadcast("paused")
  /\ UNCHANGED signals /\ ServerFrame

-----------------------------------------------------------------------------
(* The event stream.                                                               *)

StreamBreaks ==
  /\ stream # <<>> /\ stream' = <<>>
  /\ UNCHANGED serverVars /\ ServerFrame

(* Faulty: the last step being sent is taken for the end of the run.               *)
ingestSseEager(p, e) ==
  [p EXCEPT !.state = reduce(@, IF e = "running" /\ Len(p.rows) = NSteps THEN "success" ELSE e)]

(* What the driver makes of an event, and the store of what the driver             *)
(* says.  An end of the run brings the rows of the cached snapshot.                *)
ingestSse(p, e) ==
  CASE e = "running" -> [p EXCEPT !.state = reduce(@, "running")]
    [] e = "paused" -> [p EXCEPT !.state = reduce(@, "paused")]
    [] e = "completed" ->
         [p EXCEPT !.state = End(@, "success"), !.rows = cached.rows]
    [] e = "error" ->
         [p EXCEPT !.state = End(@, "failure"), !.rows = cached.rows]
    [] OTHER -> p

(* A pause or an end invalidates the cached snapshot, which cancels a fetch        *)
(* that is under way.                                                              *)
onEvent ==
  /\ stream # <<>>
  /\ LET e == Head(stream)
         refetch == e \in {"paused", "completed", "error"}
     IN /\ page' = ingestSse(page, e)
        /\ stale' = (stale \/ refetch)
        /\ fetch' = IF refetch THEN None ELSE fetch
  /\ stream' = Tail(stream)
  /\ UNCHANGED <<mode, overlap, serverVars, cached, call>>

-----------------------------------------------------------------------------
(* The query: polled while the cached snapshot is not final.                       *)

(* Faulty: the polling ends as soon as the page itself shows an end.               *)
FetchWhilePageRuns ==
  /\ fetch = None /\ page.state \notin Ended /\ (stale \/ cached.state \notin Ended)
  /\ fetch' = Snapshot /\ stale' = FALSE
  /\ UNCHANGED <<mode, overlap, serverVars, stream, cached, page, call>>

refetchInterval == cached.state \notin Ended

Fetch ==
  /\ fetch = None /\ (stale \/ refetchInterval)
  /\ fetch' = Snapshot /\ stale' = FALSE
  /\ UNCHANGED <<mode, overlap, serverVars, stream, cached, page, call>>

(* A snapshot equal to the cached one is the same object to React: the             *)
(* store does not see it.                                                          *)
FetchArrives ==
  /\ fetch # None
  /\ cached' = fetch /\ fetch' = None
  /\ page' = IF fetch # cached THEN ingestSnapshot(page, fetch) ELSE page
  /\ UNCHANGED <<mode, overlap, serverVars, stream, stale, call>>

-----------------------------------------------------------------------------
(* The user, on the page.                                                          *)

Out == {k \in Kinds : call[k].at \notin {"idle", "asking"}}

InTurn == IF overlap THEN Cardinality(Out) < 2 ELSE Out = {}

(* The control buttons wait for one another.                                       *)
actionPending == Out \cap {"interrupt", "runToEnd", "stop"} # {}

Covered == call["stop"].at # "idle"

PageFrame == UNCHANGED <<mode, overlap, serverVars, stream, queryVars>>

viewHistorical(on) == page' = [page EXCEPT !.viewing = on]

(* A completed row is viewed and left again by a click; a pending one only         *)
(* leads back to the live run.  The arrows stay within the history.                *)
HistoryRow ==
  /\ ~Covered /\ (page.viewing \/ Completed(page.rows)) /\ viewHistorical(~page.viewing)
  /\ UNCHANGED call /\ PageFrame

BackToLive ==
  /\ ~Covered /\ page.viewing /\ page.state = "paused" /\ viewHistorical(FALSE)
  /\ UNCHANGED call /\ PageFrame

(* The step editor is shown while the run is paused and no row is viewed.          *)
debuggerMode == page.state = "paused" /\ ~page.viewing

(* Its two buttons wait for nothing; one call of a kind is out at a time.          *)
Editable(k) == debuggerMode /\ ~Covered /\ InTurn /\ call[k].at = "idle"

ControlButtons(k) ==
  /\ ~Covered /\ ~actionPending
  /\ page.state \in CASE k = "runToEnd" -> {"paused"}
                      [] k = "interrupt" -> {"running"}
                      [] k = "stop" -> {"paused", "running"}
  /\ k = "interrupt" => mode = "continuous"

Returns(k) == call' = [call EXCEPT ![k] = Idle]

Posts(k) == call' = [call EXCEPT ![k].at = "posting"]

sendCcr ==
  /\ Editable("send")
  /\ page' = [page EXCEPT !.state = reduce(@, "running")]
  /\ Posts("send")
  /\ PageFrame

skip ==
  /\ Editable("skip")
  /\ Posts("skip")
  /\ UNCHANGED page /\ PageFrame

runToEnd ==
  /\ ControlButtons("runToEnd") /\ InTurn
  /\ page' = [page EXCEPT !.state = reduce(@, "running")]
  /\ Posts("runToEnd")
  /\ PageFrame

interrupt ==
  /\ ControlButtons("interrupt") /\ InTurn
  /\ page' = [page EXCEPT !.state = reduce(@, "paused")]
  /\ Posts("interrupt")
  /\ PageFrame

(* The Stop dialog covers the page, and stays open whatever the run does.          *)
AskStop ==
  /\ ControlButtons("stop")
  /\ call' = [call EXCEPT !["stop"].at = "asking"]
  /\ UNCHANGED page /\ PageFrame

CancelStop ==
  /\ call["stop"].at = "asking" /\ Returns("stop")
  /\ UNCHANGED page /\ PageFrame

stop ==
  /\ call["stop"].at = "asking" /\ InTurn
  /\ page' = [page EXCEPT !.state = reduce(@, "aborted")]
  /\ Posts("stop")
  /\ PageFrame

-----------------------------------------------------------------------------
(* The calls at the server.                                                        *)

CallFrame == UNCHANGED <<mode, overlap, queryVars, page>>

Becomes(k, at) == call' = [call EXCEPT ![k].at = at]

Halted == run.state \notin {"running", "paused"}

(* Both Send and the interactive Run-to-end post a step; it is executed            *)
(* with the session unlocked.                                                      *)
StepKind(k) == k = "send" \/ (k = "runToEnd" /\ mode = "interactive")

StepBegins(k) ==
  /\ StepKind(k) /\ call[k].at = "posting"
  /\ \/ /\ Halted \/ (mode = "continuous" /\ run.state # "paused")
        /\ Becomes(k, "refused") /\ UNCHANGED run
     \/ /\ ~Halted /\ (mode = "interactive" \/ run.state = "paused")
        /\ IF run.at >= NSteps
             THEN run' = [run EXCEPT !.state = "success"] /\ Becomes(k, "refused")
             ELSE Becomes(k, "stepping") /\ UNCHANGED run
  /\ UNCHANGED <<signals, stream>> /\ CallFrame

StepEnds(k) ==
  /\ call[k].at = "stepping" /\ Len(run.rows) < MaxRows
  /\ \E failed \in BOOLEAN :
       LET next == IF failed THEN "error"
                   ELSE IF run.at + 1 >= NSteps THEN "success" ELSE "paused"
       IN /\ run' = [run EXCEPT !.rows = Append(@, "ran"), !.at = @ + 1, !.state = next]
          /\ Becomes(k, IF failed THEN "refused" ELSE "ok")
          /\ IF ~failed /\ mode = "continuous"
               THEN broadcast("paused") ELSE UNCHANGED stream
  /\ UNCHANGED signals /\ CallFrame

SkipHandled ==
  /\ call["skip"].at = "posting"
  /\ IF run.state = "paused" /\ run.at < NSteps /\ Len(run.rows) < MaxRows
       THEN LET over == run.at + 1 >= NSteps
            IN /\ run' = [run EXCEPT !.rows = Append(@, "skipped"), !.at = @ + 1,
                                     !.state = IF over THEN "success" ELSE "paused"]
               /\ broadcast(IF over THEN "completed" ELSE "paused")
               /\ Becomes("skip", "ok")
       ELSE Becomes("skip", "refused") /\ UNCHANGED <<run, stream>>
  /\ UNCHANGED signals /\ CallFrame

InterruptHandled ==
  /\ call["interrupt"].at = "posting"
  /\ IF mode = "continuous" /\ run.state = "running"
       THEN signals' = signals \cup {"interrupt"} /\ Becomes("interrupt", "ok")
       ELSE UNCHANGED signals /\ Becomes("interrupt", "refused")
  /\ UNCHANGED <<run, stream>> /\ CallFrame

RunToEndHandled ==
  /\ mode = "continuous" /\ call["runToEnd"].at = "posting"
  /\ IF run.state = "paused"
       THEN /\ run' = [run EXCEPT !.state = "running", !.going = TRUE]
            /\ signals' = signals \ {"interrupt"} /\ Becomes("runToEnd", "ok")
       ELSE UNCHANGED serverVars /\ Becomes("runToEnd", "refused")
  /\ UNCHANGED stream /\ CallFrame

StopHandled ==
  /\ call["stop"].at = "posting"
  /\ run' = [run EXCEPT !.state = IF Halted THEN @ ELSE "aborted"]
  /\ Becomes("stop", "ok")
  /\ UNCHANGED <<signals, stream>> /\ CallFrame

(* The request or its answer is lost.                                              *)
CallFails(k) ==
  /\ call[k].at \in {"posting", "ok"}
  /\ Becomes(k, "refused")
  /\ UNCHANGED <<serverVars, stream>> /\ CallFrame

-----------------------------------------------------------------------------
(* The answers.                                                                    *)

AnswerFrame == UNCHANGED <<mode, overlap, serverVars, stream, queryVars>>

(* Send, Skip and the interactive Run-to-end then get a snapshot of their          *)
(* own, past the query cache.                                                      *)
GetsSnapshot(k) ==
  /\ k = "skip" \/ StepKind(k)
  /\ call[k].at = "ok"
  /\ call' = [call EXCEPT ![k] = [at |-> "got", snap |-> Snapshot]]
  /\ UNCHANGED page /\ AnswerFrame

SnapshotArrives(k) ==
  /\ k \in {"send", "skip"} /\ call[k].at = "got"
  /\ page' = ingestSnapshot(page, call[k].snap)
  /\ Returns(k)
  /\ AnswerFrame

(* The interactive Run-to-end posts one step after another while the run           *)
(* pauses in between.                                                              *)
RunToEndGoesOn ==
  /\ mode = "interactive" /\ call["runToEnd"].at = "got"
  /\ LET s == call["runToEnd"].snap
         seen == [page EXCEPT !.rows = s.rows]
     IN IF s.state = "paused"
          THEN /\ page' = seen
               /\ call' = [call EXCEPT !["runToEnd"] = [at |-> "posting", snap |-> None]]
          ELSE page' = ingestSnapshot(seen, s) /\ Returns("runToEnd")
  /\ AnswerFrame

(* A failed Send takes its optimistic "running" back, whatever the page            *)
(* shows by now.                                                                   *)
SendFails ==
  /\ call["send"].at = "refused"
  /\ page' = [page EXCEPT !.state = "paused"]
  /\ Returns("send")
  /\ AnswerFrame

SkipFails ==
  /\ call["skip"].at = "refused"
  /\ Returns("skip")
  /\ UNCHANGED page /\ AnswerFrame

(* The other actions leave the optimistic state; a failure is only shown           *)
(* as a notification.                                                              *)
ControlReturns(k) ==
  /\ \/ k \in {"interrupt", "stop"} /\ call[k].at \in {"ok", "refused"}
     \/ /\ k = "runToEnd"
        /\ call[k].at = "refused" \/ (mode = "continuous" /\ call[k].at = "ok")
  /\ IF k = "stop" /\ call[k].at = "refused" THEN Becomes(k, "asking") ELSE Returns(k)
  /\ UNCHANGED page /\ AnswerFrame

-----------------------------------------------------------------------------
Server == RunStep \/ RunEnds \/ RunIsInterrupted
Stream == StreamBreaks \/ onEvent
Query == Fetch \/ FetchArrives
User == HistoryRow \/ BackToLive \/ sendCcr \/ skip \/ runToEnd \/ interrupt
          \/ AskStop \/ CancelStop \/ stop
Handlers == SkipHandled \/ InterruptHandled \/ RunToEndHandled \/ StopHandled
              \/ \E k \in Kinds : StepBegins(k) \/ StepEnds(k)
Answers == SendFails \/ SkipFails \/ RunToEndGoesOn
             \/ \E k \in Kinds : GetsSnapshot(k) \/ SnapshotArrives(k) \/ ControlReturns(k)

Next == Server \/ Stream \/ Query \/ User \/ Handlers \/ Answers
          \/ \E k \in Kinds : CallFails(k)

Spec == Init /\ [][Next]_vars

(* The browser polls, delivers events and resumes calls that were answered;        *)
(* the server handles what it is sent.  Nothing is assumed of the user, of         *)
(* the run or of the stream.                                                       *)
FairSpec == Spec /\ WF_vars(Fetch) /\ WF_vars(FetchArrives) /\ WF_vars(onEvent)
                 /\ WF_vars(Handlers) /\ WF_vars(Answers)

-----------------------------------------------------------------------------
Rows == Seq({"pending"} \cup Outcome)

(* Whatever order snapshots, events and answers come in, the rows the page         *)
(* shows are the steps that ran, from the first on, and at most one more           *)
(* that is to come.                                                                *)
ShowsHistory(rows, history) ==
  \A i \in DOMAIN rows :
    \/ i <= Len(history) /\ rows[i] = history[i]
    \/ i = Len(rows) /\ rows[i] = "pending"

ShownRowsAreHistory == ShowsHistory(page.rows, run.rows)

(* A run that is shown as finished has finished: with calls made in turn no        *)
(* optimistic step, event or snapshot shows the end of a run that goes on.         *)
ShownEndIsReal ==
  ~overlap /\ page.state \in {"success", "failure", "error"} => run.state \in Ended

(* A page that shows the end of a run stays with it; only the answer to a          *)
(* failed Send takes it back.                                                      *)
EndIsLeftByFailedSendOnly ==
  [][page.state \in Ended /\ page'.state # page.state => SendFails]_vars

(* With calls made in turn, a run that nobody stopped ends up with all its rows    *)
(* shown, whatever events were lost and however old the last answer was.           *)
Over == run.state \in Ended /\ ~run.going
AllRowsShown == page.rows = Snapshot.rows

FinalRowsAreShown ==
  ~overlap /\ [](run.state # "aborted") => (<>[]Over => <>[]AllRowsShown)

(* The comment on the table of transitions: terminal states have no                *)
(* outbound transitions.                                                           *)
TerminalIsFinal == [][page.state \in Ended => page'.state = page.state]_vars
=============================================================================
