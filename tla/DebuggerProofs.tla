----------------------------- MODULE DebuggerProofs -----------------------------
(***********************************************************************************)
(* What TLAPS proves of Debugger, for any number of steps, rows and events, any    *)
(* overlap of the user's calls and any order of snapshots, events and answers: the *)
(* types, whose rows the page shows, that an end it shows is one, and what takes   *)
(* it back.                                                                        *)
(*                                                                                 *)
(* The page is written from four places: the query cache, a fetch that is          *)
(* arriving, an event, and the snapshot a call brings.  So what is said of the     *)
(* page's rows is said of all of them (HistoryInv), and what is said of its state  *)
(* too (NoEndInSight).  The second holds while calls are made in turn only: then   *)
(* one call is out at most, a step begins on a paused run and ends on it, and so   *)
(* no announcement of an end goes out before the run has ended (InTurnInv).        *)
(*                                                                                 *)
(* Each action is shown to have one of two effects, the server's, which leaves the *)
(* page alone, and the client's, which leaves the run alone (Effects); the         *)
(* invariants are then shown of the effects.                                       *)
(***********************************************************************************)
EXTENDS Debugger, TLAPS

(* The types in full.                                                              *)
RunState == {"running", "paused"} \cup Ended
Snap == [state : PageState, rows : Rows]
Event == {"running", "paused", "completed", "error"}
CallAt == {"idle", "asking", "posting", "stepping", "ok", "refused", "got"}

RunRecord == [state : RunState, at : Nat, rows : Seq(Outcome), going : BOOLEAN]
PageRecord == [state : PageState, rows : Rows, viewing : BOOLEAN]
CallRecord == [at : CallAt, snap : Snap \cup {None}]

(* A call that has got its snapshot has one.                                       *)
CallInv ==
  /\ call \in [Kinds -> CallRecord]
  /\ \A k \in Kinds : call[k].at = "got" => call[k].snap \in Snap

TypeInv ==
  /\ mode \in {"interactive", "continuous"} /\ overlap \in BOOLEAN
  /\ run \in RunRecord
  /\ stream \in Seq(Event)
  /\ cached \in Snap
  /\ fetch # None => fetch \in Snap
  /\ page \in PageRecord
  /\ CallInv

(* Sequences of any set.                                                           *)
LEMMA AppendType ==
  ASSUME NEW S, NEW s \in Seq(S), NEW e \in S
  PROVE  /\ Append(s, e) \in Seq(S)
         /\ Len(Append(s, e)) = Len(s) + 1
         /\ \A i \in 1..Len(s) : Append(s, e)[i] = s[i]
         /\ Append(s, e)[Len(s) + 1] = e
OBVIOUS

LEMMA TailType ==
  ASSUME NEW S, NEW s \in Seq(S), s # <<>>
  PROVE  /\ Head(s) \in S /\ Tail(s) \in Seq(S)
OBVIOUS

(* A snapshot is the history and at most one row to come.                          *)
LEMMA SnapshotRecord ==
  ASSUME run \in RunRecord
  PROVE  /\ Snapshot \in Snap /\ Snapshot.state = run.state
         /\ ShowsHistory(Snapshot.rows, run.rows)
<1> DEFINE next == IF run.at < NSteps THEN <<"pending">> ELSE <<>>
<1>1. /\ run.rows \in Seq({"pending"} \cup Outcome)
      /\ next \in Seq({"pending"} \cup Outcome)
      /\ Len(next) = 0 \/ (Len(next) = 1 /\ next[1] = "pending")
  <2>1. run.rows \in Seq(Outcome)
    BY DEF RunRecord
  <2>2. run.rows \in Seq({"pending"} \cup Outcome)
    BY <2>1
  <2>3. next = <<"pending">> \/ next = <<>>
    OBVIOUS
  <2>4. CASE next = <<"pending">>
    <3>1. /\ <<"pending">> \in Seq({"pending"} \cup Outcome)
          /\ Len(<<"pending">>) = 1 /\ <<"pending">>[1] = "pending"
      OBVIOUS
    <3> HIDE DEF next
    <3> QED  BY <2>2, <2>4, <3>1
  <2>5. CASE next = <<>>
    BY <2>2, <2>5
  <2> QED  BY <2>3, <2>4, <2>5
<1>2. Snapshot = [state |-> run.state, rows |-> run.rows \o next]
  BY DEF Snapshot
<1>3. /\ run.rows \o next \in Seq({"pending"} \cup Outcome)
      /\ Len(run.rows \o next) = Len(run.rows) + Len(next)
      /\ \A i \in 1..Len(run.rows) : (run.rows \o next)[i] = run.rows[i]
      /\ \A i \in 1..Len(next) : (run.rows \o next)[Len(run.rows) + i] = next[i]
  <2> HIDE DEF next
  <2> QED  BY <1>1
<1>4. run.state \in PageState
  BY DEF RunRecord, RunState, PageState
<1>5. ShowsHistory(run.rows \o next, run.rows)
  <2> HIDE DEF next
  <2> QED  BY <1>1, <1>3 DEF ShowsHistory
<1> QED
  <2> HIDE DEF next
  <2> QED  BY <1>2, <1>3, <1>4, <1>5 DEF Snap, Rows

LEMMA SnapshotType ==
  ASSUME TypeInv
  PROVE  /\ Snapshot \in Snap /\ Snapshot.state = run.state
         /\ ShowsHistory(Snapshot.rows, run.rows)
BY SnapshotRecord DEF TypeInv

(* The table keeps the state or makes the transition; none leaves an end.          *)
LEMMA ReduceType ==
  ASSUME NEW from \in PageState, NEW to \in PageState
  PROVE  /\ reduce(from, to) \in {from, to} /\ End(from, to) \in {from, to, "running"}
         /\ from \in Ended => reduce(from, to) = from /\ End(from, to) = from
BY DEF reduce, End, PageState, Ended, Transitions

(* A snapshot that is ingested brings its state and its rows, or nothing.          *)
LEMMA IngestRecord ==
  ASSUME NEW p \in PageRecord, NEW s \in Snap
  PROVE  /\ ingestSnapshot(p, s) \in PageRecord
         /\ ingestSnapshot(p, s).rows = s.rows
         /\ ingestSnapshot(p, s).state \in {p.state, s.state}
         /\ p.state \in Ended => ingestSnapshot(p, s).state = p.state
<1>1. p.state \in PageState /\ s.state \in PageState
  BY DEF PageRecord, Snap
<1>2. /\ reduce(p.state, s.state) \in {p.state, s.state}
      /\ p.state \in Ended => reduce(p.state, s.state) = p.state
  BY <1>1, ReduceType
<1> QED  BY <1>1, <1>2 DEF PageRecord, Snap, ingestSnapshot

LEMMA IngestType ==
  ASSUME TypeInv, NEW s \in Snap
  PROVE  /\ ingestSnapshot(page, s) \in PageRecord
         /\ ingestSnapshot(page, s).rows = s.rows
         /\ ingestSnapshot(page, s).state \in {page.state, s.state}
         /\ page.state \in Ended => ingestSnapshot(page, s).state = page.state
BY IngestRecord DEF TypeInv

(* An event moves the state and no more, but that it may bring the cached rows.    *)
LEMMA SseType ==
  ASSUME TypeInv, NEW e \in Event
  PROVE  /\ ingestSse(page, e) \in PageRecord
         /\ ingestSse(page, e).rows \in {page.rows, cached.rows}
         /\ \/ ingestSse(page, e).state \in {page.state, "running", "paused"}
            \/ e \in {"completed", "error"}
         /\ page.state \in Ended => ingestSse(page, e).state = page.state
<1> DEFINE to == CASE e = "running" -> "running" [] e = "paused" -> "paused"
                   [] e = "completed" -> "success" [] OTHER -> "failure"
<1>1. page.state \in PageState /\ to \in PageState
  BY DEF TypeInv, RunRecord, PageRecord, PageState, Ended
<1>2. /\ reduce(page.state, to) \in {page.state, to}
      /\ End(page.state, to) \in {page.state, to, "running"}
      /\ page.state \in Ended => /\ reduce(page.state, to) = page.state
                                 /\ End(page.state, to) = page.state
  <2> HIDE DEF to
  <2> QED  BY <1>1, ReduceType
<1>3. "running" \in PageState
  BY DEF PageState
<1> QED  BY <1>1, <1>2, <1>3 DEF TypeInv, RunRecord, PageRecord, Event, ingestSse, Snap

-----------------------------------------------------------------------------
(* The calls.                                                                      *)

(* One call goes on, the others stay.                                              *)
NewCall(k, at) ==
  /\ CallInv'
  /\ call'[k].at = at
  /\ \A j \in Kinds \ {k} : call'[j] = call[j]

LEMMA SetsCall ==
  ASSUME TypeInv, NEW k \in Kinds, NEW c \in CallRecord, c.at = "got" => c.snap \in Snap,
         call' = [call EXCEPT ![k] = c]
  PROVE  NewCall(k, c.at) /\ call'[k] = c
<1>1. /\ call' \in [Kinds -> CallRecord] /\ call'[k] = c
      /\ \A j \in Kinds \ {k} : call'[j] = call[j]
  BY DEF TypeInv, CallInv
<1> QED  BY <1>1 DEF TypeInv, CallInv, NewCall

LEMMA MovesCall ==
  ASSUME TypeInv, NEW k \in Kinds, NEW at \in CallAt \ {"got"},
         call' = [call EXCEPT ![k].at = at]
  PROVE  NewCall(k, at)
<1> DEFINE c == [call[k] EXCEPT !.at = at]
<1>1. call[k] \in CallRecord /\ call' = [call EXCEPT ![k] = c]
  BY DEF TypeInv, CallInv
<1>2. c \in CallRecord /\ c.at = at
  BY <1>1 DEF CallRecord
<1> HIDE DEF c
<1> QED  BY <1>1, <1>2, SetsCall

LEMMA BecomesCall ==
  ASSUME TypeInv, NEW k \in Kinds, NEW at \in CallAt \ {"got"}, Becomes(k, at)
  PROVE  NewCall(k, at)
BY MovesCall DEF Becomes

LEMMA PostsCall ==
  ASSUME TypeInv, NEW k \in Kinds, Posts(k)
  PROVE  NewCall(k, "posting")
<1>1. "posting" \in CallAt \ {"got"}
  BY DEF CallAt
<1> QED  BY <1>1, MovesCall DEF Posts

LEMMA ReturnsCall ==
  ASSUME TypeInv, NEW k \in Kinds, Returns(k)
  PROVE  NewCall(k, "idle")
<1>1. Idle \in CallRecord /\ Idle.at = "idle"
  BY DEF Idle, CallRecord, CallAt
<1> QED  BY <1>1, SetsCall DEF Returns

(* A broadcast adds its event, unless the channel is full.                         *)
LEMMA BroadcastType ==
  ASSUME TypeInv, NEW e \in Event, broadcast(e)
  PROVE  /\ stream' \in Seq(Event)
         /\ \A i \in DOMAIN stream' : stream'[i] = e \/ (i \in DOMAIN stream /\ stream'[i] = stream[i])
BY AppendType DEF TypeInv, broadcast

LEMMA RunTypes ==
  ASSUME TypeInv
  PROVE  /\ run.state \in RunState /\ run.at \in Nat /\ run.rows \in Seq(Outcome)
         /\ run.going \in BOOLEAN
         /\ \A s \in RunState : /\ [run EXCEPT !.state = s] \in RunRecord
                                /\ [run EXCEPT !.state = s].state = s
                                /\ [run EXCEPT !.state = s].going = run.going
                                /\ [run EXCEPT !.state = s].rows = run.rows
BY DEF TypeInv, RunRecord

(* A call goes out when none is out, unless they may overlap.                      *)
OutStep ==
  \/ UNCHANGED call
  \/ \E k \in Kinds :
       /\ \A j \in Kinds \ {k} : call'[j] = call[j]
       /\ k \in Out \/ k \notin Out' \/ InTurn

(* The history is never rewritten.                                                 *)
Grows == run'.rows = run.rows \/ \E o \in Outcome : run'.rows = Append(run.rows, o)

(* What the run and the handlers do.                                               *)
ServerEffect ==
  /\ UNCHANGED <<mode, overlap, cached, fetch, page>>
  /\ run' \in RunRecord /\ Grows
  /\ stream' \in Seq(Event)
  /\ CallInv'
  /\ \A j \in Kinds : call'[j] = call[j] \/ call'[j].at # "got"
  /\ OutStep

LEMMA HandledEffect ==
  ASSUME TypeInv, UNCHANGED <<mode, overlap, cached, fetch, page>>,
         run' \in RunRecord, Grows, stream' \in Seq(Event),
         NEW k \in Kinds, NEW at \in CallAt \ {"got"}, NewCall(k, at),
         call[k].at \notin {"idle", "asking"}
  PROVE  ServerEffect
BY DEF ServerEffect, NewCall, OutStep, Out

LEMMA ServerEffects ==
  ASSUME TypeInv, Server \/ StreamBreaks
  PROVE  ServerEffect
<1>1. run \in RunRecord /\ CallInv /\ stream \in Seq(Event)
  BY DEF TypeInv
<1>2. CASE RunStep
  <2> DEFINE i == IF run.at < NSteps THEN run.at ELSE 0
  <2>1. /\ run' = [run EXCEPT !.rows = Append(run.rows, "ran"), !.at = i + 1]
        /\ broadcast("running") /\ i \in Nat /\ "ran" \in Outcome /\ "running" \in Event
    BY <1>2, RunTypes DEF RunStep, Outcome, Event
  <2>2. Append(run.rows, "ran") \in Seq(Outcome)
    BY <2>1, RunTypes, AppendType
  <2>3. run' \in RunRecord /\ run'.rows = Append(run.rows, "ran")
    <3> DEFINE n == i + 1
    <3>1. n \in Nat /\ run' = [run EXCEPT !.rows = Append(run.rows, "ran"), !.at = n]
      <4> HIDE DEF i
      <4> QED  BY <2>1
    <3> HIDE DEF n
    <3> QED  BY <1>1, <2>2, <3>1 DEF RunRecord
  <2> QED  BY <1>1, <1>2, <2>1, <2>3, BroadcastType
              DEF RunStep, ServerFrame, queryVars, ServerEffect, Grows, CallInv, OutStep
<1>3. CASE RunEnds
  <2>1. PICK s \in {"success", "error"}, e \in {"completed", "error", "paused"} :
          run' = [run EXCEPT !.state = s, !.at = NSteps, !.going = FALSE] /\ broadcast(e)
    BY <1>3 DEF RunEnds
  <2>2. s \in RunState /\ e \in Event /\ NSteps \in Nat
    BY DebuggerAssumption DEF RunState, Ended, Event
  <2>3. run' \in RunRecord /\ run'.rows = run.rows
    BY <1>1, <2>1, <2>2 DEF RunRecord
  <2> QED  BY <1>1, <1>3, <2>1, <2>2, <2>3, BroadcastType
              DEF RunEnds, ServerFrame, queryVars, ServerEffect, Grows, CallInv, OutStep
<1>4. CASE RunIsInterrupted
  <2>1. run' = [run EXCEPT !.state = "paused", !.at = 0, !.going = FALSE] /\ broadcast("paused")
    BY <1>4 DEF RunIsInterrupted
  <2>2. "paused" \in RunState /\ "paused" \in Event
    BY DEF RunState, Event
  <2>3. run' \in RunRecord /\ run'.rows = run.rows
    BY <1>1, <2>1, <2>2 DEF RunRecord
  <2> QED  BY <1>1, <1>4, <2>1, <2>2, <2>3, BroadcastType
              DEF RunIsInterrupted, ServerFrame, queryVars, ServerEffect, Grows, CallInv, OutStep
<1>5. CASE StreamBreaks
  BY <1>1, <1>5
     DEF StreamBreaks, serverVars, ServerFrame, queryVars, ServerEffect, Grows, CallInv, OutStep
<1> QED  BY <1>2, <1>3, <1>4, <1>5 DEF Server

LEMMA HandlersEffects ==
  ASSUME TypeInv, Handlers \/ \E k \in Kinds : CallFails(k)
  PROVE  ServerEffect
<1>1. run \in RunRecord /\ stream \in Seq(Event)
  BY DEF TypeInv
<1>2. \A at \in {"ok", "refused", "stepping"} : at \in CallAt \ {"got"}
  BY DEF CallAt
<1>3. \A k \in {"skip", "interrupt", "runToEnd", "stop"} : k \in Kinds
  BY DEF Kinds
<1>4. CASE SkipHandled
  <2>1. UNCHANGED <<mode, overlap, cached, fetch, page>>
    BY <1>4 DEF SkipHandled, CallFrame, queryVars
  <2>2. CASE Becomes("skip", "refused") /\ UNCHANGED <<run, stream>>
    BY <1>1, <1>2, <1>3, <1>4, <2>1, <2>2, BecomesCall, HandledEffect DEF SkipHandled, Grows
  <2>3. ASSUME NEW s \in {"success", "paused"}, NEW e \in {"completed", "paused"},
               run' = [run EXCEPT !.rows = Append(run.rows, "skipped"), !.at = run.at + 1, !.state = s],
               broadcast(e), Becomes("skip", "ok")
        PROVE  ServerEffect
    <3>1. Append(run.rows, "skipped") \in Seq(Outcome) /\ run.at + 1 \in Nat
      BY RunTypes, AppendType DEF Outcome
    <3>2. run' \in RunRecord /\ run'.rows = Append(run.rows, "skipped")
      BY <1>1, <2>3, <3>1 DEF RunRecord, RunState, Ended
    <3>3. stream' \in Seq(Event)
      BY <2>3, BroadcastType DEF Event
    <3>4. Grows /\ NewCall("skip", "ok") /\ call["skip"].at = "posting"
      BY <1>2, <1>3, <1>4, <2>3, <3>2, BecomesCall DEF SkipHandled, Grows, Outcome
    <3> QED  BY <1>2, <1>3, <2>1, <3>2, <3>3, <3>4, HandledEffect
  <2> QED  BY <1>4, <2>2, <2>3 DEF SkipHandled
<1>5. CASE InterruptHandled
  BY <1>1, <1>2, <1>3, <1>5, BecomesCall, HandledEffect
     DEF InterruptHandled, CallFrame, queryVars, Grows
<1>6. CASE RunToEndHandled
  <2> DEFINE gone == [run EXCEPT !.state = "running", !.going = TRUE]
  <2>1. gone \in RunRecord /\ gone.rows = run.rows
    BY <1>1 DEF RunRecord, RunState
  <2> HIDE DEF gone
  <2>2. /\ run' \in {run, gone} /\ UNCHANGED stream
        /\ Becomes("runToEnd", "ok") \/ Becomes("runToEnd", "refused")
        /\ UNCHANGED <<mode, overlap, cached, fetch, page>>
        /\ call["runToEnd"].at = "posting"
    BY <1>6 DEF RunToEndHandled, serverVars, gone, CallFrame, queryVars
  <2> QED  BY <1>1, <1>2, <1>3, <2>1, <2>2, BecomesCall, HandledEffect DEF Grows
<1>7. CASE StopHandled
  <2>1. PICK s \in {run.state, "aborted"} : run' = [run EXCEPT !.state = s]
    BY <1>7 DEF StopHandled
  <2>2. run' \in RunRecord /\ run'.rows = run.rows
    BY <2>1, RunTypes DEF RunState, Ended
  <2> QED  BY <1>1, <1>2, <1>3, <1>7, <2>2, BecomesCall, HandledEffect
              DEF StopHandled, CallFrame, queryVars, Grows
<1>8. ASSUME NEW k \in Kinds, StepBegins(k) PROVE ServerEffect
  <2>1. PICK s \in {run.state, "success"} :
          run' = run \/ run' = [run EXCEPT !.state = s]
    BY <1>8 DEF StepBegins
  <2>2. run' \in RunRecord /\ run'.rows = run.rows
    BY <1>1, <2>1, RunTypes DEF RunState, Ended
  <2>3. Becomes(k, "refused") \/ Becomes(k, "stepping")
    BY <1>8 DEF StepBegins
  <2> QED  BY <1>1, <1>2, <1>8, <2>2, <2>3, BecomesCall, HandledEffect
              DEF StepBegins, CallFrame, queryVars, Grows
<1>9. ASSUME NEW k \in Kinds, StepEnds(k) PROVE ServerEffect
  <2>1. PICK s \in {"error", "success", "paused"} :
          /\ run' = [run EXCEPT !.rows = Append(run.rows, "ran"), !.at = run.at + 1, !.state = s]
          /\ Becomes(k, "refused") \/ Becomes(k, "ok")
          /\ broadcast("paused") \/ UNCHANGED stream
    BY <1>9 DEF StepEnds
  <2>2. Append(run.rows, "ran") \in Seq(Outcome) /\ run.at + 1 \in Nat
    BY RunTypes, AppendType DEF Outcome
  <2>3. run' \in RunRecord /\ run'.rows = Append(run.rows, "ran")
    BY <1>1, <2>1, <2>2 DEF RunRecord, RunState, Ended
  <2>4. stream' \in Seq(Event)
    BY <1>1, <2>1, BroadcastType DEF Event
  <2>5. UNCHANGED <<mode, overlap, cached, fetch, page>>
    BY <1>9 DEF StepEnds, CallFrame, queryVars
  <2>6. Grows /\ call[k].at = "stepping"
    BY <1>9, <2>3 DEF Grows, Outcome, StepEnds
  <2> QED  BY <1>2, <2>1, <2>3, <2>4, <2>5, <2>6, BecomesCall, HandledEffect
<1>10. ASSUME NEW k \in Kinds, CallFails(k) PROVE ServerEffect
  BY <1>1, <1>2, <1>10, BecomesCall, HandledEffect
     DEF CallFails, CallFrame, serverVars, queryVars, Grows
<1> QED  BY <1>4, <1>5, <1>6, <1>7, <1>8, <1>9, <1>10 DEF Handlers

-----------------------------------------------------------------------------
(* What the page does: rows, states and snapshots are copied, and a snapshot is    *)
(* taken of the run as it is.                                                      *)
ClientEffect ==
  /\ UNCHANGED <<mode, overlap, run>>
  /\ stream' \in Seq(Event)
  /\ \A i \in DOMAIN stream' : \E j \in DOMAIN stream : stream'[i] = stream[j]
  /\ cached' = cached \/ (fetch # None /\ cached' = fetch)
  /\ fetch' \in {None, fetch, Snapshot}
  /\ page' \in PageRecord
  /\ \/ page'.rows \in {page.rows, cached.rows}
     \/ fetch # None /\ page'.rows = fetch.rows
     \/ \E k \in Kinds : call[k].at = "got" /\ page'.rows = call[k].snap.rows
  /\ CallInv'
  /\ \A j \in Kinds : call'[j].at = "got" => \/ call'[j] = call[j]
                                              \/ call'[j].snap = Snapshot
  /\ \A j \in Kinds : call'[j].at = "stepping" => call[j].at = "stepping"
  /\ OutStep
  /\ \/ page'.state \in {page.state, "running", "paused", "aborted"}
     \/ fetch # None /\ page'.state = fetch.state
     \/ \E k \in Kinds : call[k].at = "got" /\ page'.state = call[k].snap.state
     \/ \E i \in DOMAIN stream : stream[i] \in {"completed", "error"}

LEMMA PageOnly ==
  ASSUME TypeInv, UNCHANGED <<mode, overlap, run, stream, cached, fetch>>,
         page' \in PageRecord,
         \/ page'.rows = page.rows
         \/ \E k \in Kinds : call[k].at = "got" /\ page'.rows = call[k].snap.rows,
         \/ page'.state \in {page.state, "running", "paused", "aborted"}
         \/ \E k \in Kinds : call[k].at = "got" /\ page'.state = call[k].snap.state,
         \/ UNCHANGED call
         \/ \E k \in Kinds, at \in {"idle", "posting", "asking"} :
              NewCall(k, at) /\ (at = "posting" => InTurn \/ call[k].at \notin {"idle", "asking"})
  PROVE  ClientEffect
<1>1. stream \in Seq(Event) /\ CallInv
  BY DEF TypeInv
<1>2. CASE UNCHANGED call
  BY <1>1, <1>2 DEF ClientEffect, CallInv, OutStep
<1>3. ASSUME NEW k \in Kinds, NEW at \in {"idle", "posting", "asking"}, NewCall(k, at),
             at = "posting" => InTurn \/ call[k].at \notin {"idle", "asking"}
      PROVE  ClientEffect
  <2>1. /\ CallInv' /\ call'[k].at = at
        /\ \A j \in Kinds \ {k} : call'[j] = call[j]
    BY <1>3 DEF NewCall
  <2>2. OutStep
    BY <1>3, <2>1 DEF OutStep, Out
  <2>3. \A j \in Kinds : call'[j] = call[j] \/ call'[j].at \in {"idle", "posting", "asking"}
    BY <2>1
  <2> QED  BY <1>1, <2>1, <2>2, <2>3 DEF ClientEffect
<1> QED  BY <1>2, <1>3

LEMMA PageMoves ==
  ASSUME TypeInv, NEW s \in PageState, NEW on \in BOOLEAN
  PROVE  /\ page.state \in PageState /\ page.viewing \in BOOLEAN
         /\ [page EXCEPT !.state = reduce(page.state, s)] \in PageRecord
         /\ [page EXCEPT !.state = reduce(page.state, s)].rows = page.rows
         /\ [page EXCEPT !.state = reduce(page.state, s)].state \in {page.state, s}
         /\ [page EXCEPT !.state = s] \in PageRecord
         /\ [page EXCEPT !.state = s].rows = page.rows
         /\ [page EXCEPT !.state = s].state = s
         /\ [page EXCEPT !.viewing = on] \in PageRecord
         /\ [page EXCEPT !.viewing = on].rows = page.rows
         /\ [page EXCEPT !.viewing = on].state = page.state
<1>1. page.state \in PageState
  BY DEF TypeInv, PageRecord
<1>2. reduce(page.state, s) \in PageState /\ reduce(page.state, s) \in {page.state, s}
  BY <1>1, ReduceType
<1> QED  BY <1>1, <1>2 DEF TypeInv, PageRecord

LEMMA UserEffects ==
  ASSUME TypeInv, User
  PROVE  ClientEffect
<1>1. PageFrame => UNCHANGED <<mode, overlap, run, stream, cached, fetch>>
  BY DEF PageFrame, serverVars, queryVars
<1>2. /\ {"running", "paused", "aborted"} \subseteq PageState
      /\ {"idle", "posting", "asking"} \subseteq CallAt \ {"got"}
      /\ page \in PageRecord
  BY DEF PageState, Ended, CallAt, TypeInv
<1>3. CASE HistoryRow \/ BackToLive
  <2>1. PICK on \in BOOLEAN : page' = [page EXCEPT !.viewing = on] /\ UNCHANGED call /\ PageFrame
    BY <1>3, PageMoves, <1>2 DEF HistoryRow, BackToLive, viewHistorical
  <2> QED  BY <1>1, <1>2, <2>1, PageMoves, PageOnly
<1>4. CASE sendCcr
  BY <1>1, <1>2, <1>4, PageMoves, PostsCall, PageOnly DEF sendCcr, Editable, Kinds
<1>5. CASE skip
  BY <1>1, <1>2, <1>5, PostsCall, PageOnly DEF skip, Editable, Kinds
<1>6. CASE runToEnd
  BY <1>1, <1>2, <1>6, PageMoves, PostsCall, PageOnly DEF runToEnd, Kinds
<1>7. CASE interrupt
  BY <1>1, <1>2, <1>7, PageMoves, PostsCall, PageOnly DEF interrupt, Kinds
<1>8. CASE AskStop
  BY <1>1, <1>2, <1>8, MovesCall, PageOnly DEF AskStop, Kinds
<1>9. CASE CancelStop
  BY <1>1, <1>2, <1>9, ReturnsCall, PageOnly DEF CancelStop, Kinds
<1>10. CASE stop
  BY <1>1, <1>2, <1>10, PageMoves, PostsCall, PageOnly DEF stop, Kinds
<1> QED  BY <1>3, <1>4, <1>5, <1>6, <1>7, <1>8, <1>9, <1>10 DEF User

LEMMA QueryEffects ==
  ASSUME TypeInv, onEvent \/ Query
  PROVE  ClientEffect
<1>1. /\ stream \in Seq(Event) /\ page \in PageRecord /\ CallInv /\ cached \in Snap
  BY DEF TypeInv
<1>2. CASE onEvent
  <2>1. /\ Head(stream) \in Event /\ stream' = Tail(stream) /\ stream # <<>>
        /\ page' = ingestSse(page, Head(stream))
        /\ fetch' \in {None, fetch}
        /\ UNCHANGED <<mode, overlap, run, cached, call>>
    BY <1>1, <1>2, TailType DEF onEvent, serverVars
  <2>2. /\ Tail(stream) \in Seq(Event)
        /\ \A i \in DOMAIN Tail(stream) : i + 1 \in DOMAIN stream /\ Tail(stream)[i] = stream[i + 1]
    BY <1>1, <2>1
  <2>3. /\ page' \in PageRecord /\ page'.rows \in {page.rows, cached.rows}
        /\ \/ page'.state \in {page.state, "running", "paused"}
           \/ \E i \in DOMAIN stream : stream[i] \in {"completed", "error"}
    <3>1. 1 \in DOMAIN stream /\ stream[1] = Head(stream)
      BY <1>1, <2>1
    <3> QED  BY <2>1, <3>1, SseType
  <2> QED  BY <1>1, <2>1, <2>2, <2>3 DEF ClientEffect, CallInv, OutStep
<1>3. CASE Fetch
  BY <1>1, <1>3 DEF Fetch, serverVars, ClientEffect, CallInv, OutStep
<1>4. CASE FetchArrives
  <2>1. fetch # None /\ fetch \in Snap
    BY <1>4 DEF FetchArrives, TypeInv
  <2>2. /\ cached' = fetch /\ fetch' = None
        /\ page' \in {page, ingestSnapshot(page, fetch)}
        /\ UNCHANGED <<mode, overlap, run, stream, call>>
    BY <1>4 DEF FetchArrives, serverVars
  <2>3. /\ page' \in PageRecord /\ page'.rows \in {page.rows, fetch.rows}
        /\ page'.state \in {page.state, fetch.state}
    BY <1>1, <2>1, <2>2, IngestType
  <2> QED  BY <1>1, <2>1, <2>2, <2>3 DEF ClientEffect, CallInv, OutStep
<1> QED  BY <1>2, <1>3, <1>4 DEF Query

LEMMA AnswersEffects ==
  ASSUME TypeInv, Answers
  PROVE  ClientEffect
<1>1. AnswerFrame => UNCHANGED <<mode, overlap, run, stream, cached, fetch>>
  BY DEF AnswerFrame, serverVars, queryVars
<1>2. /\ "paused" \in PageState
      /\ {"idle", "posting", "asking"} \subseteq CallAt \ {"got"}
      /\ page \in PageRecord /\ CallInv
  BY DEF PageState, CallAt, TypeInv
<1>3. CASE SendFails
  BY <1>1, <1>2, <1>3, PageMoves, ReturnsCall, PageOnly DEF SendFails, Kinds
<1>4. CASE SkipFails
  BY <1>1, <1>2, <1>4, ReturnsCall, PageOnly DEF SkipFails, Kinds
<1>5. CASE RunToEndGoesOn
  <2> DEFINE s == call["runToEnd"].snap
             seen == [page EXCEPT !.rows = s.rows]
  <2>1. s \in Snap /\ call["runToEnd"].at = "got" /\ "runToEnd" \in Kinds
    BY <1>2, <1>5 DEF RunToEndGoesOn, Kinds, CallInv
  <2>2. seen \in PageRecord /\ seen.state = page.state /\ seen.rows = s.rows
    BY <1>2, <2>1 DEF Snap, PageRecord
  <2>3. /\ ingestSnapshot(seen, s) \in PageRecord /\ ingestSnapshot(seen, s).rows = s.rows
        /\ ingestSnapshot(seen, s).state \in {page.state, s.state}
    BY <2>1, <2>2, IngestRecord
  <2> HIDE DEF s, seen
  <2>4. page' \in {seen, ingestSnapshot(seen, s)} /\ AnswerFrame
    BY <1>5 DEF RunToEndGoesOn, s, seen
  <2>5. PICK at \in {"idle", "posting"} : NewCall("runToEnd", at)
    <3>1. CASE Returns("runToEnd")
      BY <2>1, <3>1, ReturnsCall
    <3> DEFINE c == [at |-> "posting", snap |-> None]
    <3>2. CASE call' = [call EXCEPT !["runToEnd"] = c]
      <4>1. c \in CallRecord /\ c.at = "posting"
        BY DEF CallRecord, CallAt
      <4> HIDE DEF c
      <4> QED  BY <2>1, <3>2, <4>1, SetsCall
    <3> QED  BY <1>5, <3>1, <3>2 DEF RunToEndGoesOn
  <2>6. /\ page' \in PageRecord /\ page'.rows = call["runToEnd"].snap.rows
        /\ page'.state \in {page.state, call["runToEnd"].snap.state}
    BY <2>2, <2>3, <2>4 DEF s
  <2> QED  BY <1>1, <1>2, <2>1, <2>4, <2>5, <2>6, PageOnly
<1>6. ASSUME NEW k \in Kinds, GetsSnapshot(k) PROVE ClientEffect
  <2> DEFINE c == [at |-> "got", snap |-> Snapshot]
  <2>1. c \in CallRecord /\ c.at = "got" /\ c.snap \in Snap /\ c.snap = Snapshot
    BY SnapshotType DEF CallRecord, CallAt
  <2>2. call' = [call EXCEPT ![k] = c] /\ UNCHANGED page /\ AnswerFrame
    BY <1>6 DEF GetsSnapshot
  <2> HIDE DEF c
  <2>3. NewCall(k, "got") /\ call'[k] = c
    BY <2>1, <2>2, SetsCall
  <2>4. OutStep
    BY <1>6, <2>3 DEF GetsSnapshot, NewCall, OutStep, Out
  <2> QED  BY <1>1, <1>2, <2>1, <2>2, <2>3, <2>4 DEF NewCall, ClientEffect, TypeInv
<1>7. ASSUME NEW k \in Kinds, SnapshotArrives(k) PROVE ClientEffect
  <2>1. call[k].at = "got" /\ call[k].snap \in Snap
    BY <1>2, <1>7 DEF SnapshotArrives, CallInv
  <2>2. /\ page' \in PageRecord /\ page'.rows = call[k].snap.rows
        /\ page'.state \in {page.state, call[k].snap.state}
    BY <1>7, <2>1, IngestType DEF SnapshotArrives
  <2> QED  BY <1>1, <1>2, <1>7, <2>1, <2>2, ReturnsCall, PageOnly DEF SnapshotArrives
<1>8. ASSUME NEW k \in Kinds, ControlReturns(k) PROVE ClientEffect
  BY <1>1, <1>2, <1>8, BecomesCall, ReturnsCall, PageOnly DEF ControlReturns
<1> QED  BY <1>3, <1>4, <1>5, <1>6, <1>7, <1>8 DEF Answers

LEMMA Effects ==
  ASSUME TypeInv, [Next]_vars
  PROVE  ServerEffect \/ ClientEffect
<1>1. CASE UNCHANGED vars
  BY <1>1, PageOnly DEF vars, TypeInv
<1> QED  BY <1>1, ServerEffects, HandlersEffects, UserEffects, QueryEffects, AnswersEffects
      DEF Next, Stream

LEMMA InitTypes ==
  ASSUME Init
  PROVE  TypeInv
<1>1. /\ mode \in {"interactive", "continuous"} /\ overlap \in BOOLEAN
      /\ run \in RunRecord
  <2>1. <<>> \in Seq(Outcome) /\ <<"ran">> \in Seq(Outcome) /\ NSteps \in Nat
    BY DebuggerAssumption DEF Outcome
  <2>2. CASE run = [state |-> IF mode = "interactive" THEN "paused" ELSE "running",
                    at |-> 0, rows |-> <<>>, going |-> mode = "continuous"]
    BY <2>1, <2>2 DEF Init, RunRecord, RunState
  <2>3. CASE run = [state |-> "error", at |-> NSteps, rows |-> <<"ran">>, going |-> FALSE]
    BY <2>1, <2>3 DEF Init, RunRecord, RunState, Ended
  <2>4. mode \in {"interactive", "continuous"} /\ overlap \in BOOLEAN
    BY DEF Init
  <2> QED  BY <2>2, <2>3, <2>4 DEF Init
<1>2. cached \in Snap
  BY <1>1, SnapshotRecord DEF Init
<1>3. page \in PageRecord
  <2>1. FreshPage.state \in PageState /\ FreshPage \in PageRecord
    BY DEF PageState, FreshPage, PageRecord, Rows
  <2> QED  BY <1>2, <2>1, IngestRecord DEF Init
<1>4. Idle \in CallRecord /\ Idle.at # "got"
  BY DEF Idle, CallRecord, CallAt
<1>5. CallInv
  BY <1>4 DEF Init, CallInv
<1> QED  BY <1>1, <1>2, <1>3, <1>5 DEF Init, TypeInv

(* No snapshot, event, answer or refusal leaves the page, the cache or a call with *)
(* half a record (executionStore.ts, ExecutionSnapshotBridge.tsx,                  *)
(* useExecutionSseDriver.ts).                                                      *)
THEOREM TypeCorrect == Spec => []TypeInv
<1>1. Init => TypeInv
  BY InitTypes
<1>2. TypeInv /\ [Next]_vars => TypeInv'
  <2> SUFFICES ASSUME TypeInv, [Next]_vars PROVE TypeInv'
    OBVIOUS
  <2>1. CASE ServerEffect
    BY <2>1 DEF ServerEffect, TypeInv
  <2>2. CASE ClientEffect
    BY <2>2, SnapshotType DEF ClientEffect, TypeInv
  <2> QED  BY <2>1, <2>2, Effects
<1> QED  BY <1>1, <1>2, PTL DEF Spec

-----------------------------------------------------------------------------
(* The rows.                                                                       *)

(* Every snapshot there is, and the page, show the history.                        *)
HistoryInv ==
  /\ ShowsHistory(page.rows, run.rows) /\ ShowsHistory(cached.rows, run.rows)
  /\ fetch # None => ShowsHistory(fetch.rows, run.rows)
  /\ \A k \in Kinds : call[k].at = "got" => ShowsHistory(call[k].snap.rows, run.rows)

(* Rows that show a history show a longer one.                                     *)
LEMMA HistoryKept ==
  ASSUME TypeInv, Grows, NEW rows \in Rows, ShowsHistory(rows, run.rows)
  PROVE  ShowsHistory(rows, run'.rows)
<1>1. CASE run'.rows = run.rows
  BY <1>1
<1>2. ASSUME NEW o \in Outcome, run'.rows = Append(run.rows, o) PROVE ShowsHistory(rows, run'.rows)
  <2> DEFINE h == Append(run.rows, o)
  <2>1. Len(run.rows) \in Nat /\ Len(h) = Len(run.rows) + 1
    BY RunTypes, AppendType
  <2>2. \A i \in DOMAIN rows : i <= Len(run.rows) => i <= Len(h) /\ h[i] = run.rows[i]
    <3>1. \A i \in DOMAIN rows : i \in Nat /\ i >= 1
      BY DEF Rows
    <3>2. \A i \in 1..Len(run.rows) : h[i] = run.rows[i]
      BY RunTypes, AppendType
    <3> HIDE DEF h
    <3> QED  BY <2>1, <3>1, <3>2
  <2> QED  BY <1>2, <2>1, <2>2 DEF ShowsHistory
<1> QED  BY <1>1, <1>2 DEF Grows

(* However snapshots, events and answers overtake each other, and however many     *)
(* steps ran meanwhile, the page shows no row that is not the history's, but for   *)
(* the last, pending one (ingestSnapshot and ingestSse, executionStore.ts).        *)
THEOREM ShownRowsAreTheHistory == Spec => []ShownRowsAreHistory
<1>1. Init => HistoryInv
  <2> SUFFICES ASSUME Init PROVE HistoryInv
    OBVIOUS
  <2>1. TypeInv
    BY InitTypes
  <2>2. ShowsHistory(cached.rows, run.rows) /\ page.rows = cached.rows
    <3>1. FreshPage \in PageRecord /\ cached \in Snap /\ cached = Snapshot
      BY <2>1 DEF Init, PageState, FreshPage, PageRecord, Rows, TypeInv
    <3> QED  BY <2>1, <3>1, SnapshotType, IngestRecord DEF Init
  <2> QED  BY <2>2 DEF Init, HistoryInv, Idle
<1>2. TypeInv /\ TypeInv' /\ HistoryInv /\ [Next]_vars => HistoryInv'
  <2> SUFFICES ASSUME TypeInv, HistoryInv, [Next]_vars PROVE HistoryInv'
    OBVIOUS
  <2>1. CASE ServerEffect
    BY <2>1, HistoryKept DEF ServerEffect, HistoryInv, TypeInv, CallInv, PageRecord, Snap
  <2>2. CASE ClientEffect
    BY <2>2, SnapshotType DEF ClientEffect, HistoryInv
  <2> QED  BY <2>1, <2>2, Effects
<1>3. HistoryInv => ShownRowsAreHistory
  BY DEF HistoryInv, ShownRowsAreHistory
<1> QED  BY <1>1, <1>2, <1>3, TypeCorrect, PTL DEF Spec

-----------------------------------------------------------------------------
(* The end.                                                                        *)

(* The goroutine of a continuous run works until its end or a stop.                *)
RunInv ==
  /\ run.state = "running" => run.going
  /\ run.going => run.state \in {"running", "aborted"} /\ mode = "continuous"
  /\ overlap => mode = "interactive"

Finished == {"success", "failure", "error"}

(* Nothing says that the run is over.                                              *)
NoEndInSight ==
  /\ \A i \in DOMAIN stream : stream[i] \notin {"completed", "error"}
  /\ cached.state \notin Finished
  /\ fetch # None => fetch.state \notin Finished
  /\ \A k \in Kinds : call[k].at = "got" => call[k].snap.state \notin Finished
  /\ page.state \notin Finished

InTurnInv ==
  /\ \A j, k \in Kinds : j \in Out /\ k \in Out => j = k
  /\ \A k \in Kinds : call[k].at = "stepping" => run.state = "paused"
  /\ Over \/ NoEndInSight

EndInv == RunInv /\ (~overlap => InTurnInv)

(* With calls made in turn no second one goes out, so nothing else happens while a *)
(* step is being made.                                                             *)
LEMMA OneCallOut ==
  ASSUME \A j, k \in Kinds : j \in Out /\ k \in Out => j = k, OutStep, ~overlap
  PROVE  \A j, k \in Kinds : j \in Out' /\ k \in Out' => j = k
BY DEF OutStep, Out, InTurn

LEMMA StepsAlone ==
  ASSUME \A j, k \in Kinds : j \in Out /\ k \in Out => j = k,
         NEW k \in Kinds, call[k].at \notin {"idle", "asking"}
  PROVE  \A j \in Kinds \ {k} : call[j].at # "stepping"
BY DEF Out

LEMMA SetsRun ==
  ASSUME TypeInv, NEW s, NEW n, NEW g, NEW rows
  PROVE  /\ [run EXCEPT !.state = s].state = s
         /\ [run EXCEPT !.state = s].going = run.going
         /\ [run EXCEPT !.state = s, !.at = n, !.going = g].state = s
         /\ [run EXCEPT !.state = s, !.at = n, !.going = g].going = g
         /\ [run EXCEPT !.state = s, !.going = g].state = s
         /\ [run EXCEPT !.state = s, !.going = g].going = g
         /\ [run EXCEPT !.rows = rows, !.at = n].state = run.state
         /\ [run EXCEPT !.rows = rows, !.at = n].going = run.going
         /\ [run EXCEPT !.rows = rows, !.at = n, !.state = s].state = s
         /\ [run EXCEPT !.rows = rows, !.at = n, !.state = s].going = run.going
BY DEF TypeInv, RunRecord

(* Until the run is over the server announces no end.                              *)
LEMMA NothingNew ==
  ASSUME TypeInv, NoEndInSight, ServerEffect,
         \A i \in DOMAIN stream' : \/ stream'[i] \in {"running", "paused"}
                                   \/ i \in DOMAIN stream /\ stream'[i] = stream[i]
  PROVE  NoEndInSight'
BY DEF NoEndInSight, ServerEffect

LEMMA AnnouncedCalmly ==
  ASSUME TypeInv, NEW e \in {"running", "paused"}, broadcast(e)
  PROVE  \A i \in DOMAIN stream' : \/ stream'[i] \in {"running", "paused"}
                                   \/ i \in DOMAIN stream /\ stream'[i] = stream[i]
BY BroadcastType DEF Event

LEMMA ServerKeepsEnd ==
  ASSUME TypeInv, EndInv, Server \/ StreamBreaks
  PROVE  EndInv'
<1>1. ServerEffect /\ mode' = mode /\ overlap' = overlap
  BY ServerEffects DEF ServerEffect
<1>2. UNCHANGED call
  BY DEF Server, RunStep, RunEnds, RunIsInterrupted, StreamBreaks, ServerFrame
<1>3. CASE RunStep
  <2>1. /\ run'.state = run.state /\ run'.going = run.going /\ run.going
        /\ broadcast("running")
    <3> DEFINE n == (IF run.at < NSteps THEN run.at ELSE 0) + 1
    <3>1. run' = [run EXCEPT !.rows = Append(run.rows, "ran"), !.at = n]
      BY <1>3 DEF RunStep
    <3>2. run.going /\ broadcast("running")
      BY <1>3 DEF RunStep
    <3> HIDE DEF n
    <3> QED  BY <3>1, <3>2, SetsRun
  <2>2. NoEndInSight => NoEndInSight'
    BY <1>1, <2>1, NothingNew, AnnouncedCalmly
  <2> QED  BY <1>1, <1>2, <2>1, <2>2 DEF EndInv, RunInv, InTurnInv, Out, Over
<1>4. CASE RunEnds
  <2>1. run'.state \in {"success", "error"} /\ ~ run'.going /\ run.going
    BY <1>4, SetsRun DEF RunEnds
  <2> QED  BY <1>1, <1>2, <2>1 DEF EndInv, RunInv, InTurnInv, Out, Over, Ended
<1>5. CASE RunIsInterrupted
  <2>1. run'.state = "paused" /\ ~ run'.going /\ run.going /\ broadcast("paused")
    BY <1>5, SetsRun DEF RunIsInterrupted
  <2>2. NoEndInSight => NoEndInSight'
    BY <1>1, <2>1, NothingNew, AnnouncedCalmly
  <2> QED  BY <1>1, <1>2, <2>1, <2>2 DEF EndInv, RunInv, InTurnInv, Out, Over
<1>6. CASE StreamBreaks
  <2>1. run' = run /\ stream' = <<>>
    BY <1>6 DEF StreamBreaks, serverVars
  <2>2. NoEndInSight => NoEndInSight'
    BY <1>1, <2>1, NothingNew
  <2> QED  BY <1>1, <1>2, <2>1, <2>2 DEF EndInv, RunInv, InTurnInv, Out, Over
<1> QED  BY <1>3, <1>4, <1>5, <1>6 DEF Server

LEMMA HandlersKeepEnd ==
  ASSUME TypeInv, EndInv, Handlers \/ \E k \in Kinds : CallFails(k)
  PROVE  EndInv'
<1>1. ServerEffect /\ mode' = mode /\ overlap' = overlap /\ OutStep
  BY HandlersEffects DEF ServerEffect
<1>2. ~overlap /\ InTurnInv => \A j, k \in Kinds : j \in Out' /\ k \in Out' => j = k
  BY <1>1, OneCallOut DEF InTurnInv
<1>3. UNCHANGED stream /\ NoEndInSight => NoEndInSight'
  BY <1>1, NothingNew
<1>4. ASSUME NEW k \in Kinds, NEW at \in CallAt \ {"got"}, call[k].at \notin {"idle", "asking"},
             Becomes(k, at), RunInv', Over \/ NoEndInSight => (Over \/ NoEndInSight)',
             at = "stepping" => run'.state = "paused"
      PROVE  EndInv'
  <2>1. call'[k].at = at /\ \A j \in Kinds \ {k} : call'[j] = call[j]
    BY <1>4, BecomesCall DEF NewCall
  <2>2. ~overlap /\ InTurnInv => \A j \in Kinds : call'[j].at = "stepping" => run'.state = "paused"
    BY <1>4, <2>1, StepsAlone DEF InTurnInv
  <2> QED  BY <1>1, <1>2, <1>4, <2>2 DEF EndInv, InTurnInv
<1>5. \A at \in {"ok", "refused", "stepping"} : at \in CallAt \ {"got"}
  BY DEF CallAt
<1>6. \A k \in {"skip", "interrupt", "runToEnd", "stop"} : k \in Kinds
  BY DEF Kinds
<1>7. CASE SkipHandled
  <2>1. CASE Becomes("skip", "refused") /\ UNCHANGED <<run, stream>>
    <3>1. RunInv' /\ (Over \/ NoEndInSight => (Over \/ NoEndInSight)')
      BY <1>1, <1>3, <2>1 DEF EndInv, RunInv, Over
    <3> QED  BY <1>4, <1>5, <1>6, <1>7, <2>1, <3>1 DEF SkipHandled
  <2>2. ASSUME NEW s \in {"success", "paused"}, run.state = "paused",
               run' = [run EXCEPT !.rows = Append(run.rows, "skipped"), !.at = run.at + 1, !.state = s],
               broadcast(IF s = "success" THEN "completed" ELSE "paused"), Becomes("skip", "ok")
        PROVE  EndInv'
    <3>1. run'.state = s /\ run'.going = run.going /\ ~ run.going
      BY <2>2, SetsRun DEF EndInv, RunInv
    <3>2. s = "paused" /\ NoEndInSight => NoEndInSight'
      BY <1>1, <2>2, NothingNew, AnnouncedCalmly
    <3>3. RunInv' /\ (Over \/ NoEndInSight => (Over \/ NoEndInSight)')
      BY <1>1, <2>2, <3>1, <3>2 DEF EndInv, RunInv, Over, Ended
    <3> QED  BY <1>4, <1>5, <1>6, <1>7, <2>2, <3>3 DEF SkipHandled
  <2> QED  BY <1>7, <2>1, <2>2 DEF SkipHandled
<1>8. CASE InterruptHandled
  <2>1. RunInv' /\ (Over \/ NoEndInSight => (Over \/ NoEndInSight)')
    BY <1>1, <1>3, <1>8 DEF InterruptHandled, EndInv, RunInv, Over
  <2> QED  BY <1>4, <1>5, <1>6, <1>8, <2>1 DEF InterruptHandled
<1>9. CASE RunToEndHandled
  <2>1. \/ run' = run
        \/ run.state = "paused" /\ run'.state = "running" /\ run'.going
    <3> DEFINE gone == [run EXCEPT !.state = "running", !.going = TRUE]
    <3>1. gone.state = "running" /\ gone.going = TRUE
      BY DEF TypeInv, RunRecord
    <3> HIDE DEF gone
    <3>2. run' = run \/ (run.state = "paused" /\ run' = gone)
      BY <1>9 DEF RunToEndHandled, serverVars, gone
    <3> QED  BY <3>1, <3>2
  <2>2. mode = "continuous" /\ UNCHANGED stream
    BY <1>9 DEF RunToEndHandled
  <2>3. RunInv' /\ (Over \/ NoEndInSight => (Over \/ NoEndInSight)')
    BY <1>1, <1>3, <2>1, <2>2 DEF EndInv, RunInv, Over, Ended
  <2> QED  BY <1>4, <1>5, <1>6, <1>9, <2>3 DEF RunToEndHandled
<1>10. CASE StopHandled
  <2>1. /\ run'.state = (IF Halted THEN run.state ELSE "aborted") /\ run'.going = run.going
        /\ UNCHANGED stream
    BY <1>10, SetsRun DEF StopHandled
  <2>2. RunInv' /\ (Over \/ NoEndInSight => (Over \/ NoEndInSight)')
    BY <1>1, <1>3, <2>1 DEF EndInv, RunInv, Over, Ended, Halted
  <2> QED  BY <1>4, <1>5, <1>6, <1>10, <2>2 DEF StopHandled
<1>11. ASSUME NEW k \in Kinds, StepBegins(k) PROVE EndInv'
  <2>1. call[k].at = "posting" /\ UNCHANGED stream
    BY <1>11 DEF StepBegins
  <2>2. CASE UNCHANGED run
    <3>1. RunInv' /\ (Over \/ NoEndInSight => (Over \/ NoEndInSight)')
      BY <1>1, <1>3, <2>1, <2>2 DEF EndInv, RunInv, Over
    <3>2. PICK at \in {"refused", "stepping"} :
            Becomes(k, at) /\ (at = "stepping" => ~Halted /\ (mode = "interactive" \/ run.state = "paused"))
      BY <1>11, <2>2 DEF StepBegins
    <3>3. at = "stepping" => run'.state = "paused"
      BY <2>2, <3>2 DEF Halted, EndInv, RunInv
    <3> QED  BY <1>4, <1>5, <2>1, <3>1, <3>2, <3>3
  <2>3. CASE /\ ~Halted /\ (mode = "interactive" \/ run.state = "paused")
             /\ run' = [run EXCEPT !.state = "success"] /\ Becomes(k, "refused")
    <3>1. run'.state = "success" /\ run'.going = run.going /\ ~ run.going
      BY <2>3, SetsRun DEF EndInv, RunInv
    <3>2. RunInv' /\ Over'
      BY <1>1, <3>1 DEF EndInv, RunInv, Over, Ended
    <3> QED  BY <1>4, <1>5, <2>1, <2>3, <3>2
  <2> QED  BY <1>11, <2>2, <2>3 DEF StepBegins
<1>12. ASSUME NEW k \in Kinds, StepEnds(k) PROVE EndInv'
  <2>1. PICK s \in {"error", "success", "paused"}, at \in {"refused", "ok"} :
          /\ run' = [run EXCEPT !.rows = Append(run.rows, "ran"), !.at = run.at + 1, !.state = s]
          /\ Becomes(k, at)
          /\ broadcast("paused") \/ UNCHANGED stream
          /\ call[k].at = "stepping"
    BY <1>12 DEF StepEnds
  <2>2. run'.state = s /\ run'.going = run.going
    BY <2>1, SetsRun
  <2>3. ~ run.going /\ (~overlap => run.state = "paused")
    BY <2>1 DEF EndInv, RunInv, InTurnInv, TypeInv
  <2>4. NoEndInSight => NoEndInSight'
    BY <1>1, <1>3, <2>1, NothingNew, AnnouncedCalmly
  <2>5. RunInv'
    BY <1>1, <2>2, <2>3 DEF EndInv, RunInv
  <2>6. CASE overlap
    BY <1>1, <2>5, <2>6 DEF EndInv
  <2>7. CASE ~overlap
    <3>1. Over \/ NoEndInSight => (Over \/ NoEndInSight)'
      BY <2>2, <2>3, <2>4, <2>7 DEF Over, Ended
    <3> QED  BY <1>4, <1>5, <2>1, <2>5, <3>1
  <2> QED  BY <2>6, <2>7
<1>13. ASSUME NEW k \in Kinds, CallFails(k) PROVE EndInv'
  <2>1. RunInv' /\ (Over \/ NoEndInSight => (Over \/ NoEndInSight)')
    BY <1>1, <1>3, <1>13 DEF CallFails, serverVars, EndInv, RunInv, Over
  <2> QED  BY <1>4, <1>5, <1>13, <2>1 DEF CallFails
<1> QED  BY <1>7, <1>8, <1>9, <1>10, <1>11, <1>12, <1>13 DEF Handlers

LEMMA ClientKeepsEnd ==
  ASSUME TypeInv, EndInv, ClientEffect
  PROVE  EndInv'
<1>1. UNCHANGED <<mode, overlap, run>> /\ OutStep
  BY DEF ClientEffect
<1>2. RunInv' /\ (Over' <=> Over)
  BY <1>1 DEF EndInv, RunInv, Over
<1>3. ASSUME ~overlap PROVE InTurnInv'
  <2>1. \A j, k \in Kinds : j \in Out' /\ k \in Out' => j = k
    BY <1>1, <1>3, OneCallOut DEF EndInv, InTurnInv
  <2>2. \A j \in Kinds : call'[j].at = "stepping" => run'.state = "paused"
    BY <1>1, <1>3 DEF ClientEffect, EndInv, InTurnInv
  <2>3. CASE Over
    BY <1>2, <2>1, <2>2, <2>3 DEF InTurnInv
  <2>4. CASE ~Over
    <3>1. NoEndInSight
      BY <1>3, <2>4 DEF EndInv, InTurnInv
    <3>2. Snapshot.state = run.state /\ run.state \notin Finished
      BY <2>4, SnapshotType DEF EndInv, RunInv, Over, Finished, Ended
    <3>3. {"running", "paused", "aborted"} \cap Finished = {}
      BY DEF Finished
    <3>4. NoEndInSight'
      BY <3>1, <3>2, <3>3 DEF ClientEffect, NoEndInSight
    <3> QED  BY <2>1, <2>2, <3>4 DEF InTurnInv
  <2> QED  BY <2>3, <2>4
<1> QED  BY <1>1, <1>2, <1>3 DEF EndInv

(* With calls made in turn the page shows no end of a run that goes on, whatever   *)
(* was optimistic, dropped or late (the reducer and the three writers of the       *)
(* store, executionStore.ts).                                                      *)
THEOREM ShownEndIsTheEnd == Spec => []ShownEndIsReal
<1>1. Init => EndInv
  <2> SUFFICES ASSUME Init PROVE EndInv
    OBVIOUS
  <2>1. FreshPage \in PageRecord /\ cached \in Snap /\ cached = Snapshot /\ FreshPage.state = "pending"
    <3>1. FreshPage \in PageRecord /\ FreshPage.state = "pending"
      BY DEF PageState, FreshPage, PageRecord, Rows
    <3> QED  BY <3>1, InitTypes DEF Init, TypeInv
  <2>2. page.state \in {"pending", run.state} /\ cached.state = run.state
    <3>1. page = ingestSnapshot(FreshPage, cached)
      BY DEF Init
    <3>2. cached.state = run.state
      BY <2>1, InitTypes, SnapshotType
    <3> QED  BY <2>1, <3>1, <3>2, IngestRecord
  <2>3. RunInv
    <3>1. \/ run.state = (IF mode = "interactive" THEN "paused" ELSE "running")
             /\ run.going = (mode = "continuous")
          \/ run.state = "error" /\ run.going = FALSE
      <4>1. CASE run = [state |-> IF mode = "interactive" THEN "paused" ELSE "running",
                        at |-> 0, rows |-> <<>>, going |-> mode = "continuous"]
        BY <4>1
      <4>2. CASE run = [state |-> "error", at |-> NSteps, rows |-> <<"ran">>, going |-> FALSE]
        BY <4>2
      <4> QED  BY <4>1, <4>2 DEF Init
    <3>2. mode \in {"interactive", "continuous"} /\ (overlap => mode = "interactive")
      BY DEF Init
    <3> QED  BY <3>1, <3>2 DEF RunInv
  <2>4. Out = {} /\ \A k \in Kinds : call[k].at = "idle"
    BY DEF Init, Out, Idle
  <2>5. Over \/ NoEndInSight
    BY <2>2, <2>4 DEF Init, NoEndInSight, Over, Ended, Finished
  <2> QED  BY <2>3, <2>4, <2>5 DEF EndInv, InTurnInv
<1>2. TypeInv /\ EndInv /\ [Next]_vars => EndInv'
  <2> SUFFICES ASSUME TypeInv, EndInv, [Next]_vars PROVE EndInv'
    OBVIOUS
  <2>1. CASE UNCHANGED vars
    <3>1. ClientEffect
      BY <2>1, PageOnly DEF vars, TypeInv
    <3> QED  BY <3>1, ClientKeepsEnd
  <2> QED  BY <2>1, ServerKeepsEnd, HandlersKeepEnd, UserEffects, QueryEffects, AnswersEffects, ClientKeepsEnd
        DEF Next, Stream
<1>3. EndInv => ShownEndIsReal
  BY DEF EndInv, InTurnInv, NoEndInSight, Over, Finished, ShownEndIsReal
<1> QED  BY <1>1, <1>2, <1>3, TypeCorrect, PTL DEF Spec

(* Even with overlapping calls, an end that is shown is left by one action only,   *)
(* the answer to a Send that failed, which puts back the state the page had        *)
(* before (sendCcr, executionStore.ts).                                            *)
THEOREM ShownEndIsLeftByFailedSend == Spec => EndIsLeftByFailedSendOnly
<1>1. TypeInv /\ [Next]_vars => [page.state \in Ended /\ page'.state # page.state => SendFails]_vars
  <2> SUFFICES ASSUME TypeInv, Next, page.state \in Ended, page'.state # page.state PROVE SendFails
    OBVIOUS
  <2>0. ~ UNCHANGED page
    OBVIOUS
  <2>1. \A s \in PageState : [page EXCEPT !.state = reduce(page.state, s)].state = page.state
    BY PageMoves, ReduceType DEF TypeInv, PageRecord
  <2>2. {"running", "paused", "aborted"} \subseteq PageState
    BY DEF PageState, Ended
  <2>3. ~ (Server \/ StreamBreaks \/ Handlers \/ \E k \in Kinds : CallFails(k))
    BY <2>0, ServerEffects, HandlersEffects DEF ServerEffect
  <2>4. ~ User
    <3>1. ~ (HistoryRow \/ BackToLive)
      <4> SUFFICES ASSUME HistoryRow \/ BackToLive PROVE FALSE
        OBVIOUS
      <4>1. PICK on \in BOOLEAN : page' = [page EXCEPT !.viewing = on]
        BY PageMoves, <2>2 DEF HistoryRow, BackToLive, viewHistorical
      <4> QED  BY <2>2, <4>1, PageMoves
    <3>2. ~ (sendCcr \/ runToEnd \/ interrupt \/ stop)
      <4> SUFFICES ASSUME sendCcr \/ runToEnd \/ interrupt \/ stop PROVE FALSE
        OBVIOUS
      <4>1. PICK s \in PageState : page' = [page EXCEPT !.state = reduce(page.state, s)]
        BY <2>2 DEF sendCcr, runToEnd, interrupt, stop
      <4> QED  BY <2>1, <4>1
    <3>3. ~ (skip \/ AskStop \/ CancelStop)
      BY <2>0 DEF skip, AskStop, CancelStop
    <3> QED  BY <3>1, <3>2, <3>3 DEF User
  <2>5. ~ onEvent
    BY <2>0, TailType, SseType DEF onEvent, TypeInv
  <2>6. ~ Query
    BY <2>0, IngestType DEF Query, Fetch, FetchArrives, TypeInv
  <2>7. ~ RunToEndGoesOn
    <3> SUFFICES ASSUME RunToEndGoesOn PROVE FALSE
      OBVIOUS
    <3> DEFINE s == call["runToEnd"].snap
               seen == [page EXCEPT !.rows = s.rows]
    <3>1. s \in Snap
      BY DEF RunToEndGoesOn, Kinds, TypeInv, CallInv
    <3>2. seen \in PageRecord /\ seen.state = page.state
      BY <3>1 DEF TypeInv, Snap, PageRecord
    <3>3. ingestSnapshot(seen, s).state = page.state
      BY <3>1, <3>2, IngestRecord
    <3>4. page' \in {seen, ingestSnapshot(seen, s)}
      BY DEF RunToEndGoesOn
    <3> QED  BY <3>2, <3>3, <3>4
  <2>8. ASSUME NEW k \in Kinds PROVE ~ SnapshotArrives(k)
    BY IngestType DEF SnapshotArrives, TypeInv, CallInv
  <2>9. ~ SkipFails /\ \A k \in Kinds : ~ GetsSnapshot(k) /\ ~ ControlReturns(k)
    BY <2>0 DEF SkipFails, GetsSnapshot, ControlReturns
  <2> QED  BY <2>3, <2>4, <2>5, <2>6, <2>7, <2>8, <2>9 DEF Next, Stream, Answers
<1> QED  BY <1>1, TypeCorrect, PTL DEF Spec, EndIsLeftByFailedSendOnly

=============================================================================
