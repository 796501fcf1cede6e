---------------------------------- MODULE AiChat ----------------------------------
(* The AI assistant of the web application: the chat store (chatStore.ts), the     *)
(* hook that reads the POST event stream (useChatSse.ts), the compose bar and      *)
(* the permission prompt, the page that wires them, and the agent at the other     *)
(* end of the stream (ai_chat.go, agent.go).  Several streams may be alive at      *)
(* once: the page keeps only the abort handle of the last one, and loses it when   *)
(* the user leaves the page.                                                       *)
(*                                                                                 *)
(* Text is abstracted to the streams it came from, a tool to its tier, and the     *)
(* token counters are left out.  Bounds: MaxTurns messages are sent, the agents    *)
(* say MaxSaid things before their last ones and are MaxAhead events ahead of      *)
(* the reader, and the settings page has allowed no tiers but those in Allowable   *)
(* when a session begins.                                                          *)
EXTENDS Naturals, Sequences, FiniteSets, FiniteSetsExt

CONSTANTS MaxTurns, MaxSaid, MaxAhead, Allowable, None

ASSUME ChatBounds == {MaxTurns, MaxSaid, MaxAhead} \subseteq Nat \ {0} /\ Allowable \subseteq {"write", "destructive"}

VARIABLES
  thread,              \* items, oldest first; "by" holds the streams an item's text is from
  streaming, pendingPrompt, sessionPermissions,
  draft,               \* "/clear", or anything else: a text can be typed whenever it can be sent
  streamStartedAt,     \* is there a start time, which is what makes the status bar show
  mounted, abortRef,   \* is the page on screen; the stream whose abort handle it holds
  state, queue,        \* per stream: unused, open or over, and the events not read yet
  server, allows, said,\* per stream: what the agent does, which tiers it runs unasked, ...
  sent,                \* history: per stream, the turns whose text its request carried
  stopped,             \* history: streams the user stopped before a tool call of theirs showed
  astray,              \* history: streams read with no handle, into a cleared thread, or
                       \* begun while another was open
  outlived             \* history: the user has answered the prompt of a stream that is over

store  == <<thread, streaming, pendingPrompt, sessionPermissions, draft, streamStartedAt>>
page   == <<mounted, abortRef>>
agent  == <<server, allows, said>>
ghosts == <<stopped, astray, outlived>>
vars   == <<store, page, state, queue, agent, sent, ghosts>>

Streams == 1..MaxTurns
Tiers   == {"readonly", "write", "destructive"}
Asked   == {"write", "destructive"}
Calls   == Streams \X (1..MaxSaid)

\* A prompt and a handle that are absent differ from those that are there.
ASSUME NoneIsNothing == None \notin Streams /\ None \notin [call : Streams \X Nat, tier : Tiers]

Item(kind, s)      == [kind |-> kind, by |-> {s}, aborted |-> FALSE, call |-> None, status |-> None]
ToolItem(s, call)  == [Item("tool_call", s) EXCEPT !.call = call, !.status = "done"]

\* The streams a tool call of which is in the thread.
Acted == UNION {thread[i].by : i \in {j \in DOMAIN thread : thread[j].kind = "tool_call"}}

Open == {s \in Streams : state[s] = "open"}

-----------------------------------------------------------------------------------
(* What the store does with its thread.                                            *)

lastAssistantMessage(items) == items # << >> /\ items[Len(items)].kind = "assistant"

\* A likely bug: a token extends the newest assistant message, however deep in the thread.
withTokenAnywhere(items, s) ==
  LET answers == {i \in DOMAIN items : items[i].kind = "assistant"}
  IN IF answers = {}
     THEN Append(items, Item("assistant", s))
     ELSE [items EXCEPT ![Max(answers)].by = @ \cup {s}]

\* A token extends the last item when that is an assistant message, else opens one.
withToken(items, s) ==
  IF lastAssistantMessage(items)
  THEN [items EXCEPT ![Len(items)].by = @ \cup {s}]
  ELSE Append(items, Item("assistant", s))

updateToolCallInThread(items, call, status) ==
  [i \in DOMAIN items |->
     IF items[i].call = call THEN [items[i] EXCEPT !.status = status] ELSE items[i]]

\* A likely bug: only the answer is marked, and the question it belongs to is sent again.
markAnswerOnly(items) ==
  [i \in DOMAIN items |->
     [items[i] EXCEPT !.aborted = @ \/ (i = Len(items) /\ items[i].kind = "assistant")]]

\* The last message, and the user's message right before it, are kept out of later requests.
markAborted(items) ==
  [i \in DOMAIN items |->
     LET last == items[Len(items)]
     IN [items[i] EXCEPT !.aborted =
           \/ @
           \/ i = Len(items) /\ last.kind \in {"assistant", "user"}
           \/ i = Len(items) - 1 /\ items[i].kind = "user" /\ last.kind = "assistant"]]

messages(items) ==
  UNION {items[i].by : i \in {j \in DOMAIN items :
                                items[j].kind \in {"user", "assistant"} /\ ~items[j].aborted}}

shouldPrompt(tier, granted) == tier = "destructive" \/ (tier = "write" /\ tier \notin granted)

grantAlways(granted, tier) == granted \cup {tier}

-----------------------------------------------------------------------------------
(* The event stream as the hook reads it.                                          *)

onToken(s) ==
  /\ thread' = withToken(thread, s)
  /\ UNCHANGED <<streaming, pendingPrompt>>

onToolCall(s, e) ==
  /\ thread' = Append(thread, ToolItem(s, e.call))
  /\ UNCHANGED <<streaming, pendingPrompt>>

\* A tier granted for the session raises no prompt, and nobody tells the agent that.
onPermissionRequired(e) ==
  /\ IF shouldPrompt(e.tier, sessionPermissions)
     THEN /\ pendingPrompt' = [call |-> e.call, tier |-> e.tier]
          /\ streaming' = FALSE
     ELSE UNCHANGED <<pendingPrompt, streaming>>
  /\ UNCHANGED thread

\* A likely bug: the end of the stream is noticed and the indicator is not stopped.
endStreamSilently == UNCHANGED <<streaming, thread, pendingPrompt>>

endStream == streaming' = FALSE /\ UNCHANGED <<thread, pendingPrompt>>

appendError(s) ==
  /\ thread' = Append(thread, Item("assistant", s))
  /\ streaming' = FALSE
  /\ UNCHANGED pendingPrompt

applyEvent(s, e) ==
  \/ e.type = "token"               /\ onToken(s)
  \/ e.type = "tool_call"           /\ onToolCall(s, e)
  \/ e.type = "permission_required" /\ onPermissionRequired(e)
  \/ e.type = "done"                /\ endStream
  \/ e.type = "failed"              /\ appendError(s)

\* One turn of the read loop.  The two last events end it; events are read whether or not
\* the page that asked is on screen.
Read(s) ==
  /\ state[s] = "open"
  /\ queue[s] # << >>
  /\ queue' = [queue EXCEPT ![s] = Tail(@)]
  /\ applyEvent(s, Head(queue[s]))
  /\ state' = IF Head(queue[s]).type \in {"done", "failed"}
              THEN [state EXCEPT ![s] = "over"] ELSE state
  /\ UNCHANGED <<sessionPermissions, draft, streamStartedAt, page, agent, sent, ghosts>>

\* The browser gives the stream up: its events are lost and the agent's context ends.
Cut(s) ==
  IF s \in Open
  THEN /\ state'  = [state EXCEPT ![s] = "over"]
       /\ queue'  = [queue EXCEPT ![s] = << >>]
       /\ server' = [server EXCEPT ![s] = "over"]
  ELSE UNCHANGED <<state, queue, server>>

-----------------------------------------------------------------------------------
(* The user, on the page.                                                          *)

awaitingPermission == pendingPrompt # None
composeDisabled    == streaming \/ awaitingPermission

Type(d) ==
  /\ mounted /\ ~awaitingPermission
  /\ draft' = d
  /\ UNCHANGED <<thread, streaming, pendingPrompt, sessionPermissions, streamStartedAt, page,
                 state, queue, agent, sent, ghosts>>

\* A stream still open is aborted first.  Its own catch then runs endStream, which clears the
\* indicator the new stream has just set.
sendMessage(s) ==
  /\ state[s] = "unused"
  /\ \A r \in Streams : r < s => state[r] # "unused"
  /\ LET old == {abortRef} \cap Open IN
     /\ state'  = [r \in Streams |-> IF r = s THEN "open" ELSE IF r \in old THEN "over" ELSE state[r]]
     /\ queue'  = [r \in Streams |-> IF r \in old THEN << >> ELSE queue[r]]
     /\ server' = [r \in Streams |-> IF r = s THEN "llm" ELSE IF r \in old THEN "over" ELSE server[r]]
     /\ streaming' = (old = {})
     /\ astray' = IF Open = {} THEN astray ELSE astray \cup {s}
  /\ abortRef' = s
  /\ thread' = Append(thread, Item("user", s))
  /\ sent' = [sent EXCEPT ![s] = messages(thread)]
  /\ \E tiers \in SUBSET Allowable : allows' = [allows EXCEPT ![s] = tiers]
  /\ streamStartedAt' = TRUE
  /\ outlived' = FALSE
  /\ UNCHANGED <<pendingPrompt, sessionPermissions, mounted, said, stopped>>

handleSubmit ==
  /\ mounted /\ ~composeDisabled
  /\ draft = "text"
  /\ UNCHANGED draft
  /\ \E s \in Streams : sendMessage(s)

\* A click in the palette, or Enter: /clear resets the store and leaves the streams alone.
\* Only Enter asks whether the bar is disabled, so the click works while a stream is read.
runCommand ==
  /\ mounted
  /\ draft = "/clear"
  /\ thread' = << >>
  /\ streaming' = FALSE
  /\ pendingPrompt' = None
  /\ sessionPermissions' = {}
  /\ draft' = "text"
  /\ streamStartedAt' = FALSE
  /\ astray' = astray \cup Open
  /\ outlived' = FALSE
  /\ UNCHANGED <<page, state, queue, agent, sent, stopped>>

abort ==
  /\ Cut(abortRef)
  /\ thread' = markAborted(thread)
  /\ stopped' = stopped \cup (({abortRef} \cap Open) \ Acted)
  /\ streaming' = FALSE
  /\ streamStartedAt' = FALSE

Stop ==
  /\ mounted /\ streaming
  /\ abort
  /\ outlived' = FALSE
  /\ UNCHANGED <<pendingPrompt, sessionPermissions, draft, page, allows, said, sent, astray>>

\* The call that is denied was never put in the thread, the agent announces a call after it
\* ran: the abort is what a denial does.
handleDeny ==
  /\ mounted /\ awaitingPermission
  /\ Cut(abortRef)
  /\ thread' = updateToolCallInThread(markAborted(thread), pendingPrompt.call, "denied")
  /\ stopped' = stopped \cup (({abortRef} \cap Open) \ Acted)
  /\ streaming' = FALSE
  /\ streamStartedAt' = FALSE
  /\ pendingPrompt' = None
  /\ UNCHANGED <<sessionPermissions, draft, page, allows, said, sent, astray, outlived>>

\* A likely bug: the prompt is cleared and the indicator is not started again.
approveQuietly ==
  /\ mounted /\ awaitingPermission
  /\ pendingPrompt' = None
  /\ outlived' = (outlived \/ pendingPrompt.call[1] \notin Open)
  /\ UNCHANGED <<thread, streaming, draft, streamStartedAt, page, state, queue, agent, sent, stopped, astray>>

approve ==
  /\ mounted /\ awaitingPermission
  /\ pendingPrompt' = None
  /\ streaming' = TRUE
  /\ outlived' = (outlived \/ pendingPrompt.call[1] \notin Open)
  /\ UNCHANGED <<thread, draft, streamStartedAt, page, state, queue, agent, sent, stopped, astray>>

approveOnce   == approve /\ UNCHANGED sessionPermissions
approveAlways == approve /\ sessionPermissions' = grantAlways(sessionPermissions, pendingPrompt.tier)

\* Leaving keeps the streams, the store and the draft; the next page has no abort handle.
Leave ==
  /\ mounted
  /\ mounted' = FALSE
  /\ abortRef' = None
  /\ astray' = astray \cup Open
  /\ UNCHANGED <<store, state, queue, agent, sent, stopped, outlived>>

Return ==
  /\ ~mounted
  /\ mounted' = TRUE
  /\ UNCHANGED <<store, abortRef, state, queue, agent, sent, ghosts>>

-----------------------------------------------------------------------------------
(* The agent.                                                                      *)

CanSay(s) == state[s] = "open" /\ server[s] = "llm" /\ Len(queue[s]) < MaxAhead

SaidByAll == MapThenSumSet(LAMBDA s : said[s], Streams)

say(s, e) == queue' = [queue EXCEPT ![s] = Append(@, e)]

Frame == UNCHANGED <<store, page, state, allows, sent, ghosts>>

SayToken(s) ==
  /\ CanSay(s) /\ SaidByAll < MaxSaid
  /\ said' = [said EXCEPT ![s] = @ + 1]
  /\ say(s, [type |-> "token"])
  /\ UNCHANGED server
  /\ Frame

\* A call that needs no leave runs and is then announced; the others are asked for, and the
\* agent waits for an answer or for the end of the request.
CallTool(s, tier) ==
  /\ CanSay(s) /\ SaidByAll < MaxSaid
  /\ said' = [said EXCEPT ![s] = @ + 1]
  /\ LET call == <<s, said[s] + 1>>
     IN IF tier = "readonly" \/ tier \in allows[s]
        THEN /\ say(s, [type |-> "tool_call", call |-> call])
             /\ UNCHANGED server
        ELSE /\ say(s, [type |-> "permission_required", call |-> call, tier |-> tier])
             /\ server' = [server EXCEPT ![s] = "asking"]
  /\ Frame

\* The last event: done.  An error event, which the store does not know, followed by the close
\* has the same effect, endStream.
Finish(s) ==
  /\ CanSay(s)
  /\ say(s, [type |-> "done"])
  /\ server' = [server EXCEPT ![s] = "over"]
  /\ UNCHANGED said
  /\ Frame

\* The request fails or the connection drops, even while the agent waits.
Break(s) ==
  /\ state[s] = "open" /\ server[s] \in {"llm", "asking"}
  /\ say(s, [type |-> "failed"])
  /\ server' = [server EXCEPT ![s] = "over"]
  /\ UNCHANGED said
  /\ Frame

-----------------------------------------------------------------------------------
Init ==
  /\ thread = << >> /\ streaming = FALSE /\ pendingPrompt = None
  /\ sessionPermissions = {} /\ draft = "text" /\ streamStartedAt = FALSE
  /\ mounted = TRUE /\ abortRef = None
  /\ state = [s \in Streams |-> "unused"] /\ queue = [s \in Streams |-> << >>]
  /\ server = [s \in Streams |-> "over"] /\ allows = [s \in Streams |-> {}]
  /\ said = [s \in Streams |-> 0]
  /\ sent = [s \in Streams |-> {}]
  /\ stopped = {} /\ astray = {} /\ outlived = FALSE

User ==
  \/ \E d \in {"text", "/clear"} : Type(d)
  \/ handleSubmit \/ runCommand \/ Stop
  \/ handleDeny \/ approveOnce \/ approveAlways
  \/ Leave \/ Return

Agent(s) ==
  \/ SayToken(s)
  \/ \E tier \in Tiers : CallTool(s, tier)
  \/ Finish(s)
  \/ Break(s)

Next == User \/ \E s \in Streams : Read(s) \/ Agent(s)

Spec == Init /\ [][Next]_vars

\* The read loop takes what has arrived, and a model that is not asking goes on talking until
\* it is done or the connection breaks.  The user owes nothing.
Talks(s) == server[s] = "llm" /\ Agent(s)

FairSpec == Spec /\ \A s \in Streams : WF_vars(Read(s)) /\ WF_vars(Talks(s))

-----------------------------------------------------------------------------------
(* Properties.                                                                     *)

\* An answer in the thread is one turn's answer: no message mixes the text of two streams,
\* whatever was stopped, cleared, denied or failed in between, unless the user left the page
\* or cleared the thread while one of them was being read (then nothing can stop that one).
MessagesAreOfOneTurn ==
  \A i \in DOMAIN thread : Cardinality(thread[i].by \ astray) <= 1
                        /\ (thread[i].by \cap astray = {} => Cardinality(thread[i].by) = 1)

\* A turn the user stopped, by the button or by a denial, is in no later request, unless a
\* tool call of it had been shown or it was astray (the mark then misses its messages).
StoppedIsNotSent ==
  \A s \in Streams : sent[s] \cap stopped \subseteq astray

\* What the status bar shows: nothing, the moving dots, or the check mark of a finished turn.
StreamingIndicator ==
  IF ~streamStartedAt THEN "hidden" ELSE IF streaming THEN "busy" ELSE "finished"

\* The check mark means the turn is over: with no prompt open, no stream is being read behind
\* it, except one that went astray.
FinishedMeansOver ==
  StreamingIndicator = "finished" /\ ~awaitingPermission => Open \subseteq astray

\* The dots do not move for ever: they end, or the agent waits for leave to run a tool, or the
\* user has approved the call of a stream that was already over.
BusyEnds ==
  streaming ~> (~streaming \/ outlived \/ \E s \in Streams : server[s] = "asking")
===================================================================================
