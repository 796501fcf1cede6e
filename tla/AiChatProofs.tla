------------------------------- MODULE AiChatProofs -------------------------------
(* What TLAPS proves of AiChat, for any number of turns and of events, any agents  *)
(* and any order of reading, stopping, denying, clearing, leaving and coming back: *)
(* the types, that no message mixes two turns, that a stopped turn is not sent     *)
(* again, and that the check mark means the turn is over.                          *)
(*                                                                                 *)
(* The three hold together or not at all (ChatInv).  A stream that is read and is  *)
(* not astray is the only one open, the page holds its handle, and the thread ends *)
(* with its turn: its question, and after that nothing but its own items (Turn).   *)
(* So a token is appended to a message of its own turn; what an abort marks, the   *)
(* last item and the question before it, is the whole turn unless a tool call of   *)
(* it is shown; and a request, which leaves out what is marked, leaves out every   *)
(* stopped turn.  Streams are used in order (OrderInv), so the next one's question *)
(* cannot be of a turn that has begun already.                                     *)
(*                                                                                 *)
(* Each action is shown to have one of a few effects on what the invariant speaks  *)
(* of (Effects), and the invariant is shown of the effects.  NoneIsNothing is the  *)
(* one assumption used: the page tells an absent prompt and an absent handle from  *)
(* one that is there.                                                              *)
EXTENDS AiChat, FiniteSetTheorems, TLAPS

\* The types in full, of what the invariant speaks of.
Kind == {"user", "assistant", "tool_call"}
CallId == Streams \X Nat
Status == {"done", "denied", None}
ThreadItem == [kind : Kind, by : SUBSET Streams, aborted : BOOLEAN, call : CallId \cup {None},
               status : Status]
Prompt == [call : CallId, tier : Tiers]
Event ==
  [type : {"token", "done", "failed"}] \cup [type : {"tool_call"}, call : CallId]
    \cup [type : {"permission_required"}, call : CallId, tier : Tiers]

StoreType ==
  /\ thread \in Seq(ThreadItem) /\ streaming \in BOOLEAN /\ streamStartedAt \in BOOLEAN
  /\ pendingPrompt \in {None} \cup Prompt
  /\ abortRef \in Streams \cup {None}
  /\ state \in [Streams -> {"unused", "open", "over"}]
  /\ sent \in [Streams -> SUBSET Streams]
  /\ stopped \subseteq Streams /\ astray \subseteq Streams

AgentType ==
  /\ queue \in [Streams -> Seq(Event)]
  /\ said \in [Streams -> Nat]

TypeInv == StoreType /\ AgentType

-----------------------------------------------------------------------------------
(* Sequences, and the items of a thread.                                           *)

LEMMA AppendType ==
  ASSUME NEW S, NEW s \in Seq(S), NEW e \in S
  PROVE  /\ Append(s, e) \in Seq(S)
         /\ Len(Append(s, e)) = Len(s) + 1
         /\ \A i \in 1..Len(s) : Append(s, e)[i] = s[i]
         /\ Append(s, e)[Len(s) + 1] = e
OBVIOUS

LEMMA TailType ==
  ASSUME NEW S, NEW s \in Seq(S), s # <<>>
  PROVE  /\ Head(s) \in S /\ Tail(s) \in Seq(S)
OBVIOUS

\* A thread whose items are changed one by one is as long as it was.
LEMMA MapType ==
  ASSUME NEW S, NEW s \in Seq(S), NEW f, f = [i \in DOMAIN s |-> f[i]],
         \A i \in DOMAIN s : f[i] \in S
  PROVE  /\ f \in Seq(S) /\ Len(f) = Len(s) /\ DOMAIN f = DOMAIN s
<1>1. DOMAIN s = 1..Len(s) /\ Len(s) \in Nat
  OBVIOUS
<1>2. f \in [1..Len(s) -> S]
  BY <1>1
<1> QED  BY <1>1, <1>2

LEMMA ItemType ==
  ASSUME NEW kind \in Kind, NEW s \in Streams
  PROVE  /\ Item(kind, s) \in ThreadItem /\ Item(kind, s).kind = kind
         /\ Item(kind, s).by = {s} /\ Item(kind, s).aborted = FALSE
BY DEF Item, ThreadItem, Status

LEMMA ToolItemType ==
  ASSUME NEW s \in Streams, NEW c \in CallId
  PROVE  /\ ToolItem(s, c) \in ThreadItem /\ ToolItem(s, c).kind = "tool_call"
         /\ ToolItem(s, c).by = {s}
BY DEF ToolItem, Item, ThreadItem, Status, Kind

LEMMA ItemFields ==
  ASSUME NEW x \in ThreadItem
  PROVE  /\ x.kind \in Kind /\ x.by \subseteq Streams /\ x.aborted \in BOOLEAN
         /\ \A a \in BOOLEAN :
              LET y == [x EXCEPT !.aborted = a]
              IN y \in ThreadItem /\ y.kind = x.kind /\ y.by = x.by /\ y.aborted = a
         /\ \A a \in Status :
              LET y == [x EXCEPT !.status = a]
              IN y \in ThreadItem /\ y.kind = x.kind /\ y.by = x.by /\ y.aborted = x.aborted
         /\ \A s \in Streams :
              LET y == [x EXCEPT !.by = x.by \cup {s}]
              IN y \in ThreadItem /\ y.kind = x.kind /\ y.by = x.by \cup {s} /\ y.aborted = x.aborted
BY DEF ThreadItem

\* The marks that are set by an abort and a denial leave everything else.
SameTexts(new, old) ==
  /\ new \in Seq(ThreadItem) /\ Len(new) = Len(old)
  /\ \A i \in DOMAIN old :
       /\ new[i].kind = old[i].kind /\ new[i].by = old[i].by
       /\ old[i].aborted => new[i].aborted

\* The mark reaches the last item and the question in front of an answer.
LEMMA MarkAborted ==
  ASSUME NEW items \in Seq(ThreadItem)
  PROVE  /\ SameTexts(markAborted(items), items)
         /\ \A i \in DOMAIN items :
              /\ i = Len(items) /\ items[i].kind # "tool_call" => markAborted(items)[i].aborted
              /\ i = Len(items) - 1 /\ items[i].kind = "user" /\ items[Len(items)].kind = "assistant"
                   => markAborted(items)[i].aborted
<1> DEFINE mark(i) ==
             \/ items[i].aborted
             \/ i = Len(items) /\ items[Len(items)].kind \in {"assistant", "user"}
             \/ i = Len(items) - 1 /\ items[i].kind = "user" /\ items[Len(items)].kind = "assistant"
<1>1. markAborted(items) = [i \in DOMAIN items |-> [items[i] EXCEPT !.aborted = mark(i)]]
  BY DEF markAborted
<1>2. \A i \in DOMAIN items : items[i] \in ThreadItem /\ mark(i) \in BOOLEAN
  OBVIOUS
<1>3. \A i \in DOMAIN items :
        /\ markAborted(items)[i] \in ThreadItem
        /\ markAborted(items)[i].kind = items[i].kind
        /\ markAborted(items)[i].by = items[i].by
        /\ markAborted(items)[i].aborted = mark(i)
  <2> SUFFICES ASSUME NEW i \in DOMAIN items
                PROVE  /\ markAborted(items)[i] \in ThreadItem
                       /\ markAborted(items)[i].kind = items[i].kind
                       /\ markAborted(items)[i].by = items[i].by
                       /\ markAborted(items)[i].aborted = mark(i)
    OBVIOUS
  <2> DEFINE a == mark(i)
  <2>1. a \in BOOLEAN /\ items[i] \in ThreadItem
    BY <1>2
  <2>2. markAborted(items)[i] = [items[i] EXCEPT !.aborted = a]
    BY <1>1
  <2> HIDE DEF a, mark
  <2>3. /\ markAborted(items)[i] \in ThreadItem
        /\ markAborted(items)[i].kind = items[i].kind
        /\ markAborted(items)[i].by = items[i].by
        /\ markAborted(items)[i].aborted = a
    BY <2>1, <2>2, ItemFields
  <2> QED  BY <2>3 DEF a
<1>4. markAborted(items) \in Seq(ThreadItem) /\ Len(markAborted(items)) = Len(items)
  <2>1. markAborted(items) = [i \in DOMAIN items |-> markAborted(items)[i]]
    <3> HIDE DEF mark
    <3> QED  BY <1>1
  <2> QED  BY <1>3, <2>1, MapType
<1>5. \A i \in DOMAIN items : items[i].kind \in {"user", "assistant", "tool_call"}
  BY <1>2, ItemFields DEF Kind
<1>6. \A i \in DOMAIN items : i = Len(items) => items[i] = items[Len(items)]
  OBVIOUS
<1> QED  BY <1>3, <1>4, <1>5, <1>6 DEF SameTexts

\* A denial marks its call and no other item.
LEMMA UpdateToolCall ==
  ASSUME NEW items \in Seq(ThreadItem), NEW c, NEW status \in Status
  PROVE  SameTexts(updateToolCallInThread(items, c, status), items)
<1> DEFINE new == updateToolCallInThread(items, c, status)
<1>1. new = [i \in DOMAIN items |->
               IF items[i].call = c THEN [items[i] EXCEPT !.status = status] ELSE items[i]]
  BY DEF updateToolCallInThread
<1>2. \A i \in DOMAIN items : items[i] \in ThreadItem
  OBVIOUS
<1>3. \A i \in DOMAIN items :
        /\ new[i] \in ThreadItem /\ new[i].kind = items[i].kind /\ new[i].by = items[i].by
        /\ new[i].aborted = items[i].aborted
  BY <1>1, <1>2, ItemFields
<1>4. new = [i \in DOMAIN items |-> new[i]]
  BY <1>1
<1> HIDE DEF new
<1>5. new \in Seq(ThreadItem) /\ Len(new) = Len(items)
  BY <1>3, <1>4, MapType
<1> QED  BY <1>3, <1>5 DEF SameTexts, new

\* A token is added to an answer at the end, or opens one.
LEMMA TokenExtends ==
  ASSUME NEW items \in Seq(ThreadItem), NEW s \in Streams, lastAssistantMessage(items)
  PROVE  /\ withToken(items, s) \in Seq(ThreadItem)
         /\ Len(withToken(items, s)) = Len(items) /\ Len(items) \in DOMAIN items
         /\ items[Len(items)].kind = "assistant"
         /\ \A i \in DOMAIN items :
              /\ withToken(items, s)[i].kind = items[i].kind
              /\ withToken(items, s)[i].aborted = items[i].aborted
              /\ withToken(items, s)[i].by =
                   IF i = Len(items) THEN items[i].by \cup {s} ELSE items[i].by
<1> DEFINE n == Len(items)
           y == [items[n] EXCEPT !.by = items[n].by \cup {s}]
<1>1. n \in DOMAIN items /\ items[n] \in ThreadItem /\ items[n].kind = "assistant"
  BY DEF lastAssistantMessage
<1>2. /\ y \in ThreadItem /\ y.kind = items[n].kind /\ y.by = items[n].by \cup {s}
      /\ y.aborted = items[n].aborted
  BY <1>1, ItemFields
<1>3. withToken(items, s) = [items EXCEPT ![n] = y]
  BY DEF withToken
<1> HIDE DEF y
<1>4. /\ withToken(items, s) \in Seq(ThreadItem) /\ Len(withToken(items, s)) = n
  BY <1>1, <1>2, <1>3
<1>5. \A i \in DOMAIN items : withToken(items, s)[i] = IF i = n THEN y ELSE items[i]
  BY <1>3
<1> QED  BY <1>1, <1>2, <1>4, <1>5

LEMMA TokenOpens ==
  ASSUME NEW items, NEW s, ~ lastAssistantMessage(items)
  PROVE  withToken(items, s) = Append(items, Item("assistant", s))
BY DEF withToken

-----------------------------------------------------------------------------------
(* What the actions do.                                                            *)

\* What an event carries.
LEMMA EventType ==
  ASSUME NEW e \in Event
  PROVE  /\ e.type \in {"token", "done", "failed", "tool_call", "permission_required"}
         /\ e.type = "tool_call" => e.call \in CallId
         /\ e.type = "permission_required" =>
              e.call \in CallId /\ e.tier \in Tiers /\ [call |-> e.call, tier |-> e.tier] \in Prompt
BY DEF Event, Prompt

ReadFrame(s) ==
  /\ state[s] = "open"
  /\ UNCHANGED <<streamStartedAt, abortRef, sent, stopped, astray, said>>
  /\ queue' \in [Streams -> Seq(Event)]

Ends(s) == state' = [state EXCEPT ![s] = "over"]

\* The item at the end is new, or only its text is.
Appends(kind, s) ==
  /\ thread' \in Seq(ThreadItem) /\ Len(thread') = Len(thread) + 1
  /\ \A i \in DOMAIN thread : thread'[i] = thread[i]
  /\ thread'[Len(thread')].kind = kind /\ thread'[Len(thread')].by = {s}

Extends(s) ==
  /\ thread' \in Seq(ThreadItem) /\ Len(thread') = Len(thread) /\ thread # << >>
  /\ thread[Len(thread)].kind = "assistant"
  /\ \A i \in DOMAIN thread :
       /\ thread'[i].kind = thread[i].kind /\ thread'[i].aborted = thread[i].aborted
       /\ thread'[i].by = IF i = Len(thread) THEN thread[i].by \cup {s} ELSE thread[i].by

LEMMA AppendsItem ==
  ASSUME TypeInv, NEW kind, NEW s, NEW x \in ThreadItem, x.kind = kind, x.by = {s},
         thread' = Append(thread, x)
  PROVE  Appends(kind, s)
<1>1. thread \in Seq(ThreadItem)
  BY DEF TypeInv, StoreType
<1> QED  BY <1>1, AppendType DEF Appends

LEMMA AppendsNew ==
  ASSUME TypeInv, NEW kind \in Kind, NEW s \in Streams, thread' = Append(thread, Item(kind, s))
  PROVE  Appends(kind, s)
<1> DEFINE x == Item(kind, s)
<1>1. x \in ThreadItem /\ x.kind = kind /\ x.by = {s}
  BY ItemType
<1> HIDE DEF x
<1>2. thread' = Append(thread, x)
  BY DEF x
<1> QED  BY <1>1, <1>2, AppendsItem

LEMMA ReadsToken ==
  ASSUME TypeInv, NEW s \in Streams, onToken(s)
  PROVE  /\ Extends(s) \/ (Appends("assistant", s) /\ ~ lastAssistantMessage(thread))
         /\ UNCHANGED <<streaming, pendingPrompt>>
<1>1. thread \in Seq(ThreadItem) /\ thread' = withToken(thread, s) /\ "assistant" \in Kind
  BY DEF TypeInv, StoreType, onToken, Kind
<1>2. CASE lastAssistantMessage(thread)
  <2>1. thread # << >>
    BY <1>2 DEF lastAssistantMessage
  <2>2. Extends(s)
    BY <1>1, <1>2, <2>1, TokenExtends DEF Extends
  <2> QED  BY <2>2 DEF onToken
<1>3. CASE ~ lastAssistantMessage(thread)
  <2>1. thread' = Append(thread, Item("assistant", s))
    BY <1>1, <1>3, TokenOpens
  <2>2. Appends("assistant", s)
    BY <1>1, <2>1, AppendsNew
  <2> QED  BY <1>3, <2>2 DEF onToken
<1> QED  BY <1>2, <1>3

\* The agent asks for leave.
Grants == UNCHANGED thread /\ pendingPrompt' \in Prompt /\ streaming' = FALSE

\* Reading an event.
ReadEffect(s) ==
  /\ ReadFrame(s)
  /\ \/ Extends(s) /\ UNCHANGED <<streaming, pendingPrompt, state>>
     \/ /\ Appends("assistant", s) /\ ~ lastAssistantMessage(thread)
        /\ UNCHANGED <<streaming, pendingPrompt, state>>
     \/ Appends("tool_call", s) /\ UNCHANGED <<streaming, pendingPrompt, state>>
     \/ Grants /\ UNCHANGED state
     \/ UNCHANGED <<thread, streaming, pendingPrompt, state>>
     \/ UNCHANGED <<thread, pendingPrompt>> /\ streaming' = FALSE /\ Ends(s)
     \/ Appends("assistant", s) /\ UNCHANGED pendingPrompt /\ streaming' = FALSE /\ Ends(s)

LEMMA Reads ==
  ASSUME TypeInv, NEW s \in Streams, Read(s)
  PROVE  ReadEffect(s)
<1> DEFINE e == Head(queue[s])
<1>1. e \in Event /\ Tail(queue[s]) \in Seq(Event)
  BY TailType DEF TypeInv, AgentType, Read
<1>2. ReadFrame(s)
  BY <1>1 DEF ReadFrame, Read, TypeInv, AgentType, page, agent, ghosts
<1>3. e.type \in {"done", "failed"} => Ends(s)
  BY DEF Read, Ends
<1>4. e.type \notin {"done", "failed"} => UNCHANGED state
  BY DEF Read
<1>5. applyEvent(s, e)
  BY DEF Read
<1> HIDE DEF e
<1>6. CASE e.type = "token"
  BY <1>2, <1>4, <1>5, <1>6, ReadsToken DEF applyEvent, ReadEffect
<1>7. CASE e.type = "tool_call"
  BY <1>1, <1>2, <1>4, <1>5, <1>7, EventType, ToolItemType, AppendsItem
     DEF applyEvent, onToolCall, ReadEffect
<1>8. CASE e.type = "permission_required"
  BY <1>1, <1>2, <1>4, <1>5, <1>8, EventType DEF applyEvent, onPermissionRequired, Grants, ReadEffect
<1>9. CASE e.type = "done"
  BY <1>2, <1>3, <1>5, <1>9 DEF applyEvent, endStream, ReadEffect
<1>10. CASE e.type = "failed"
  <2>1. "assistant" \in Kind
    BY DEF Kind
  <2> QED  BY <1>2, <1>3, <1>5, <1>10, <2>1, AppendsNew DEF applyEvent, appendError, ReadEffect
<1> QED  BY <1>1, <1>6, <1>7, <1>8, <1>9, <1>10, EventType

\* What the user's steps do with the streams: an open one may be given up.
CutEffect ==
  /\ state' \in [Streams -> {"unused", "open", "over"}]
  /\ \A r \in Streams : state'[r] = IF r \in {abortRef} \cap Open THEN "over" ELSE state[r]
  /\ queue' \in [Streams -> Seq(Event)]

LEMMA Cuts ==
  ASSUME TypeInv, Cut(abortRef)
  PROVE  CutEffect
<1>1. Open \subseteq Streams
  BY DEF Open
<1>2. CASE abortRef \in Open
  <2>1. state' = [state EXCEPT ![abortRef] = "over"] /\ queue' = [queue EXCEPT ![abortRef] = << >>]
    BY <1>2 DEF Cut
  <2>2. abortRef \in Streams /\ {abortRef} \cap Open = {abortRef}
    BY <1>1, <1>2
  <2>3. queue' \in [Streams -> Seq(Event)]
    BY <2>1, <2>2 DEF TypeInv, AgentType
  <2>4. /\ state' \in [Streams -> {"unused", "open", "over"}]
        /\ \A r \in Streams : state'[r] = IF r = abortRef THEN "over" ELSE state[r]
    BY <2>1, <2>2 DEF TypeInv, StoreType
  <2> QED  BY <2>2, <2>3, <2>4 DEF CutEffect
<1>3. CASE abortRef \notin Open
  BY <1>3 DEF Cut, CutEffect, TypeInv, StoreType, AgentType
<1> QED  BY <1>2, <1>3

\* The button, and a denial: the turn's items are marked and its stream is given up.
AbortEffect ==
  /\ CutEffect
  /\ SameTexts(thread', thread)
  /\ \A i \in DOMAIN thread :
       /\ i = Len(thread) /\ thread[i].kind # "tool_call" => thread'[i].aborted
       /\ i = Len(thread) - 1 /\ thread[i].kind = "user" /\ thread[Len(thread)].kind = "assistant"
            => thread'[i].aborted
  /\ stopped' = stopped \cup (({abortRef} \cap Open) \ Acted)
  /\ streaming' = FALSE /\ streamStartedAt' = FALSE
  /\ pendingPrompt' \in {pendingPrompt, None}
  /\ UNCHANGED <<abortRef, sent, astray, said>>

LEMMA Aborts ==
  ASSUME TypeInv, Stop \/ handleDeny
  PROVE  AbortEffect
<1>1. thread \in Seq(ThreadItem)
  BY DEF TypeInv, StoreType
<1>2. SameTexts(markAborted(thread), thread)
  BY <1>1, MarkAborted
<1>3. CASE Stop
  BY <1>1, <1>2, <1>3, MarkAborted, Cuts DEF Stop, abort, page, agent, AbortEffect
<1>4. CASE handleDeny
  <2> DEFINE marked == markAborted(thread)
  <2>1. thread' = updateToolCallInThread(marked, pendingPrompt.call, "denied")
    BY <1>4 DEF handleDeny
  <2>2. marked \in Seq(ThreadItem) /\ "denied" \in Status
    BY <1>2 DEF SameTexts, Status
  <2>3. SameTexts(thread', marked)
    BY <2>1, <2>2, UpdateToolCall
  <2>4. DOMAIN marked = DOMAIN thread
    BY <1>1, <1>2 DEF SameTexts
  <2>5. SameTexts(thread', thread)
    BY <1>2, <2>3, <2>4 DEF SameTexts
  <2>6. \A i \in DOMAIN thread : marked[i].aborted => thread'[i].aborted
    BY <2>3, <2>4 DEF SameTexts
  <2> HIDE DEF marked
  <2>7. \A i \in DOMAIN thread :
          /\ i = Len(thread) /\ thread[i].kind # "tool_call" => thread'[i].aborted
          /\ i = Len(thread) - 1 /\ thread[i].kind = "user" /\ thread[Len(thread)].kind = "assistant"
               => thread'[i].aborted
    BY <1>1, <2>6, MarkAborted DEF marked
  <2> QED  BY <1>4, <2>5, <2>7, Cuts DEF handleDeny, page, agent, AbortEffect
<1> QED  BY <1>3, <1>4

\* A message is sent; the stream whose handle is held is given up.
SendEffect(s) ==
  /\ state[s] = "unused"
  /\ \A r \in Streams : r < s => state[r] # "unused"
  /\ state' \in [Streams -> {"unused", "open", "over"}]
  /\ \A r \in Streams : state'[r] = IF r = s THEN "open"
                                    ELSE IF r \in {abortRef} \cap Open THEN "over" ELSE state[r]
  /\ queue' \in [Streams -> Seq(Event)]
  /\ streaming' = ({abortRef} \cap Open = {})
  /\ astray' = IF Open = {} THEN astray ELSE astray \cup {s}
  /\ abortRef' = s
  /\ Appends("user", s)
  /\ sent' = [sent EXCEPT ![s] = messages(thread)]
  /\ streamStartedAt' = TRUE
  /\ UNCHANGED <<pendingPrompt, said, stopped>>

LEMMA Sends ==
  ASSUME TypeInv, NEW s \in Streams, sendMessage(s)
  PROVE  SendEffect(s)
<1> DEFINE old == {abortRef} \cap Open
<1>1. /\ state' = [r \in Streams |-> IF r = s THEN "open" ELSE IF r \in old THEN "over" ELSE state[r]]
      /\ queue' = [r \in Streams |-> IF r \in old THEN << >> ELSE queue[r]]
      /\ streaming' = (old = {})
  BY DEF sendMessage
<1> HIDE DEF old
<1>2. state' \in [Streams -> {"unused", "open", "over"}] /\ queue' \in [Streams -> Seq(Event)]
  BY <1>1 DEF TypeInv, StoreType, AgentType
<1>3. \A r \in Streams : state'[r] = IF r = s THEN "open" ELSE IF r \in old THEN "over" ELSE state[r]
  BY <1>1
<1>4. Appends("user", s)
  BY AppendsNew DEF sendMessage, Kind
<1> QED  BY <1>1, <1>2, <1>3, <1>4 DEF sendMessage, SendEffect, old

\* The steps that leave what the properties speak of alone.
Quiet ==
  /\ UNCHANGED <<thread, streaming, pendingPrompt, streamStartedAt, abortRef, state, sent, stopped, astray>>
  /\ queue' \in [Streams -> Seq(Event)]
  /\ said' \in [Streams -> Nat]

LEMMA AgentIsQuiet ==
  ASSUME TypeInv, NEW s \in Streams, Agent(s)
  PROVE  Quiet
<1>1. ASSUME NEW e \in Event, say(s, e) PROVE queue' \in [Streams -> Seq(Event)]
  <2>1. queue[s] \in Seq(Event)
    BY DEF TypeInv, AgentType
  <2>2. Append(queue[s], e) \in Seq(Event)
    BY <2>1, AppendType
  <2> QED  BY <1>1, <2>2 DEF say, TypeInv, AgentType
<1>2. said[s] + 1 \in Nat /\ [said EXCEPT ![s] = said[s] + 1] \in [Streams -> Nat]
  BY DEF TypeInv, AgentType
<1>3. /\ [type |-> "token"] \in Event /\ [type |-> "done"] \in Event /\ [type |-> "failed"] \in Event
      /\ \A c \in CallId : [type |-> "tool_call", call |-> c] \in Event
      /\ \A c \in CallId, tier \in Tiers :
           [type |-> "permission_required", call |-> c, tier |-> tier] \in Event
  BY DEF Event
<1>4. <<s, said[s] + 1>> \in CallId
  BY <1>2 DEF CallId
<1>5. Frame => UNCHANGED <<thread, streaming, pendingPrompt, streamStartedAt, abortRef, state, sent,
                           stopped, astray>>
  BY DEF Frame, store, page, ghosts
<1>6. CASE SayToken(s)
  BY <1>1, <1>2, <1>3, <1>5, <1>6 DEF SayToken, Quiet
<1>7. ASSUME NEW tier \in Tiers, CallTool(s, tier) PROVE Quiet
  <2>1. PICK e \in Event : say(s, e)
    BY <1>3, <1>4, <1>7 DEF CallTool
  <2> QED  BY <1>1, <1>2, <1>5, <1>7, <2>1 DEF CallTool, Quiet
<1>8. CASE Finish(s) \/ Break(s)
  BY <1>1, <1>3, <1>5, <1>8 DEF Finish, Break, Quiet, TypeInv, AgentType
<1> QED  BY <1>6, <1>7, <1>8 DEF Agent

\* The thread is cleared, the page is left, and a prompt is answered with leave.
ClearEffect ==
  /\ thread' = << >> /\ streaming' = FALSE /\ pendingPrompt' = None /\ streamStartedAt' = FALSE
  /\ astray' = astray \cup Open
  /\ UNCHANGED <<abortRef, state, queue, said, sent, stopped>>

LeaveEffect ==
  /\ abortRef' = None /\ astray' = astray \cup Open
  /\ UNCHANGED <<thread, streaming, pendingPrompt, streamStartedAt, state, queue, said, sent, stopped>>

ApproveEffect ==
  /\ pendingPrompt' = None /\ streaming' = TRUE
  /\ UNCHANGED <<thread, streamStartedAt, abortRef, state, queue, said, sent, stopped, astray>>

\* That is all there is.
LEMMA Effects ==
  ASSUME TypeInv, [Next]_vars
  PROVE  \/ Quiet \/ AbortEffect \/ ClearEffect \/ LeaveEffect \/ ApproveEffect
         \/ \E s \in Streams : ReadEffect(s) \/ SendEffect(s)
<1>1. CASE UNCHANGED vars
  BY <1>1 DEF vars, store, page, agent, ghosts, Quiet, TypeInv, AgentType
<1>2. CASE (\E d \in {"text", "/clear"} : Type(d)) \/ Return
  BY <1>2 DEF Type, Return, store, page, agent, ghosts, Quiet, TypeInv, AgentType
<1>3. CASE handleSubmit
  BY <1>3, Sends DEF handleSubmit
<1>4. CASE runCommand
  BY <1>4 DEF runCommand, page, agent, ClearEffect
<1>5. CASE approveOnce \/ approveAlways
  BY <1>5 DEF approveOnce, approveAlways, approve, page, agent, ApproveEffect
<1>6. CASE Leave
  BY <1>6 DEF Leave, store, agent, LeaveEffect
<1> QED  BY <1>1, <1>2, <1>3, <1>4, <1>5, <1>6, Aborts, AgentIsQuiet, Reads DEF Next, User

\* No event, abort, denial or return to the page leaves half an item in the thread, a prompt of
\* no call or a handle of no stream (chatStore.ts, useChatSse.ts).
THEOREM TypeCorrect == Spec => []TypeInv
<1>1. Init => TypeInv
  <2> SUFFICES ASSUME Init PROVE TypeInv
    OBVIOUS
  <2>1. /\ thread \in Seq(ThreadItem)
        /\ queue \in [Streams -> Seq(Event)] /\ said \in [Streams -> Nat]
    BY DEF Init
  <2>2. /\ state \in [Streams -> {"unused", "open", "over"}] /\ sent \in [Streams -> SUBSET Streams]
        /\ streaming \in BOOLEAN /\ streamStartedAt \in BOOLEAN
    BY DEF Init
  <2> QED  BY <2>1, <2>2 DEF Init, TypeInv, StoreType, AgentType
<1>2. TypeInv /\ [Next]_vars => TypeInv'
  <2> SUFFICES ASSUME TypeInv, [Next]_vars PROVE TypeInv'
    OBVIOUS
  <2>1. CASE Quiet
    BY <2>1 DEF Quiet, TypeInv, StoreType, AgentType
  <2>2. CASE AbortEffect
    BY <2>2 DEF AbortEffect, CutEffect, SameTexts, Open, TypeInv, StoreType, AgentType
  <2>3. CASE ClearEffect
    <3>1. << >> \in Seq(ThreadItem) /\ Open \subseteq Streams
      BY DEF Open
    <3> QED  BY <2>3, <3>1 DEF ClearEffect, TypeInv, StoreType, AgentType
  <2>6. CASE LeaveEffect \/ ApproveEffect
    BY <2>6 DEF LeaveEffect, ApproveEffect, Open, TypeInv, StoreType, AgentType
  <2>4. ASSUME NEW s \in Streams, ReadEffect(s) PROVE TypeInv'
    <3>1. thread \in Seq(ThreadItem) /\ "assistant" \in Kind
      BY DEF TypeInv, StoreType, Kind
    <3>2. thread' \in Seq(ThreadItem)
      BY <2>4, <3>1 DEF ReadEffect, Grants, Appends, Extends
    <3>3. state' \in [Streams -> {"unused", "open", "over"}]
      BY <2>4 DEF ReadEffect, Ends, TypeInv, StoreType
    <3> QED  BY <2>4, <3>2, <3>3 DEF ReadEffect, ReadFrame, Grants, TypeInv, StoreType, AgentType
  <2>5. ASSUME NEW s \in Streams, SendEffect(s) PROVE TypeInv'
    <3>1. thread \in Seq(ThreadItem) /\ "user" \in Kind
      BY DEF TypeInv, StoreType, Kind
    <3>2. thread' \in Seq(ThreadItem)
      BY <2>5 DEF SendEffect, Appends
    <3>3. messages(thread) \subseteq Streams
      BY <3>1, ItemFields DEF messages
    <3> QED  BY <2>5, <3>2, <3>3 DEF SendEffect, TypeInv, StoreType, AgentType
  <2> QED  BY <2>1, <2>2, <2>3, <2>4, <2>5, <2>6, Effects
<1> QED  BY <1>1, <1>2, PTL DEF Spec

-----------------------------------------------------------------------------------
(* The invariant.                                                                  *)

\* The streams that are read and can still be stopped.
Live == Open \ astray

\* The thread ends with the turn of r: its question, and nothing but its own items after it;
\* one at most, unless a tool call is among them.
Turn(r) ==
  \E p \in DOMAIN thread :
    /\ thread[p].kind = "user" /\ thread[p].by = {r}
    /\ \A i \in DOMAIN thread : i < p => r \notin thread[i].by
    /\ \A i \in DOMAIN thread : i > p => thread[i].by = {r} /\ thread[i].kind # "user"
    /\ (\A i \in DOMAIN thread : i > p => thread[i].kind # "tool_call") => Len(thread) <= p + 1

\* There is one such stream at most, the page can stop it, and it shows.
LiveInv ==
  \A r \in Live : Open = {r} /\ abortRef = r /\ Turn(r) /\ (streaming \/ pendingPrompt # None)

\* Streams are used in order, and the handle is of the last one.
OrderInv ==
  \A r, s \in Streams : r < s /\ (state[r] = "unused" \/ abortRef = r) => state[s] = "unused"

\* An item has the text of streams that were used, and of one that is not astray at most.
ThreadInv ==
  \A i \in DOMAIN thread :
    /\ thread[i].by # {} /\ \A s \in thread[i].by : state[s] # "unused"
    /\ \A r, s \in thread[i].by \ astray : r = s

\* A stopped turn is over and marked as a whole, the tool calls apart.
StoppedInv ==
  \A r \in stopped :
    /\ state[r] = "over"
    /\ r \notin astray => \A i \in DOMAIN thread :
         r \in thread[i].by /\ thread[i].kind # "tool_call" => thread[i].aborted

\* A request carries earlier turns, and none that is stopped.
SentInv ==
  \A s \in Streams :
    /\ \A r \in sent[s] : r < s
    /\ state[s] = "unused" => sent[s] = {}
    /\ sent[s] \cap stopped \subseteq astray

ChatInv == LiveInv /\ OrderInv /\ ThreadInv /\ StoppedInv /\ SentInv

LEMMA Thread ==
  ASSUME TypeInv
  PROVE  /\ Len(thread) \in Nat /\ DOMAIN thread = 1..Len(thread)
         /\ \A i \in DOMAIN thread : /\ thread[i] \in ThreadItem /\ thread[i].by \subseteq Streams
                                     /\ thread[i].kind \in Kind
  BY ItemFields DEF TypeInv, StoreType

LEMMA AppendedDomain ==
  ASSUME TypeInv, NEW kind, NEW s, Appends(kind, s)
  PROVE  /\ Len(thread') = Len(thread) + 1 /\ DOMAIN thread' = DOMAIN thread \cup {Len(thread) + 1}
         /\ \A i \in DOMAIN thread : thread'[i] = thread[i]
         /\ thread'[Len(thread) + 1].kind = kind /\ thread'[Len(thread) + 1].by = {s}
<1>1. Len(thread) \in Nat /\ DOMAIN thread = 1..Len(thread)
  BY Thread
<1>2. DOMAIN thread' = 1..Len(thread')
  BY DEF Appends
<1> QED  BY <1>1, <1>2 DEF Appends

LEMMA LastOfTurn ==
  ASSUME TypeInv, NEW r, Turn(r), lastAssistantMessage(thread)
  PROVE  thread[Len(thread)].by = {r}
BY Thread DEF Turn, lastAssistantMessage

\* A turn goes on as it is read.
LEMMA TurnGoesOn ==
  ASSUME TypeInv, NEW s \in Streams, Turn(s),
         \/ Extends(s)
         \/ Appends("assistant", s) /\ ~ lastAssistantMessage(thread)
         \/ Appends("tool_call", s)
  PROVE  Turn(s)'
<1>1. PICK p \in DOMAIN thread :
        /\ thread[p].kind = "user" /\ thread[p].by = {s}
        /\ \A i \in DOMAIN thread : i < p => s \notin thread[i].by
        /\ \A i \in DOMAIN thread : i > p => thread[i].by = {s} /\ thread[i].kind # "user"
        /\ (\A i \in DOMAIN thread : i > p => thread[i].kind # "tool_call") => Len(thread) <= p + 1
  BY DEF Turn
<1>2. CASE Extends(s)
  <2>1. DOMAIN thread' = DOMAIN thread /\ Len(thread') = Len(thread) /\ Len(thread) \in DOMAIN thread
    BY <1>2, Thread DEF Extends
  <2>2. Len(thread) > p
    BY <1>1, <1>2, Thread DEF Extends
  <2>3. \A i \in DOMAIN thread : thread'[i].kind = thread[i].kind /\ thread'[i].by = thread[i].by
    BY <1>1, <1>2, <2>1, <2>2 DEF Extends
  <2> QED  BY <1>1, <2>1, <2>3 DEF Turn
<1>3. ASSUME NEW kind \in {"assistant", "tool_call"}, Appends(kind, s),
             kind = "assistant" => ~ lastAssistantMessage(thread)
      PROVE  Turn(s)'
  <2> DEFINE n == Len(thread)
  <2>1. /\ Len(thread') = n + 1 /\ DOMAIN thread' = DOMAIN thread \cup {n + 1}
        /\ \A i \in DOMAIN thread : thread'[i] = thread[i]
        /\ thread'[n + 1].kind = kind /\ thread'[n + 1].by = {s}
    BY <1>3, AppendedDomain
  <2>2. n \in Nat /\ DOMAIN thread = 1..n /\ \A i \in DOMAIN thread : thread[i].kind \in Kind
    BY Thread
  <2>3. (\A i \in DOMAIN thread' : i > p => thread'[i].kind # "tool_call") => n + 1 <= p + 1
    <3> SUFFICES ASSUME \A i \in DOMAIN thread' : i > p => thread'[i].kind # "tool_call"
                 PROVE  n + 1 <= p + 1
      OBVIOUS
    <3>1. kind = "assistant" /\ \A i \in DOMAIN thread : i > p => thread[i].kind # "tool_call"
      BY <1>1, <2>1, <2>2
    <3>2. n <= p + 1 /\ thread[n].kind # "assistant"
      BY <1>1, <1>3, <2>2, <3>1 DEF lastAssistantMessage
    <3> QED  BY <1>1, <2>2, <3>1, <3>2 DEF Kind
  <2> HIDE DEF n
  <2> QED  BY <1>1, <2>1, <2>2, <2>3 DEF Turn
<1> QED  BY <1>2, <1>3

LEMMA ReadKeeps ==
  ASSUME TypeInv, ChatInv, NEW s \in Streams, ReadEffect(s)
  PROVE  ChatInv'
<1>1. /\ s \in Open /\ state[s] = "open"
      /\ UNCHANGED <<abortRef, sent, stopped, astray>>
  BY DEF ReadEffect, ReadFrame, Open
<1>2. /\ \A r \in Streams : state'[r] = state[r] \/ (r = s /\ state'[r] = "over")
      /\ UNCHANGED state \/ state'[s] = "over"
  BY DEF ReadEffect, Ends, TypeInv, StoreType
<1>3. /\ \A r \in Streams : state'[r] = "unused" <=> state[r] = "unused"
      /\ Open' \subseteq Open /\ (UNCHANGED state => Open' = Open)
      /\ state'[s] = "over" => s \notin Open'
  BY <1>1, <1>2 DEF Open
<1>4. thread \in Seq(ThreadItem) /\ thread' \in Seq(ThreadItem)
  BY DEF ReadEffect, Grants, Appends, Extends, TypeInv, StoreType
<1>5. LiveInv'
  <2> SUFFICES ASSUME NEW r \in Live'
               PROVE  (Open = {r} /\ abortRef = r /\ Turn(r) /\ (streaming \/ pendingPrompt # None))'
    BY DEF LiveInv
  <2>1. r \in Live /\ Open = {r} /\ abortRef = r /\ Turn(r) /\ (streaming \/ pendingPrompt # None)
    BY <1>1, <1>3 DEF Live, ChatInv, LiveInv
  <2>2. r = s /\ UNCHANGED state /\ Open' = Open
    BY <1>1, <1>2, <1>3, <2>1 DEF Live
  <2>3. UNCHANGED <<streaming, pendingPrompt>> \/ pendingPrompt' # None
    BY <1>1, <2>2, NoneIsNothing DEF ReadEffect, Ends, Grants, Prompt, CallId, TypeInv, StoreType
  <2>4. Turn(r)'
    <3>1. CASE UNCHANGED thread
      BY <2>1, <3>1 DEF Turn
    <3>2. CASE ~ UNCHANGED thread
      <4>1. ~ Ends(s)
        BY <1>1, <2>2 DEF Ends, TypeInv, StoreType
      <4> QED  BY <2>1, <2>2, <3>2, <4>1, TurnGoesOn DEF ReadEffect, Grants
    <3> QED  BY <3>1, <3>2
  <2> QED  BY <1>1, <2>1, <2>2, <2>3, <2>4
<1>6. OrderInv'
  BY <1>1, <1>3 DEF ChatInv, OrderInv
<1>7. SentInv'
  BY <1>1, <1>3 DEF ChatInv, SentInv
<1>8. CASE UNCHANGED thread
  <2>1. ThreadInv'
    BY <1>1, <1>3, <1>8, Thread DEF ChatInv, ThreadInv
  <2>2. StoppedInv'
    BY <1>1, <1>2, <1>8 DEF ChatInv, StoppedInv, TypeInv, StoreType
  <2> QED  BY <1>5, <1>6, <1>7, <2>1, <2>2 DEF ChatInv
<1>9. ASSUME NEW kind, Appends(kind, s) PROVE ChatInv'
  <2>1. /\ DOMAIN thread' = DOMAIN thread \cup {Len(thread) + 1}
        /\ \A i \in DOMAIN thread : thread'[i] = thread[i]
        /\ thread'[Len(thread) + 1].by = {s}
    BY <1>9, AppendedDomain
  <2>2. ThreadInv'
    <3> SUFFICES ASSUME NEW i \in DOMAIN thread'
                 PROVE  /\ thread'[i].by # {} /\ \A r \in thread'[i].by : state'[r] # "unused"
                        /\ \A q, r \in thread'[i].by \ astray : q = r
      BY <1>1 DEF ThreadInv
    <3>1. CASE i \in DOMAIN thread
      BY <1>3, <2>1, <3>1, Thread DEF ChatInv, ThreadInv
    <3>2. CASE i = Len(thread) + 1
      <4>1. s \in Streams /\ state'[s] # "unused"
        BY <1>1, <1>3
      <4> QED  BY <2>1, <3>2, <4>1
    <3> QED  BY <2>1, <3>1, <3>2
  <2>3. StoppedInv'
    <3>1. \A r \in stopped : r # s /\ state'[r] = "over"
      BY <1>1, <1>2 DEF ChatInv, StoppedInv, TypeInv, StoreType
    <3> QED  BY <1>1, <2>1, <3>1 DEF ChatInv, StoppedInv
  <2> QED  BY <1>5, <1>6, <1>7, <2>2, <2>3 DEF ChatInv
<1>10. CASE Extends(s)
  <2>1. DOMAIN thread' = DOMAIN thread /\ Len(thread) \in DOMAIN thread /\ lastAssistantMessage(thread)
    BY <1>10, Thread DEF Extends, lastAssistantMessage
  <2>2. s \notin astray => thread[Len(thread)].by = {s}
    BY <1>1, <2>1, LastOfTurn DEF ChatInv, LiveInv, Live
  <2>3. \A i \in DOMAIN thread :
          /\ thread'[i].kind = thread[i].kind /\ thread'[i].aborted = thread[i].aborted
          /\ thread'[i].by = thread[i].by \/ (i = Len(thread) /\ thread'[i].by = thread[i].by \cup {s})
    BY <1>10 DEF Extends
  <2>4. ThreadInv'
    <3> SUFFICES ASSUME NEW i \in DOMAIN thread
                 PROVE  /\ thread'[i].by # {} /\ \A r \in thread'[i].by : state'[r] # "unused"
                        /\ \A q, r \in thread'[i].by \ astray : q = r
      BY <1>1, <2>1 DEF ThreadInv
    <3>1. /\ thread[i].by # {} /\ \A r \in thread[i].by : state'[r] # "unused"
          /\ \A q, r \in thread[i].by \ astray : q = r
      BY <1>3, Thread DEF ChatInv, ThreadInv
    <3> QED  BY <1>1, <1>3, <2>2, <2>3, <3>1
  <2>5. StoppedInv'
    <3>1. \A r \in stopped : r # s /\ state'[r] = "over"
      BY <1>1, <1>2 DEF ChatInv, StoppedInv, TypeInv, StoreType
    <3> QED  BY <1>1, <2>1, <2>3, <3>1 DEF ChatInv, StoppedInv
  <2> QED  BY <1>5, <1>6, <1>7, <2>4, <2>5 DEF ChatInv
<1> QED  BY <1>8, <1>9, <1>10 DEF ReadEffect, Grants

LEMMA AbortKeeps ==
  ASSUME TypeInv, ChatInv, AbortEffect
  PROVE  ChatInv'
<1>1. /\ UNCHANGED <<abortRef, sent, astray>>
      /\ stopped' = stopped \cup (({abortRef} \cap Open) \ Acted)
      /\ \A r \in Streams : state'[r] = IF r \in {abortRef} \cap Open THEN "over" ELSE state[r]
  BY DEF AbortEffect, CutEffect
<1>2. \A r \in Streams : state'[r] = "unused" <=> state[r] = "unused"
  BY <1>1 DEF Open
<1>3. /\ DOMAIN thread' = DOMAIN thread
      /\ \A i \in DOMAIN thread :
           /\ thread'[i].kind = thread[i].kind /\ thread'[i].by = thread[i].by
           /\ thread[i].aborted => thread'[i].aborted
  BY Thread DEF AbortEffect, SameTexts
<1>4. LiveInv'
  <2> SUFFICES ASSUME NEW r \in Live' PROVE FALSE
    BY DEF LiveInv
  <2>1. r \in Live /\ state'[r] = "open"
    BY <1>1 DEF Live, Open
  <2>2. r \in {abortRef} \cap Open /\ r \in Streams
    BY <2>1 DEF ChatInv, LiveInv, Live, Open
  <2> QED  BY <1>1, <2>1, <2>2
<1>5. OrderInv'
  BY <1>1, <1>2 DEF ChatInv, OrderInv
<1>6. ThreadInv'
  BY <1>1, <1>2, <1>3, Thread DEF ChatInv, ThreadInv
<1>7. ASSUME NEW r \in ({abortRef} \cap Open) \ Acted, r \notin astray,
             NEW i \in DOMAIN thread, r \in thread[i].by, thread[i].kind # "tool_call"
      PROVE  thread'[i].aborted
  <2>1. Turn(r)
    BY <1>7 DEF ChatInv, LiveInv, Live
  <2>2. PICK p \in DOMAIN thread :
          /\ thread[p].kind = "user" /\ thread[p].by = {r}
          /\ \A j \in DOMAIN thread : j < p => r \notin thread[j].by
          /\ \A j \in DOMAIN thread : j > p => thread[j].by = {r} /\ thread[j].kind # "user"
          /\ (\A j \in DOMAIN thread : j > p => thread[j].kind # "tool_call") => Len(thread) <= p + 1
    BY <2>1 DEF Turn
  <2>3. \A j \in DOMAIN thread : j > p => thread[j].kind = "assistant"
    BY <1>7, <2>2, Thread DEF Acted, Kind
  <2>4. Len(thread) <= p + 1 /\ i >= p
    BY <1>7, <2>2, <2>3, Thread
  <2>5. \/ i = Len(thread)
        \/ i = p /\ i = Len(thread) - 1 /\ thread[Len(thread)].kind = "assistant"
    BY <2>2, <2>3, <2>4, Thread
  <2> QED  BY <1>7, <2>2, <2>5 DEF AbortEffect
<1>8. StoppedInv'
  <2>1. \A r \in stopped' : state'[r] = "over"
    BY <1>1 DEF ChatInv, StoppedInv, TypeInv, StoreType, Open
  <2>2. ASSUME NEW r \in stopped', r \notin astray, NEW i \in DOMAIN thread,
               r \in thread[i].by, thread[i].kind # "tool_call"
        PROVE  thread'[i].aborted
    <3>1. CASE r \in stopped
      BY <1>3, <2>2, <3>1 DEF ChatInv, StoppedInv
    <3>2. CASE r \notin stopped
      BY <1>1, <1>7, <2>2, <3>2
    <3> QED  BY <3>1, <3>2
  <2> QED  BY <1>1, <1>3, <2>1, <2>2 DEF StoppedInv
<1>9. SentInv'
  <2>1. \A s \in Streams, r \in {abortRef} \cap Open : r \notin sent[s]
    <3> SUFFICES ASSUME NEW s \in Streams, NEW r \in {abortRef} \cap Open, r \in sent[s] PROVE FALSE
      OBVIOUS
    <3>1. r \in Streams /\ abortRef = r /\ r < s /\ state[s] # "unused"
      BY DEF Open, ChatInv, SentInv
    <3> QED  BY <3>1 DEF ChatInv, OrderInv
  <2> QED  BY <1>1, <1>2, <2>1 DEF ChatInv, SentInv
<1> QED  BY <1>4, <1>5, <1>6, <1>8, <1>9 DEF ChatInv

LEMMA SendKeeps ==
  ASSUME TypeInv, ChatInv, NEW s \in Streams, SendEffect(s)
  PROVE  ChatInv'
<1>1. /\ state[s] = "unused" /\ state'[s] = "open" /\ abortRef' = s
      /\ \A r \in Streams : r < s => state[r] # "unused"
      /\ \A r \in Streams \ {s} : state'[r] = IF r \in {abortRef} \cap Open THEN "over" ELSE state[r]
      /\ UNCHANGED <<pendingPrompt, stopped>>
      /\ astray' = IF Open = {} THEN astray ELSE astray \cup {s}
      /\ sent' = [sent EXCEPT ![s] = messages(thread)]
  BY DEF SendEffect
<1>2. /\ Len(thread') = Len(thread) + 1 /\ DOMAIN thread' = DOMAIN thread \cup {Len(thread) + 1}
      /\ \A i \in DOMAIN thread : thread'[i] = thread[i]
      /\ thread'[Len(thread) + 1].kind = "user" /\ thread'[Len(thread) + 1].by = {s}
  BY AppendedDomain DEF SendEffect
<1>3. \A i \in DOMAIN thread : s \notin thread[i].by
  BY <1>1 DEF ChatInv, ThreadInv
<1>4. \A r \in Streams : state'[r] = "unused" <=> state[r] = "unused" /\ r # s
  BY <1>1 DEF Open
<1>5. LiveInv'
  <2> SUFFICES ASSUME NEW r \in Live'
               PROVE  (Open = {r} /\ abortRef = r /\ Turn(r) /\ (streaming \/ pendingPrompt # None))'
    BY DEF LiveInv
  <2>1. CASE Open # {}
    <3>1. r \in Streams \ {s} /\ r \notin astray /\ state'[r] = "open"
      BY <1>1, <2>1 DEF Live, Open
    <3>2. r \in Live
      BY <1>1, <3>1 DEF Live, Open
    <3>3. r \in {abortRef} \cap Open
      BY <3>2 DEF ChatInv, LiveInv, Live
    <3> QED  BY <1>1, <3>1, <3>3
  <2>2. CASE Open = {}
    <3>1. Open' = {s} /\ streaming' = TRUE
      BY <1>1, <2>2 DEF Open, SendEffect
    <3>2. r = s
      BY <3>1 DEF Live
    <3>3. Turn(s)'
      BY <1>2, <1>3, Thread DEF Turn
    <3> QED  BY <1>1, <3>1, <3>2, <3>3
  <2> QED  BY <2>1, <2>2
<1>6. OrderInv'
  <2> SUFFICES ASSUME NEW r \in Streams, NEW q \in Streams, r < q, state'[r] = "unused" \/ abortRef' = r
               PROVE  state'[q] = "unused"
    BY DEF OrderInv
  <2>1. CASE state'[r] = "unused"
    <3>1. state[r] = "unused" /\ state[q] = "unused"
      BY <1>4, <2>1 DEF ChatInv, OrderInv
    <3> QED  BY <1>1, <1>4, <3>1
  <2>2. CASE abortRef' = r
    <3>1. r = s /\ state[q] = "unused"
      BY <1>1, <2>2 DEF ChatInv, OrderInv
    <3>2. q # s
      BY <3>1 DEF Streams
    <3> QED  BY <1>4, <3>1, <3>2
  <2> QED  BY <2>1, <2>2
<1>7. ThreadInv'
  <2> SUFFICES ASSUME NEW i \in DOMAIN thread'
               PROVE  (/\ thread[i].by # {} /\ \A q \in thread[i].by : state[q] # "unused"
                       /\ \A q, r \in thread[i].by \ astray : q = r)'
    BY DEF ThreadInv
  <2>1. CASE i \in DOMAIN thread
    BY <1>1, <1>2, <1>4, <2>1, Thread DEF ChatInv, ThreadInv
  <2>2. CASE i = Len(thread) + 1
    BY <1>1, <1>2, <2>2
  <2> QED  BY <1>2, <2>1, <2>2
<1>8. StoppedInv'
  <2>1. \A r \in stopped : r # s /\ state'[r] = "over"
    BY <1>1 DEF ChatInv, StoppedInv, TypeInv, StoreType
  <2>2. astray \subseteq astray'
    BY <1>1
  <2> QED  BY <1>1, <1>2, <2>1, <2>2 DEF ChatInv, StoppedInv
<1>9. SentInv'
  <2>1. \A r \in messages(thread) :
          \E i \in DOMAIN thread : /\ r \in thread[i].by /\ ~ thread[i].aborted
                                   /\ thread[i].kind # "tool_call"
    BY DEF messages
  <2>2. ASSUME NEW r \in messages(thread) PROVE r < s
    <3>1. r \in Streams /\ state[r] # "unused"
      BY <2>1, Thread DEF ChatInv, ThreadInv
    <3>2. ~ (s < r)
      BY <1>1, <3>1 DEF ChatInv, OrderInv
    <3> QED  BY <1>1, <3>1, <3>2 DEF Streams
  <2>3. messages(thread) \cap stopped \subseteq astray
    BY <2>1 DEF ChatInv, StoppedInv
  <2>4. \A q \in Streams : sent'[q] = IF q = s THEN messages(thread) ELSE sent[q]
    BY <1>1 DEF TypeInv, StoreType
  <2>5. astray \subseteq astray'
    BY <1>1
  <2> QED  BY <1>1, <1>4, <2>2, <2>3, <2>4, <2>5 DEF ChatInv, SentInv
<1> QED  BY <1>5, <1>6, <1>7, <1>8, <1>9 DEF ChatInv

LEMMA OthersKeep ==
  ASSUME TypeInv, ChatInv, Quiet \/ ClearEffect \/ LeaveEffect \/ ApproveEffect
  PROVE  ChatInv'
<1>1. CASE Quiet \/ ApproveEffect
  <2>1. UNCHANGED <<thread, abortRef, state, sent, stopped, astray>> /\ Open' = Open
    BY <1>1 DEF Quiet, ApproveEffect, Open
  <2>2. UNCHANGED <<streaming, pendingPrompt>> \/ streaming' = TRUE
    BY <1>1 DEF Quiet, ApproveEffect
  <2>3. \A r : Turn(r)' <=> Turn(r)
    BY <2>1 DEF Turn
  <2>4. LiveInv'
    BY <2>1, <2>2, <2>3 DEF ChatInv, LiveInv, Live
  <2> QED  BY <2>1, <2>4 DEF ChatInv, OrderInv, ThreadInv, StoppedInv, SentInv
<1>2. CASE ClearEffect \/ LeaveEffect
  <2>1. /\ UNCHANGED <<state, sent, stopped>> /\ Open' = Open /\ astray' = astray \cup Open
        /\ abortRef' \in {abortRef, None} /\ thread' \in {thread, << >>}
    BY <1>2 DEF ClearEffect, LeaveEffect, Open
  <2>2. LiveInv'
    BY <2>1 DEF LiveInv, Live
  <2>3. OrderInv'
    BY <2>1, NoneIsNothing DEF ChatInv, OrderInv
  <2>4. ThreadInv' /\ StoppedInv'
    <3>1. DOMAIN thread' = {} \/ thread' = thread
      BY <2>1
    <3> QED  BY <2>1, <3>1 DEF ChatInv, ThreadInv, StoppedInv
  <2>5. SentInv'
    BY <2>1 DEF ChatInv, SentInv
  <2> QED  BY <2>2, <2>3, <2>4, <2>5 DEF ChatInv
<1> QED  BY <1>1, <1>2

\* A stream that is read and not astray is the page's own, its turn is the end of the thread, and
\* a turn that was stopped is marked and over (chatStore.ts, AiAssistantPage.tsx).
THEOREM ChatInvariant == Spec => []ChatInv
<1>1. Init => ChatInv
  <2> SUFFICES ASSUME Init PROVE ChatInv
    OBVIOUS
  <2>1. Open = {} /\ \A s \in Streams : state[s] = "unused" /\ sent[s] = {}
    BY DEF Init, Open
  <2>2. DOMAIN thread = {} /\ stopped = {}
    BY DEF Init
  <2> QED  BY <2>1, <2>2 DEF ChatInv, LiveInv, Live, OrderInv, ThreadInv, StoppedInv, SentInv
<1>2. TypeInv /\ ChatInv /\ [Next]_vars => ChatInv'
  BY Effects, ReadKeeps, AbortKeeps, SendKeeps, OthersKeep
<1> QED  BY <1>1, <1>2, TypeCorrect, PTL DEF Spec

\* However turns are stopped, denied and followed by others, a token reaches a message of its own
\* turn only, unless a stream that cannot be stopped is read (applyEvent, chatStore.ts).
THEOREM MessagesStayOfOneTurn == Spec => []MessagesAreOfOneTurn
<1>1. TypeInv /\ ChatInv => MessagesAreOfOneTurn
  <2> SUFFICES ASSUME TypeInv, ChatInv, NEW i \in DOMAIN thread
               PROVE  /\ Cardinality(thread[i].by \ astray) <= 1
                      /\ thread[i].by \cap astray = {} => Cardinality(thread[i].by) = 1
    BY DEF MessagesAreOfOneTurn
  <2> DEFINE own == thread[i].by \ astray
  <2>1. thread[i].by # {} /\ \A r, s \in own : r = s
    BY DEF ChatInv, ThreadInv
  <2>2. own = {} \/ \E r : own = {r}
    BY <2>1
  <2>3. Cardinality(own) <= 1 /\ (own # {} => Cardinality(own) = 1)
    <3>1. CASE own = {}
      BY <3>1, FS_EmptySet
    <3>2. ASSUME NEW r, own = {r} PROVE Cardinality(own) = 1
      BY <3>2, FS_Singleton
    <3> QED  BY <2>2, <3>1, <3>2
  <2>4. thread[i].by \cap astray = {} => own = thread[i].by
    OBVIOUS
  <2> QED  BY <2>1, <2>3, <2>4
<1> QED  BY <1>1, TypeCorrect, ChatInvariant, PTL

\* A turn that was stopped before a tool call of it showed is in no request the page sends later
\* (abortStream, chatStore.ts; the history of sendMessage, useChatSse.ts).
THEOREM StoppedTurnIsNotSent == Spec => []StoppedIsNotSent
<1>1. ChatInv => StoppedIsNotSent
  BY DEF ChatInv, SentInv, StoppedIsNotSent
<1> QED  BY <1>1, ChatInvariant, PTL

\* The status bar shows the check mark only when every stream that can be stopped is over, or a
\* prompt is open (StreamingIndicator; the end of the read loop, useChatSse.ts).
THEOREM FinishedTurnIsOver == Spec => []FinishedMeansOver
<1>1. TypeInv /\ ChatInv => FinishedMeansOver
  <2> SUFFICES ASSUME TypeInv, ChatInv, StreamingIndicator = "finished", ~ awaitingPermission
               PROVE  Open \subseteq astray
    BY DEF FinishedMeansOver
  <2>1. ~ streaming /\ pendingPrompt = None
    BY DEF StreamingIndicator, awaitingPermission
  <2> QED  BY <2>1 DEF ChatInv, LiveInv, Live
<1> QED  BY <1>1, TypeCorrect, ChatInvariant, PTL

===================================================================================
