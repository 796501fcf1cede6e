------------------------------- MODULE SettingsPage -------------------------------
(* The settings page of the web application (SettingsPage.tsx): the form of the    *)
(* locally stored settings (settings.ts), the AI assistant's card, the tools'      *)
(* permissions and the custom dictionaries, with the queries and mutations         *)
(* behind the last three (aiConfig.ts, aiPermissions.ts, dictionaries.ts) and      *)
(* their handlers.                                                                 *)
(*                                                                                 *)
(* A section's component goes when another section is opened: its query is then    *)
(* cancelled and goes back to what it was before, its mutations go on.  A          *)
(* mutation's answer invalidates its query, which asks it again if its section is  *)
(* open and leaves that to the next opening if not; only a dictionary's mutation   *)
(* waits for the reload before it is done.                                         *)
(*                                                                                 *)
(* A dictionary is a version number, the local settings are one number, 0 is not   *)
(* valid.  An endpoint is that of a provider.  Bounds: MaxTasks mutations,         *)
(* MaxLost lost requests or answers, MaxTouches edits in all forms together,       *)
(* MaxVisits changes of the section.                                               *)
EXTENDS Naturals, FiniteSets

CONSTANTS Dicts, StoredDicts, Tools, Endpoints, Models,
          MaxTasks, MaxLost, MaxTouches, MaxVisits, None

VARIABLES
  section, visits,
  settings, general,  \* the stored settings; the form's values and the ones it calls clean
  own,                \* the server: the dictionaries, the permissions, the AI configuration
  shown, asks,        \* the cache: the data of a query, or None, and the request that is out
  invalid,            \* the queries that have been invalidated since they were loaded
  tasks,              \* the mutations, in the order they were asked
  modal,              \* the dictionary dialog
  card,               \* the AI card, None while another section is open
  offered,            \* the queries of models that have an answer
  lost, touches,
  stale, overdue      \* history: queries whose data may be old, unless a mutation's reload is out;
                      \* those that were invalidated already when a section was last opened

server  == <<own, lost>>
queries == <<shown, asks, invalid, stale, overdue>>
forms   == <<settings, general, modal, card, touches>>
nav     == <<section, visits>>
vars    == <<nav, server, queries, tasks, forms, offered>>

Resources == {"dict", "perm", "ai"}
Tasks     == 1..MaxTasks
Decisions == {"ask", "allow", "deny"}
Keys      == {"none", "old", "new"}
Fields    == {"endpoint", "model", "thinking", "apiKey"}
Closed    == [kind |-> "closed"]

Config == [endpoint : Endpoints \cup {None}, model : Models \cup {None}, thinking : BOOLEAN]
Assistant == [endpoint : Endpoints, model : Models \cup {None}, thinking : BOOLEAN, key : Keys \ {"none"}]
Card   == [seeded : BOOLEAN, endpoint : Endpoints \cup {None}, model : Models \cup {None}, thinking : BOOLEAN,
           apiKey : Keys, touched : SUBSET Fields, base : Config \cup {None}]

SettingsPageBounds ==
  /\ StoredDicts \subseteq Dicts /\ {MaxTasks, MaxLost, MaxTouches, MaxVisits} \subseteq Nat
  /\ None \notin Endpoints \cup Models \cup Config \cup Card \cup Assistant

Out(t)  == tasks[t].phase \in {"asked", "keyed", "answered", "reloading"}
Busy(r) == \E t \in Tasks : Out(t) /\ tasks[t].res = r

\* A mutation's pending flag is its component's, which forgets it when it goes.
Pending(r, id) == \E t \in Tasks : Out(t) /\ tasks[t].live /\ tasks[t].res = r /\ tasks[t].id = id

Touched == touches < MaxTouches /\ touches' = touches + 1

-----------------------------------------------------------------------------------
(* The AI card.                                                                    *)

\* What the server says of its configuration: the key is masked.  There may be no assistant.
getAIConfig ==
  IF own.ai = None THEN [endpoint |-> None, model |-> None, thinking |-> FALSE]
  ELSE [endpoint |-> own.ai.endpoint, model |-> own.ai.model, thinking |-> own.ai.thinking]

Fresh == [seeded |-> FALSE, endpoint |-> None, model |-> None, thinking |-> FALSE, apiKey |-> "none",
          touched |-> {}, base |-> None]

Filled(c, cfg) ==
  [c EXCEPT !.seeded = TRUE, !.endpoint = cfg.endpoint, !.model = cfg.model, !.thinking = cfg.thinking,
            !.touched = @ \cap {"apiKey"}, !.base = cfg]

\* The effect on the configuration: the first one fills the card, later ones do not.
seed(c, cfg) == IF c = None \/ cfg = None THEN c ELSE IF c.seeded THEN c ELSE Filled(c, cfg)

\* Nothing but a skeleton is there while the first load is out.
CardShown == card # None /\ (shown.ai # None \/ asks.ai.phase = "none")

CardFrame == UNCHANGED <<nav, server, queries, tasks, settings, general, modal, offered>>

handleProviderChange ==
  /\ CardShown /\ Touched
  /\ \E e \in Endpoints \cup {None} :
       card' = [card EXCEPT !.endpoint = e, !.model = None, !.touched = @ \cup {"endpoint", "model"}]
  /\ CardFrame

setApiKey ==
  /\ CardShown /\ Touched
  /\ \E key \in {"none", "new"} \ {card.apiKey} :
       card' = [card EXCEPT !.apiKey = key, !.touched = @ \cup {"apiKey"}]
  /\ CardFrame

\* The models of an endpoint are asked for as soon as it is in the field, once with a typed key
\* and once without: another key is not asked with again.
modelsKey == <<card.endpoint, card.apiKey # "none">>

useAIModels ==
  /\ CardShown /\ card.endpoint # None /\ modelsKey \notin offered /\ own.ai # None
  /\ offered' = offered \cup {modelsKey}
  /\ UNCHANGED <<nav, server, queries, tasks, forms>>

setModel ==
  /\ CardShown /\ modelsKey \in offered /\ Touched
  /\ \E m \in Models \ {card.model} :
       card' = [card EXCEPT !.model = m, !.touched = @ \cup {"model"}]
  /\ CardFrame

setThinking ==
  /\ CardShown /\ Touched
  /\ card' = [card EXCEPT !.thinking = ~@, !.touched = @ \cup {"thinking"}]
  /\ CardFrame

\* A likely bug: the model stays when the card is reset.
handleResetButModel ==
  /\ CardShown /\ shown.ai # None /\ ~Pending("ai", None)
  /\ card' = [Filled(card, shown.ai) EXCEPT !.model = card.model, !.apiKey = "none", !.touched = {}]
  /\ UNCHANGED touches
  /\ CardFrame

handleReset ==
  /\ CardShown /\ shown.ai # None /\ ~Pending("ai", None)
  /\ card' = [Filled(card, shown.ai) EXCEPT !.apiKey = "none", !.touched = {}]
  /\ UNCHANGED touches
  /\ CardFrame

-----------------------------------------------------------------------------------
(* The queries.                                                                    *)

\* Asking again while a first load is out joins it; later it replaces what is out.
Joins(r)     == shown[r] = None /\ asks[r].phase # "none"
Refetched(r) == IF Joins(r) THEN asks ELSE [asks EXCEPT ![r] = [phase |-> "asked"]]

\* What the server would answer.
Data(r) == IF r = "ai" THEN getAIConfig ELSE own[r]

Handled(r) ==
  /\ asks[r].phase = "asked"
  /\ asks' = [asks EXCEPT ![r] = [phase |-> "answered", ans |-> Data(r)]]
  /\ UNCHANGED <<nav, server, shown, invalid, stale, overdue, tasks, forms, offered>>

\* The mutations that wait for a reload are done with it, and close the dialog they were asked
\* from, whatever it shows by now.
Closes(t) == tasks[t].phase = "reloading" /\ tasks[t].live /\ modal.kind = tasks[t].dialog

FinishReloads(r) ==
  /\ tasks' = [t \in Tasks |-> IF tasks[t].phase = "reloading" /\ tasks[t].res = r
                               THEN [phase |-> "done"] ELSE tasks[t]]
  /\ modal' = IF r = "dict" /\ \E t \in Tasks : Closes(t) THEN Closed ELSE modal

QueryReturns(r) ==
  /\ asks[r].phase = "answered"
  /\ shown' = [shown EXCEPT ![r] = asks[r].ans]
  /\ asks' = [asks EXCEPT ![r] = [phase |-> "none"]]
  /\ card' = IF r = "ai" THEN seed(card, asks[r].ans) ELSE card
  /\ invalid' = invalid \ {r} /\ overdue' = overdue \ {r}
  /\ stale' = IF asks[r].ans = Data(r) THEN stale \ {r} ELSE stale
  /\ FinishReloads(r)
  /\ UNCHANGED <<nav, server, settings, general, touches, offered>>

QueryFails(r) ==
  /\ asks[r].phase = "asked"
  /\ lost < MaxLost
  /\ lost' = lost + 1
  /\ asks' = [asks EXCEPT ![r] = [phase |-> "none"]]
  /\ invalid' = invalid \cup {r} /\ stale' = stale \cup {r}
  /\ FinishReloads(r)
  /\ UNCHANGED <<nav, own, shown, overdue, settings, general, card, touches, offered>>

\* Opening a section mounts its component, which asks its query when there is no data, old data
\* or data that was invalidated.  The component that goes cancels its own query, and with it the
\* wait for its reload.
setActiveSection(s) ==
  /\ modal = Closed /\ s # section
  /\ visits < MaxVisits
  /\ visits' = visits + 1 /\ section' = s
  /\ card' = IF s = "ai" THEN seed(Fresh, shown.ai) ELSE None
  /\ tasks' = [t \in Tasks |-> IF tasks[t].phase = "reloading" THEN [phase |-> "done"]
                               ELSE IF Out(t) THEN [tasks[t] EXCEPT !.live = FALSE] ELSE tasks[t]]
  /\ \E again \in IF s \in Resources /\ shown[s] # None /\ s \notin invalid THEN BOOLEAN ELSE {TRUE} :
       asks' = [r \in Resources |-> [phase |-> IF r = s /\ again THEN "asked" ELSE "none"]]
  /\ overdue' = invalid
  /\ UNCHANGED <<server, shown, invalid, stale, settings, general, modal, touches, offered>>

-----------------------------------------------------------------------------------
(* The local settings.                                                             *)

isDirty == general.values # general.clean
isValid == general.values # 0

Type ==
  /\ section = "general" /\ Touched
  /\ \E v \in 0..(MaxTouches + 1) \ {general.values} : general' = [general EXCEPT !.values = v]
  /\ UNCHANGED <<nav, server, queries, tasks, settings, modal, card, offered>>

\* Submitting stores all of the form, in the section shown or not.
Stored ==
  IF isValid
  THEN settings' = general.values /\ general' = [general EXCEPT !.clean = general.values]
  ELSE UNCHANGED <<settings, general>>

Save ==
  /\ section = "general" /\ isDirty /\ isValid
  /\ Stored
  /\ UNCHANGED <<nav, server, queries, tasks, modal, card, touches, offered>>

ResetChanges ==
  /\ section = "general" /\ isDirty
  /\ general' = [values |-> settings, clean |-> settings]
  /\ UNCHANGED <<nav, server, queries, tasks, settings, modal, card, touches, offered>>

-----------------------------------------------------------------------------------
(* The mutations.                                                                  *)

Ask(t, r, id, value, more) ==
  /\ tasks[t].phase = "unused"
  /\ \A u \in Tasks : u < t => tasks[u].phase # "unused"
  /\ tasks' = [tasks EXCEPT ![t] =
       [phase |-> "asked", res |-> r, id |-> id, value |-> value, live |-> TRUE,
        dialog |-> modal.kind, touched |-> more.touched, base |-> more.base, raced |-> FALSE]]
  /\ UNCHANGED <<nav, server, queries, offered>>

Plain == [touched |-> {}, base |-> None]

\* A key that was not typed is not sent, which tells the server to keep its own.
handleSave(t) ==
  /\ CardShown /\ ~Pending("ai", None)
  /\ Ask(t, "ai", None, [endpoint |-> card.endpoint, model |-> card.model, thinking |-> card.thinking,
                         key |-> card.apiKey], card)
  /\ UNCHANGED forms

handleChange(t, tool) ==
  /\ section = "perm" /\ shown.perm # None /\ ~Pending("perm", tool)
  /\ \E d \in Decisions \ {shown.perm[tool]} : Ask(t, "perm", tool, d, Plain)
  /\ UNCHANGED forms

openCreate ==
  /\ section = "dict" /\ modal = Closed
  /\ modal' = [kind |-> "create", id |-> None, version |-> 0]
  /\ UNCHANGED <<nav, server, queries, tasks, settings, general, card, touches, offered>>

\* The dialog is seeded with the row it was opened on.
setEditTarget(d) ==
  /\ section = "dict" /\ modal = Closed /\ shown.dict # None
  /\ shown.dict[d] # None
  /\ modal' = [kind |-> "edit", id |-> d, version |-> shown.dict[d]]
  /\ UNCHANGED <<nav, server, queries, tasks, settings, general, card, touches, offered>>

EditDictionary ==
  /\ modal # Closed /\ Touched
  /\ modal' = [modal EXCEPT !.version = touches']
  /\ UNCHANGED <<nav, server, queries, tasks, settings, general, card, offered>>

\* The dialog can be closed while a mutation is out.
CloseDialog ==
  /\ modal # Closed
  /\ modal' = Closed
  /\ UNCHANGED <<nav, server, queries, tasks, settings, general, card, touches, offered>>

DialogSaves(kind) ==
  \E t \in Tasks :
    Out(t) /\ tasks[t].live /\ tasks[t].res = "dict" /\ tasks[t].dialog = kind /\ tasks[t].value # None

\* The dialog's form lies within the page's: its submission submits that one as well.
handleSubmit(t) ==
  /\ modal # Closed /\ modal.version # 0 /\ ~DialogSaves(modal.kind)
  /\ IF modal.kind = "create"
     THEN \E d \in Dicts \ StoredDicts : own.dict[d] = None /\ Ask(t, "dict", d, modal.version, Plain)
     ELSE Ask(t, "dict", modal.id, modal.version, Plain)
  /\ Stored
  /\ UNCHANGED <<modal, card, touches>>

handleDelete(t) ==
  /\ modal.kind = "edit"
  /\ ~\E u \in Tasks : Out(u) /\ tasks[u].live /\ tasks[u].res = "dict" /\ tasks[u].value = None
  /\ Ask(t, "dict", modal.id, None, Plain)
  /\ UNCHANGED forms

\* A likely bug: the masked key is taken for the stored one.
GetConfigAPIKey == "none"

GetRawAPIKey == own.ai.key

\* The handler of a save reads the stored key, if none was sent, before it writes.
KeyIsRead(t) ==
  /\ tasks[t].phase = "asked" /\ tasks[t].res = "ai" /\ own.ai # None
  /\ tasks[t].value.key = "none"
  /\ tasks' = [tasks EXCEPT ![t].phase = "keyed", ![t].value.key = GetRawAPIKey]
  /\ UNCHANGED <<nav, server, queries, forms, offered>>

\* Without an assistant every save is refused, with one that of a blank endpoint; so is a
\* change of a dictionary that is gone.
Refused(t) ==
  \/ tasks[t].res = "ai" /\ (own.ai = None \/ tasks[t].value.endpoint = None)
  \/ tasks[t].res = "dict" /\ tasks[t].dialog = "edit" /\ own.dict[tasks[t].id] = None

HasKey(t) == tasks[t].res = "ai" /\ own.ai # None => tasks[t].value.key # "none"

updateAIConfig(v) ==
  [own EXCEPT !.ai = [endpoint |-> v.endpoint, model |-> v.model, thinking |-> v.thinking, key |-> v.key]]

\* What a save does to the others: who has read the key by now may write an old one.
Overtakes(t, u) == u # t /\ tasks[t].res = "ai" /\ tasks[u].phase = "keyed"

\* A refusal or a loss is a toast; the dialog and the card stay as they are.
TaskHandled(t) ==
  /\ (tasks[t].phase = "asked" /\ HasKey(t)) \/ tasks[t].phase = "keyed"
  /\ IF Refused(t)
     THEN tasks' = [tasks EXCEPT ![t] = [phase |-> "done"]] /\ UNCHANGED own
     ELSE /\ tasks' = [u \in Tasks |-> IF u = t THEN [tasks[u] EXCEPT !.phase = "answered"]
                                       ELSE IF Overtakes(t, u) THEN [tasks[u] EXCEPT !.raced = TRUE]
                                       ELSE tasks[u]]
          /\ own' = IF tasks[t].res = "ai" THEN updateAIConfig(tasks[t].value)
                    ELSE [own EXCEPT ![tasks[t].res][tasks[t].id] = tasks[t].value]
  /\ UNCHANGED <<nav, lost, queries, forms, offered>>

TaskLost(t) ==
  /\ tasks[t].phase \in {"asked", "answered"}
  /\ lost < MaxLost
  /\ lost' = lost + 1
  /\ tasks' = [tasks EXCEPT ![t] = [phase |-> "done"]]
  /\ stale' = IF tasks[t].phase = "answered" THEN stale \cup {tasks[t].res} ELSE stale
  /\ UNCHANGED <<nav, own, shown, asks, invalid, overdue, forms, offered>>

\* The query is invalidated, and asked again if its section is open.
Invalidated(r) ==
  /\ invalid' = invalid \cup {r}
  /\ IF section = r THEN asks' = Refetched(r) /\ overdue' = overdue \ {r}
     ELSE UNCHANGED <<asks, overdue>>
  /\ stale' = IF section = r /\ Joins(r) THEN stale \cup {r} ELSE stale \ {r}

\* A save of the card then clears the key field, a key typed meanwhile with it.
KeyCleared(t) ==
  card' = IF tasks[t].res = "ai" /\ tasks[t].live
          THEN [card EXCEPT !.apiKey = "none", !.touched = @ \ {"apiKey"}] ELSE card

\* A likely bug: the mutation of a dictionary does not wait for the reload.
TaskReturnsAtOnce(t) ==
  /\ tasks[t].phase = "answered"
  /\ Invalidated(tasks[t].res) /\ KeyCleared(t)
  /\ tasks' = [tasks EXCEPT ![t] = [phase |-> "done"]]
  /\ UNCHANGED <<nav, server, shown, settings, general, modal, touches, offered>>

TaskReturns(t) ==
  /\ tasks[t].phase = "answered"
  /\ Invalidated(tasks[t].res) /\ KeyCleared(t)
  /\ tasks' = [tasks EXCEPT ![t] = IF tasks[t].res = "dict" /\ section = "dict"
                                   THEN [@ EXCEPT !.phase = "reloading"] ELSE [phase |-> "done"]]
  /\ UNCHANGED <<nav, server, shown, settings, general, modal, touches, offered>>

-----------------------------------------------------------------------------------
Init ==
  /\ section = "general" /\ visits = 0
  /\ settings = 1 /\ general = [values |-> 1, clean |-> 1]
  /\ own \in [dict : {[d \in Dicts |-> IF d \in StoredDicts THEN MaxTouches + 1 ELSE None]},
              perm : {[t \in Tools |-> "ask"]},
              ai   : [endpoint : Endpoints, model : Models, thinking : {FALSE}, key : {"old"}] \cup {None}]
  /\ shown = [r \in Resources |-> None]
  /\ asks = [r \in Resources |-> [phase |-> "none"]]
  /\ tasks = [t \in Tasks |-> [phase |-> "unused"]]
  /\ modal = Closed /\ card = None /\ offered = {}
  /\ lost = 0 /\ touches = 0 /\ invalid = {} /\ stale = {} /\ overdue = {}

Queries == \E r \in Resources : Handled(r) \/ QueryReturns(r) \/ QueryFails(r)

CardEdits ==
  \/ handleProviderChange \/ setApiKey \/ useAIModels \/ setModel \/ setThinking \/ handleReset
  \/ \E t \in Tasks : handleSave(t)

Dialogs ==
  \/ openCreate \/ EditDictionary \/ CloseDialog
  \/ \E d \in Dicts : setEditTarget(d)
  \/ \E t \in Tasks : handleSubmit(t) \/ handleDelete(t)

Page ==
  \/ Type \/ Save \/ ResetChanges
  \/ \E s \in Resources \cup {"general"} : setActiveSection(s)
  \/ \E t \in Tasks, tool \in Tools : handleChange(t, tool)

Mutations == \E t \in Tasks : KeyIsRead(t) \/ TaskHandled(t) \/ TaskLost(t) \/ TaskReturns(t)

Next == Queries \/ CardEdits \/ Dialogs \/ Page \/ Mutations

Spec == Init /\ [][Next]_vars

-----------------------------------------------------------------------------------
(* Properties.                                                                     *)

\* Every variable keeps its type; a stored endpoint and a stored key are never cleared.
TypeOK ==
  /\ section \in Resources \cup {"general"} /\ visits \in 0..MaxVisits
  /\ settings \in 1..(MaxTouches + 1) /\ general.values \in 0..(MaxTouches + 1)
  /\ own.dict \in [Dicts -> Nat \cup {None}] /\ own.perm \in [Tools -> Decisions]
  /\ own.ai \in Assistant \cup {None}
  /\ \A r \in Resources : asks[r].phase \in {"none", "asked", "answered"}
  /\ \A t \in Tasks : tasks[t].phase \in {"unused", "asked", "keyed", "answered", "reloading", "done"}
  /\ card # None => card.touched \subseteq Fields /\ card.apiKey \in Keys
  /\ modal.kind \in {"closed", "create", "edit"}
  /\ lost \in 0..MaxLost /\ touches \in 0..MaxTouches /\ {invalid, stale, overdue} \subseteq SUBSET Resources

\* Once no mutation of the open section is out and its query is not being asked, it shows what
\* the server has, whatever sections were opened, dialogs closed and requests cancelled or
\* replaced meanwhile.  For the dictionaries no mutation out is enough, unless the list was
\* invalidated while another section was open, or its reload was cut off by opening one: then
\* the old list stays until the load the return has asked for is there.  The exceptions are a
\* reload or an answer that was lost, and a mutation that ended while the first load had been
\* answered already, each until it is made good by another mutation's reload or by a load that
\* brings what the server has.
SettledPagesAreServers ==
  \A r \in Resources \ stale :
    section = r /\ ~Busy(r) /\ shown[r] # None
      /\ (asks[r].phase = "none" \/ (r = "dict" /\ r \notin overdue))
    => shown[r] = Data(r)

\* A save of the AI card writes, in a field the user has not changed since the card was last
\* filled, what it was filled with: the server's value, unless another save has changed it
\* since, which this one takes back.  A key that was not typed stays, unless another save came
\* between the handler's reading the stored key and its writing it.  A card that was never
\* filled, as its load failed, writes its blanks.
SavesKeepWhatWasFilledStep ==
  \A t \in Tasks :
    (tasks[t].phase \in {"asked", "keyed"} /\ tasks'[t].phase = "answered" /\ tasks[t].res = "ai")
    => /\ tasks[t].base # None =>
            \A f \in {"endpoint", "model", "thinking"} \ tasks[t].touched : own'.ai[f] = tasks[t].base[f]
       /\ "apiKey" \in tasks[t].touched \/ tasks[t].raced \/ own'.ai.key = own.ai.key

SavesKeepWhatWasFilled == [][SavesKeepWhatWasFilledStep]_vars

====================================================================================
