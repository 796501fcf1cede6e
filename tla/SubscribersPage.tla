------------------------------ MODULE SubscribersPage ------------------------------
(* The subscribers page of the web application (SubscribersPage.tsx), its form     *)
(* (SubscriberForm.tsx), the list and the catalogue of devices it reads and the    *)
(* mutations that patch the list (subscribers.ts), with their handlers             *)
(* (subscribers.go).                                                               *)
(*                                                                                 *)
(* A subscriber's device is stored as a type allocation code, the TAC, and an      *)
(* IMEI.  The form makes one that starts with the TAC; the handlers take any       *)
(* (subscribers.go, mcp/tools_subscribers.go), so one stored by another client may *)
(* be of another TAC, or not valid.  The form shows neither: it shows a            *)
(* manufacturer and a model, found by the TAC in a catalogue that may arrive after *)
(* the form, and derives both again from what is picked.                           *)
(*                                                                                 *)
(* A manufacturer is the set of the TACs of its models; the TACs of no             *)
(* manufacturer are those the catalogue does not list.  An IMEI is its TAC,        *)
(* whether the form made it and whether it is valid (15 digits, the last one       *)
(* checking the others).  MSISDN and ICCID are one version number.  Bounds:        *)
(* MaxSaves mutations, MaxFaults lost calls or list requests, MaxTyped edits of    *)
(* the SIM fields, MaxPicks picks of a device.                                     *)
EXTENDS Naturals, FiniteSets

CONSTANTS Subs, Existing, Makers, Unlisted, MaxSaves, MaxFaults, MaxTyped, MaxPicks, None

SubscribersPageBounds ==
  /\ Existing \subseteq Subs /\ Unlisted \cap UNION Makers = {}
  /\ None \notin Subs /\ None \notin Makers /\ None \notin UNION Makers /\ None \notin Unlisted
  /\ {MaxSaves, MaxFaults, MaxTyped, MaxPicks} \subseteq Nat

VARIABLES
  stored,              \* the server: a subscriber's record, or None
  catalog,             \* the catalogue has been loaded
  subscribers,         \* the list, None until it has been loaded
  subsFailed, subsFetch, \* its last request failed; the one that is out
  saves,               \* the mutations, in the order they were asked
  panel, confirm,      \* the drawer and its form; the subscriber a delete dialog is open on
  faults, typedSims, picks

server  == <<stored, faults>>
list    == <<subscribers, subsFailed, subsFetch>>
dialogs == <<panel, confirm, typedSims, picks>>
vars    == <<server, catalog, list, saves, dialogs>>

Listed == UNION Makers
Tacs   == Listed \cup Unlisted
Sims   == 0..MaxTyped
Saves  == 1..MaxSaves
Closed == [kind |-> "closed"]
Idle   == [phase |-> "none"]

Imei   == [tac : Tacs, made : BOOLEAN, valid : BOOLEAN]
Record == [sim : Sims, named : BOOLEAN, tac : Tacs \cup {None}, imei : Imei \cup {None}]

Out(c) == saves[c].phase \in {"asked", "answered"}

-----------------------------------------------------------------------------------
(* The form.                                                                       *)

Empty == [sim |-> None, maker |-> None, model |-> None, imei |-> None]

fromSubscriber(sub, loaded) ==
  LET known == loaded /\ sub.tac \in Listed IN
  [sim   |-> sub.sim,
   maker |-> IF known THEN CHOOSE m \in Makers : sub.tac \in m ELSE None,
   model |-> IF known THEN sub.tac ELSE None,
   imei  |-> sub.imei]

pickedTac(form) == IF form.maker = None THEN None ELSE form.model

buildImei(tac) == [tac |-> tac, made |-> TRUE, valid |-> TRUE]

\* A likely bug: an IMEI is made when there is none, whatever device the present one is of.
rederiveMissing(form) ==
  [form EXCEPT !.imei =
     IF pickedTac(form) = None THEN None
     ELSE IF @ # None THEN @ ELSE buildImei(pickedTac(form))]

\* The effect on the picked TAC: an IMEI of another device, or one that is not valid, is
\* replaced, and one of no device is cleared.
rederive(form) ==
  [form EXCEPT !.imei =
     IF pickedTac(form) = None THEN None
     ELSE IF @ # None /\ @.tac = pickedTac(form) /\ @.valid THEN @ ELSE buildImei(pickedTac(form))]

\* The effect runs when the form is mounted and when the TAC has changed.
Rendered(old, new) == IF pickedTac(old) = pickedTac(new) THEN new ELSE rederive(new)

initial(loaded) == IF panel.kind = "create" THEN Empty ELSE fromSubscriber(panel.base, loaded)

\* The effect on the catalogue: the form holds what it was opened with again.
reset(loaded) ==
  IF panel = Closed THEN Closed
  ELSE [panel EXCEPT !.form = Rendered(panel.form, initial(loaded)), !.touched = FALSE]

\* While the catalogue is missing, each render of the page passes a new empty one.
PageRenders == panel' = IF catalog THEN panel ELSE reset(FALSE)

isValid(form) == form.sim # None /\ (form.maker = None <=> form.model = None)

-----------------------------------------------------------------------------------
(* The queries.                                                                    *)

\* Asking again while a first load is out joins it; later it replaces what is out.
Refetched == IF subscribers = None /\ subsFetch # Idle THEN subsFetch ELSE [phase |-> "asked"]

listSubscribers ==
  /\ subsFetch.phase = "asked"
  /\ subsFetch' = [phase |-> "answered", ans |-> [s \in {t \in Subs : stored[t] # None} |-> stored[s]]]
  /\ UNCHANGED <<server, catalog, subscribers, subsFailed, saves, dialogs>>

ListReturns ==
  /\ subsFetch.phase = "answered"
  /\ subscribers' = subsFetch.ans
  /\ subsFetch' = Idle /\ subsFailed' = FALSE
  /\ PageRenders
  /\ UNCHANGED <<server, catalog, saves, confirm, typedSims, picks>>

ListFails ==
  /\ subsFetch.phase = "asked"
  /\ faults < MaxFaults
  /\ faults' = faults + 1
  /\ subsFetch' = Idle /\ subsFailed' = TRUE
  /\ PageRenders
  /\ UNCHANGED <<stored, catalog, subscribers, saves, confirm, typedSims, picks>>

Retry ==
  /\ subsFailed /\ subsFetch = Idle
  /\ subsFetch' = [phase |-> "asked"]
  /\ UNCHANGED <<server, catalog, subscribers, subsFailed, saves, dialogs>>

\* The application's event stream is lost: every query is asked again.
Invalidated ==
  /\ faults < MaxFaults
  /\ faults' = faults + 1
  /\ subsFetch' = Refetched
  /\ UNCHANGED <<stored, catalog, subscribers, subsFailed, saves, dialogs>>

\* A likely bug: the form is reset for another subscriber only.
CatalogArrivesUnseen ==
  /\ ~catalog /\ catalog' = TRUE
  /\ UNCHANGED <<server, list, saves, dialogs>>

\* The catalogue arrives, once: an open form is reset, and what was typed in it is lost.
CatalogArrives ==
  /\ ~catalog /\ catalog' = TRUE
  /\ panel' = reset(TRUE)
  /\ UNCHANGED <<server, list, saves, confirm, typedSims, picks>>

-----------------------------------------------------------------------------------
(* The user.                                                                       *)

TableShown == subscribers # None /\ ~subsFailed
Uncovered  == panel = Closed /\ confirm = None

UserFrame == UNCHANGED <<server, catalog, list, saves>>

Opened(kind, s, base, form) ==
  panel' = [kind |-> kind, sub |-> s, base |-> base, form |-> rederive(form), call |-> None, touched |-> FALSE]

Add ==
  /\ Uncovered
  /\ Opened("create", None, None, Empty)
  /\ UNCHANGED <<confirm, typedSims, picks>>
  /\ UserFrame

\* The drawer keeps the row it was opened on.
Edit(s) ==
  /\ TableShown /\ Uncovered /\ s \in DOMAIN subscribers
  /\ Opened("edit", s, subscribers[s], fromSubscriber(subscribers[s], catalog))
  /\ UNCHANGED <<confirm, typedSims, picks>>
  /\ UserFrame

\* The close button works while a call is out.
Close ==
  /\ panel # Closed
  /\ panel' = Closed
  /\ UNCHANGED <<confirm, typedSims, picks>>
  /\ UserFrame

\* MSISDN and ICCID are typed, the ICCID may be generated when the settings have a prefix.
TypeSim ==
  /\ panel # Closed
  /\ typedSims < MaxTyped
  /\ typedSims' = typedSims + 1
  /\ panel' = [panel EXCEPT !.form.sim = typedSims']
  /\ UNCHANGED <<confirm, picks>>
  /\ UserFrame

Pick(form) ==
  /\ picks < MaxPicks
  /\ picks' = picks + 1
  /\ panel' = [panel EXCEPT !.form = Rendered(panel.form, form), !.touched = TRUE]
  /\ UNCHANGED <<confirm, typedSims>>
  /\ UserFrame

\* Another manufacturer, or none, takes the model with it.
PickManufacturer ==
  /\ panel # Closed /\ catalog
  /\ \E maker \in (Makers \cup {None}) \ {panel.form.maker} :
       Pick([panel.form EXCEPT !.maker = maker, !.model = None])

PickModel ==
  /\ panel # Closed /\ panel.form.maker # None
  /\ \E model \in (panel.form.maker \cup {None}) \ {panel.form.model} :
       Pick([panel.form EXCEPT !.model = model])

handleRegenerate ==
  /\ panel # Closed /\ pickedTac(panel.form) # None
  /\ Pick([panel.form EXCEPT !.imei = buildImei(pickedTac(panel.form))])

\* The creation's pending flag is the drawer's, an update's is the form's, which goes when the
\* drawer is closed.
submitting ==
  IF panel.kind = "create"
  THEN \E c \in Saves : Out(c) /\ saves[c].op = "create"
  ELSE panel.call # None /\ Out(panel.call)

Ask(c, op, s, value) ==
  /\ saves[c].phase = "unused"
  /\ \A d \in Saves : d < c => saves[d].phase # "unused"
  /\ saves' = [saves EXCEPT ![c] = [phase |-> "asked", op |-> op, sub |-> s, value |-> value, ans |-> None]]
  /\ UNCHANGED <<server, catalog, list>>

\* What is sent names the device by the TAC picked; without one it has neither TAC nor IMEI.
\* The subscriber's name, which the form does not have, is not sent.
input(form) ==
  [sim |-> form.sim, named |-> FALSE, tac |-> pickedTac(form),
   imei |-> IF pickedTac(form) = None THEN None ELSE form.imei]

handleSubmit(c) ==
  /\ panel # Closed /\ ~submitting /\ isValid(panel.form)
  /\ IF panel.kind = "create"
     THEN \E s \in Subs \ Existing : stored[s] = None /\ Ask(c, "create", s, input(panel.form))
     ELSE Ask(c, "update", panel.sub, input(panel.form))
  /\ panel' = [panel EXCEPT !.call = c]
  /\ UNCHANGED <<confirm, typedSims, picks>>

onRequestDelete ==
  /\ panel.kind = "edit" /\ ~submitting
  /\ panel' = Closed /\ confirm' = panel.sub
  /\ UNCHANGED <<typedSims, picks>>
  /\ UserFrame

\* One mutation serves the dialog whatever subscriber it names.
handleConfirm(c) ==
  /\ confirm # None
  /\ ~\E d \in Saves : Out(d) /\ saves[d].op = "delete"
  /\ Ask(c, "delete", confirm, None)
  /\ UNCHANGED dialogs

CloseDelete ==
  /\ confirm # None
  /\ confirm' = None
  /\ UNCHANGED <<panel, typedSims, picks>>
  /\ UserFrame

-----------------------------------------------------------------------------------
(* The mutations.                                                                  *)

Done(c) == saves' = [saves EXCEPT ![c] = [phase |-> "done"]]

\* A refusal is a toast, or messages at the fields: the drawer and the dialog stay.  An update
\* replaces the whole record, the name that was not sent included.
Handled(c) ==
  LET s == saves[c].sub IN
  /\ saves[c].phase = "asked"
  /\ IF (saves[c].op = "create") = (stored[s] # None)
     THEN Done(c) /\ UNCHANGED stored
     ELSE /\ stored' = [stored EXCEPT ![s] = saves[c].value]
          /\ saves' = [saves EXCEPT ![c].phase = "answered", ![c].ans = saves[c].value]
  /\ UNCHANGED <<faults, catalog, list, dialogs>>

\* So is the loss of the request or of its answer.
SaveLost(c) ==
  /\ saves[c].phase \in {"asked", "answered"}
  /\ faults < MaxFaults
  /\ faults' = faults + 1
  /\ Done(c)
  /\ UNCHANGED <<stored, catalog, list, dialogs>>

\* The answer closes whatever drawer is open.
createReturns(c) ==
  /\ saves[c].phase = "answered" /\ saves[c].op = "create"
  /\ Done(c)
  /\ subsFetch' = Refetched
  /\ panel' = Closed
  /\ UNCHANGED <<server, catalog, subscribers, subsFailed, confirm, typedSims, picks>>

\* Writing the list also ends the failure of its last request.
updateReturns(c) ==
  /\ saves[c].phase = "answered" /\ saves[c].op = "update"
  /\ Done(c)
  /\ subscribers' = IF subscribers # None /\ saves[c].sub \in DOMAIN subscribers
                    THEN [subscribers EXCEPT ![saves[c].sub] = saves[c].ans] ELSE subscribers
  /\ subsFailed' = (subsFailed /\ subscribers = None)
  /\ panel' = Closed
  /\ UNCHANGED <<server, catalog, subsFetch, confirm, typedSims, picks>>

deleteReturns(c) ==
  /\ saves[c].phase = "answered" /\ saves[c].op = "delete"
  /\ Done(c)
  /\ subscribers' = IF subscribers = None THEN None
                    ELSE [s \in DOMAIN subscribers \ {saves[c].sub} |-> subscribers[s]]
  /\ subsFailed' = (subsFailed /\ subscribers = None)
  /\ PageRenders
  /\ confirm' = None
  /\ UNCHANGED <<server, catalog, subsFetch, typedSims, picks>>

-----------------------------------------------------------------------------------
\* The records other clients have stored: any TAC and any IMEI, or neither, or only one.
Init ==
  /\ stored \in [Subs -> {None} \cup [sim : {0}, named : {TRUE}, tac : Tacs \cup {None},
                                      imei : [tac : Tacs, made : {FALSE}, valid : BOOLEAN] \cup {None}]]
  /\ \A s \in Subs : s \in Existing <=> stored[s] # None
  /\ catalog \in BOOLEAN
  /\ subscribers = None /\ subsFailed = FALSE /\ subsFetch = [phase |-> "asked"]
  /\ saves = [c \in Saves |-> [phase |-> "unused"]]
  /\ panel = Closed /\ confirm = None
  /\ faults = 0 /\ typedSims = 0 /\ picks = 0

Queries == listSubscribers \/ ListReturns \/ ListFails \/ Retry \/ Invalidated \/ CatalogArrives

User ==
  \/ Add \/ Close \/ TypeSim \/ PickManufacturer \/ PickModel \/ handleRegenerate
  \/ onRequestDelete \/ CloseDelete
  \/ \E s \in Subs : Edit(s)
  \/ \E c \in Saves : handleSubmit(c) \/ handleConfirm(c)

Mutations ==
  \E c \in Saves : Handled(c) \/ SaveLost(c) \/ createReturns(c) \/ updateReturns(c) \/ deleteReturns(c)

Next == Queries \/ User \/ Mutations

Spec == Init /\ [][Next]_vars

-----------------------------------------------------------------------------------
(* Properties.                                                                     *)

\* Every variable keeps its type: rows and stored records are whole, and the form holds what
\* the catalogue or a record offered.
TypeOK ==
  /\ stored \in [Subs -> Record \cup {None}]
  /\ catalog \in BOOLEAN /\ subsFailed \in BOOLEAN
  /\ subscribers # None => \A s \in DOMAIN subscribers : s \in Subs /\ subscribers[s] \in Record
  /\ subsFetch.phase \in {"none", "asked", "answered"}
  /\ \A c \in Saves : saves[c].phase \in {"unused", "asked", "answered", "done"}
  /\ panel # Closed => /\ panel.form.sim \in Sims \cup {None} /\ panel.form.maker \in Makers \cup {None}
                       /\ panel.form.model \in Tacs \cup {None} /\ panel.form.imei \in Imei \cup {None}
  /\ confirm \in Subs \cup {None}
  /\ faults \in 0..MaxFaults /\ typedSims \in Sims /\ picks \in 0..MaxPicks

\* The IMEI is one of the device, and valid.
Fits(r) == r.tac # None /\ r.imei # None => r.imei.tac = r.tac /\ r.imei.valid

\* An update asked with a device the user has not picked, and whose TAC the catalogue lists,
\* sends that device: its TAC, and its IMEI when it has one that fits.  The catalogue and the
\* list may arrive at any time between the opening of the form and the update.  An IMEI that
\* does not fit is replaced although nobody has touched it; without the catalogue the update
\* erases the device, and so it does when the TAC is not listed.
UntouchedDeviceIsSentStep ==
  \A c \in Saves :
    (saves[c].phase = "unused" /\ saves'[c].phase = "asked" /\ saves'[c].op = "update"
       /\ catalog /\ ~panel.touched /\ panel.base.tac \in Listed)
    => /\ saves'[c].value.tac = panel.base.tac
       /\ panel.base.imei # None /\ Fits(panel.base) => saves'[c].value.imei = panel.base.imei

UntouchedDeviceIsSent == [][UntouchedDeviceIsSentStep]_vars

\* Whatever a record held when its form was opened, and whatever is picked, cleared, typed and
\* reset, in whatever order the answers come: a record the page has stored has an IMEI of its
\* device, and a valid one.
ImeiFitsDeviceStep ==
  \A s \in Subs : stored'[s] # stored[s] /\ stored'[s] # None => Fits(stored'[s])

ImeiFitsDevice == [][ImeiFitsDeviceStep]_vars

====================================================================================
