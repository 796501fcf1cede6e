------------------------------- MODULE ConsoleProofs -------------------------------
(* What is proved of the pages holds of the console, for every value of its        *)
(* constants: on its route a page's steps are the console's, and on another one    *)
(* nothing is claimed of it. So the inductive invariant of the console is that of  *)
(* the page, on its route. The pages come first, each with an invariant of its     *)
(* own; the console is the last part.                                              *)
(*                                                                                 *)
(* The subscribers page: for any subscribers, devices, number of mutations and     *)
(* order of answers it stores no IMEI of another device and no invalid one,        *)
(* whatever was stored before, and sends an untouched device as it was unless its  *)
(* IMEI did not fit it. Neither is inductive by itself. What is stored was sent,   *)
(* and what is sent was derived in a form; so the invariant says of every record   *)
(* on its way that it fits (RecordsFit), and of the form that what it holds would  *)
(* (FormFits). And an untouched form shows its row's device as soon as it can      *)
(* (RowIsShown), which the reset keeps only because nothing can be picked before   *)
(* there is a catalogue. SP is a short name for an instance of that page;          *)
(* expanded, it says what the console's instance says (SameSubscribersPage).       *)
(*                                                                                 *)
(* The settings page: a save of the AI card writes what the card was filled with   *)
(* but for what the user has changed, and an open section with nothing out shows   *)
(* what the server has. The first is a fact of the server's step, about a value    *)
(* that left the card long before; the invariant carries it there: the card agrees *)
(* with the configuration it was filled with but for the touched fields, and so    *)
(* does every save that is out, which has the stored key once the handler has read *)
(* it unless another save came between (CardAgrees, SavesAgree). Clearing the key  *)
(* field when a save is done needs the card to be there: a save that may clear it  *)
(* has not outlived its card (SavesHaveCard). The second follows an answer from    *)
(* the server to the page: it is what the server has unless a mutation was made    *)
(* since, and that mutation, not told of yet, is going to invalidate it (Fresh);   *)
(* what is invalid is asked again once its section is open (AskedAgain), and       *)
(* nothing is asked for a section that is not (Idle).                              *)
(*                                                                                 *)
(* The peers page: the table settles on the server's peers, and a status toast     *)
(* tells a change. TableIsServers says something of a quiet page only; its         *)
(* invariant has to say what every writer of a row will write. So ServerInv says   *)
(* what the server gives: ids are not given again, and the event of a peer that    *)
(* was queued last has its status (EventsEndInState), whichever of its feeds it    *)
(* came from. RowsInv says of each peer that its row is the server's, up to a      *)
(* status an event will bring (Good), unless a call has guessed at it or is        *)
(* answered with what it does not show (Clouds); and that an answer that nothing   *)
(* has passed over, a guess's way back and a list answer are as good. The toasts   *)
(* need that, while a peer's connection has not changed since its last toast,      *)
(* every event, answer and list on its way has its status (StillEvents,            *)
(* StillAnswer, StillFetch), and that a guess goes back to what the toasts compare *)
(* with (StillPrev).                                                               *)
EXTENDS Console, TLAPS, FiniteSetTheorems, SequenceTheorems

SP == INSTANCE SubscribersPage

-----------------------------------------------------------------------------------
(* The subscribers page: its invariant.                                            *)

\* The types in full.
Form ==
  [sim : SP!Sims \cup {None}, maker : Makers \cup {None}, model : SP!Tacs \cup {None}, imei : SP!Imei \cup {None}]

Panel ==
  {SP!Closed}
  \cup [kind : {"create"}, sub : {None}, base : {None}, form : Form, call : SP!Saves \cup {None},
        touched : BOOLEAN]
  \cup [kind : {"edit"}, sub : Subs, base : SP!Record, form : Form, call : SP!Saves \cup {None},
        touched : BOOLEAN]

Save ==
  [phase : {"unused", "done"}]
  \cup [phase : {"asked"}, op : {"create", "update"}, sub : Subs, value : SP!Record, ans : {None}]
  \cup [phase : {"answered"}, op : {"create", "update"}, sub : Subs, value : SP!Record, ans : SP!Record]
  \cup [phase : {"asked", "answered"}, op : {"delete"}, sub : Subs, value : {None}, ans : {None}]

List == UNION {[S -> SP!Record] : S \in SUBSET Subs}

SubscribersTypes ==
  /\ stored \in [Subs -> SP!Record \cup {None}]
  /\ catalog \in BOOLEAN /\ subsFailed \in BOOLEAN
  /\ subscribers \in List \cup {None}
  /\ subsFetch \in [phase : {"none", "asked"}] \cup [phase : {"answered"}, ans : List]
  /\ saves \in [SP!Saves -> Save]
  /\ panel \in Panel /\ confirm \in Subs \cup {None}
  /\ faults \in 0..MaxFaults /\ typedSims \in SP!Sims /\ picks \in 0..MaxPicks

FormFits(f) ==
  SP!pickedTac(f) # None /\ f.imei # None => f.imei.tac = SP!pickedTac(f) /\ f.imei.valid

\* The records sent and answered; those stored or listed may be anyone's.
RecordsFit ==
  \A c \in SP!Saves : SP!Out(c) /\ saves[c].op # "delete" =>
    SP!Fits(saves[c].value) /\ (saves[c].phase = "answered" => SP!Fits(saves[c].ans))

\* What a form opened on a row shows of it, if the row's device is in the catalogue.
Shows(f, row) ==
  row.tac \in SP!Listed =>
    SP!pickedTac(f) = row.tac /\ (row.imei # None /\ SP!Fits(row) => f.imei = row.imei)

PanelFits(p) == p.kind # "closed" => FormFits(p.form)

\* Nothing can be picked before there is a catalogue to pick from.
RowIsShown(p, loaded) ==
  /\ p.kind # "closed" /\ ~loaded => p.form.maker = None
  /\ p.kind = "edit" /\ loaded /\ ~p.touched => Shows(p.form, p.base)

SubscribersInv == SubscribersTypes /\ RecordsFit /\ PanelFits(panel) /\ RowIsShown(panel, catalog)

-----------------------------------------------------------------------------------
(* The subscribers page: the form's operators.                                     *)

\* A picked TAC is one of the catalogue's.
LEMMA PickedTacs ==
  ASSUME NEW f \in Form PROVE SP!pickedTac(f) \in SP!Tacs \cup {None}
BY DEF Form, SP!pickedTac

\* The effect leaves a consistent form, and touches neither the choice nor an IMEI of it.
LEMMA Rederived ==
  ASSUME SP!SubscribersPageBounds, NEW f \in Form
  PROVE  /\ SP!rederive(f) \in Form /\ FormFits(SP!rederive(f))
         /\ SP!pickedTac(SP!rederive(f)) = SP!pickedTac(f) /\ SP!rederive(f).maker = f.maker
         /\ SP!pickedTac(f) # None /\ f.imei # None /\ FormFits(f) => SP!rederive(f).imei = f.imei
<1> DEFINE new == IF SP!pickedTac(f) = None THEN None
                  ELSE IF f.imei # None /\ f.imei.tac = SP!pickedTac(f) /\ f.imei.valid THEN f.imei
                  ELSE SP!buildImei(SP!pickedTac(f))
<1>1. new \in SP!Imei \cup {None}
  BY PickedTacs DEF Form, SP!Imei, SP!buildImei
<1>2. SP!rederive(f) = [f EXCEPT !.imei = new]
  BY DEF SP!rederive, Form
<1>3. SP!rederive(f) \in Form /\ SP!rederive(f).imei = new /\ SP!rederive(f).maker = f.maker /\ SP!rederive(f).model = f.model
  BY <1>1, <1>2 DEF Form
<1>4. SP!pickedTac(SP!rederive(f)) = SP!pickedTac(f)
  BY <1>3 DEF SP!pickedTac
<1>5. FormFits(SP!rederive(f))
  BY <1>3, <1>4 DEF FormFits, SP!buildImei
<1> QED
  BY <1>3, <1>4, <1>5 DEF FormFits

\* The effect runs after a change of the picked TAC only; a form that is consistent already,
\* that differs from a consistent one in the choice alone, or that follows one without a
\* device, is consistent after it.
LEMMA RenderedFits ==
  ASSUME SP!SubscribersPageBounds, NEW old \in Form, NEW new \in Form,
         FormFits(new) \/ (FormFits(old) /\ new.imei = old.imei) \/ SP!pickedTac(old) = None
  PROVE  /\ SP!Rendered(old, new) \in Form /\ FormFits(SP!Rendered(old, new))
         /\ SP!pickedTac(SP!Rendered(old, new)) = SP!pickedTac(new)
         /\ SP!Rendered(old, new).maker = new.maker
         /\ FormFits(new) /\ SP!pickedTac(new) # None /\ new.imei # None => SP!Rendered(old, new).imei = new.imei
<1>1. CASE SP!pickedTac(old) = SP!pickedTac(new)
  BY <1>1 DEF SP!Rendered, FormFits
<1>2. CASE SP!pickedTac(old) # SP!pickedTac(new)
  BY <1>2, Rederived DEF SP!Rendered, FormFits
<1> QED
  BY <1>1, <1>2

\* A form filled from a row shows the row's device if the catalogue has it, and its IMEI.
LEMMA FilledFits ==
  ASSUME SP!SubscribersPageBounds, NEW row \in SP!Record, NEW loaded \in BOOLEAN
  PROVE  /\ SP!fromSubscriber(row, loaded) \in Form
         /\ SP!fromSubscriber(row, loaded).imei = row.imei
         /\ ~loaded => SP!fromSubscriber(row, loaded).maker = None
         /\ SP!pickedTac(SP!fromSubscriber(row, loaded)) =
              IF loaded /\ row.tac \in SP!Listed THEN row.tac ELSE None
<1> DEFINE m == CHOOSE m \in Makers : row.tac \in m
           inList == loaded /\ row.tac \in SP!Listed
           f == SP!fromSubscriber(row, loaded)
<1>1. ASSUME inList PROVE m \in Makers /\ row.tac \in SP!Tacs
  BY <1>1 DEF SP!Listed, SP!Tacs
<1>2. f = [sim |-> row.sim, maker |-> IF inList THEN m ELSE None, model |-> IF inList THEN row.tac ELSE None, imei |-> row.imei]
  BY DEF SP!fromSubscriber
<1> HIDE DEF m, f
<1>3. f \in Form
  BY <1>1, <1>2 DEF Form, SP!Record
<1>4. f.imei = row.imei /\ (~loaded => f.maker = None)
  BY <1>2
<1>5. SP!pickedTac(f) = IF inList THEN row.tac ELSE None
  BY <1>1, <1>2 DEF SP!pickedTac, SP!SubscribersPageBounds
<1> QED
  BY <1>3, <1>4, <1>5 DEF f

\* A form without a device is consistent.
LEMMA EmptyFits ==
  SP!SubscribersPageBounds => SP!Empty \in Form /\ FormFits(SP!Empty) /\ SP!Empty.maker = None
BY DEF SP!Empty, Form, FormFits, SP!pickedTac

\* What a consistent form sends is consistent.
LEMMA InputFits ==
  ASSUME NEW f \in Form, SP!isValid(f), FormFits(f)
  PROVE  SP!input(f) \in SP!Record /\ SP!Fits(SP!input(f))
<1>1. SP!input(f) \in SP!Record
  BY PickedTacs DEF SP!input, SP!Record, Form, SP!isValid
<1>2. SP!Fits(SP!input(f))
  BY DEF SP!input, SP!Fits, FormFits
<1> QED
  BY <1>1, <1>2

-----------------------------------------------------------------------------------
(* The panel.                                                                      *)

\* A reset, and a render without the catalogue, leave the panel consistent: no device is
\* picked before them, so the effect runs if one is after them.
LEMMA ResetFits ==
  ASSUME SP!SubscribersPageBounds, panel \in Panel, panel.kind # "closed" => panel.form.maker = None,
         NEW loaded \in BOOLEAN
  PROVE  SP!reset(loaded) \in Panel /\ PanelFits(SP!reset(loaded)) /\ RowIsShown(SP!reset(loaded), loaded)
<1>1. CASE panel = SP!Closed
  BY <1>1 DEF SP!reset, SP!Closed, Panel, PanelFits, RowIsShown
<1>2. CASE panel # SP!Closed
  <2> DEFINE first == SP!initial(loaded)
             f == SP!Rendered(panel.form, first)
             p == [panel EXCEPT !.form = f, !.touched = FALSE]
  <2>1. panel.form \in Form /\ SP!pickedTac(panel.form) = None /\ panel.kind \in {"create", "edit"}
        /\ (panel.kind = "edit" => panel.base \in SP!Record)
    BY <1>2 DEF Panel, SP!Closed, SP!pickedTac
  <2>2. /\ first \in Form /\ (~loaded => first.maker = None)
        /\ panel.kind = "edit" =>
             /\ first.imei = panel.base.imei
             /\ SP!pickedTac(first) = IF loaded /\ panel.base.tac \in SP!Listed THEN panel.base.tac ELSE None
    BY <2>1, EmptyFits, FilledFits DEF SP!initial
  <2> HIDE DEF first
  <2>3. /\ f \in Form /\ FormFits(f) /\ SP!pickedTac(f) = SP!pickedTac(first) /\ f.maker = first.maker
        /\ FormFits(first) /\ SP!pickedTac(first) # None /\ first.imei # None => f.imei = first.imei
    BY <2>1, <2>2, RenderedFits
  <2>4. SP!reset(loaded) = p
    BY <1>2 DEF SP!reset, first
  <2>5. /\ p \in Panel /\ p.form = f /\ p.kind = panel.kind /\ p.touched = FALSE
        /\ p.kind = "edit" => p.base = panel.base
    BY <1>2, <2>3 DEF Panel
  <2>6. panel.kind = "edit" /\ loaded => Shows(f, panel.base)
    BY <2>1, <2>2, <2>3 DEF Shows, FormFits, SP!Fits, SP!SubscribersPageBounds, SP!Listed
  <2> QED
    BY <2>2, <2>3, <2>4, <2>5, <2>6 DEF PanelFits, RowIsShown
<1> QED
  BY <1>1, <1>2

LEMMA PageRendersFits ==
  ASSUME SP!SubscribersPageBounds, SubscribersInv, SP!PageRenders
  PROVE  panel' \in Panel /\ PanelFits(panel') /\ RowIsShown(panel', catalog)
BY ResetFits DEF SubscribersInv, SubscribersTypes, RowIsShown, SP!PageRenders

\* A form that is just opened.
LEMMA OpenedFits ==
  ASSUME SP!SubscribersPageBounds, NEW kind, NEW s, NEW base, NEW form \in Form, SP!Opened(kind, s, base, form),
         ~catalog => form.maker = None,
         \/ kind = "create" /\ s = None /\ base = None
         \/ /\ kind = "edit" /\ s \in Subs /\ base \in SP!Record /\ form.imei = base.imei
            /\ SP!pickedTac(form) = IF catalog /\ base.tac \in SP!Listed THEN base.tac ELSE None
  PROVE  panel' \in Panel /\ PanelFits(panel') /\ RowIsShown(panel', catalog)
<1> DEFINE f == SP!rederive(form)
<1>1. /\ f \in Form /\ FormFits(f) /\ SP!pickedTac(f) = SP!pickedTac(form) /\ f.maker = form.maker
      /\ SP!pickedTac(form) # None /\ form.imei # None /\ FormFits(form) => f.imei = form.imei
  BY Rederived
<1>2. panel' = [kind |-> kind, sub |-> s, base |-> base, form |-> f, call |-> None, touched |-> FALSE]
  BY DEF SP!Opened
<1> HIDE DEF f
<1>3. panel' \in Panel
  BY <1>1, <1>2 DEF Panel
<1>4. kind = "edit" /\ catalog => Shows(f, base)
  BY <1>1 DEF Shows, FormFits, SP!Fits, SP!SubscribersPageBounds, SP!Listed
<1> QED
  BY <1>1, <1>2, <1>3, <1>4 DEF PanelFits, RowIsShown

\* A pick keeps the form consistent and marks it touched.
LEMMA PickFits ==
  ASSUME SP!SubscribersPageBounds, SubscribersInv, panel # SP!Closed, NEW form \in Form, SP!Pick(form),
         FormFits(form) \/ form.imei = panel.form.imei, ~catalog => form.maker = None
  PROVE  /\ panel' \in Panel /\ PanelFits(panel') /\ RowIsShown(panel', catalog)
         /\ confirm' \in Subs \cup {None} /\ typedSims' \in SP!Sims /\ picks' \in 0..MaxPicks
<1> DEFINE f == SP!Rendered(panel.form, form)
<1>1. panel.form \in Form /\ FormFits(panel.form) /\ panel.kind \in {"create", "edit"}
  BY DEF SubscribersInv, SubscribersTypes, Panel, PanelFits, SP!Closed
<1>2. f \in Form /\ FormFits(f) /\ f.maker = form.maker
  BY <1>1, RenderedFits
<1>3. panel' = [panel EXCEPT !.form = f, !.touched = TRUE]
  BY DEF SP!Pick
<1> HIDE DEF f
<1>4. /\ panel' \in Panel /\ panel'.form = f /\ panel'.kind = panel.kind /\ panel'.touched = TRUE
      /\ panel'.kind = "edit" => panel'.base = panel.base
  BY <1>1, <1>2, <1>3 DEF SubscribersInv, SubscribersTypes, Panel, SP!Closed
<1>5. confirm' \in Subs \cup {None} /\ typedSims' \in SP!Sims /\ picks' \in 0..MaxPicks
  BY DEF SP!Pick, SubscribersInv, SubscribersTypes, SP!SubscribersPageBounds
<1> QED
  BY <1>1, <1>2, <1>4, <1>5 DEF SubscribersInv, PanelFits, RowIsShown

-----------------------------------------------------------------------------------
(* The steps.                                                                      *)

LEMMA InitSubscribers == SP!SubscribersPageBounds /\ SP!Init => SubscribersInv
<1> SUFFICES ASSUME SP!SubscribersPageBounds, SP!Init PROVE SubscribersInv
  OBVIOUS
<1>1. stored \in [Subs -> SP!Record \cup {None}]
  <2> DEFINE first == [sim : {0}, named : {TRUE}, tac : SP!Tacs \cup {None}, imei : [tac : SP!Tacs, made : {FALSE}, valid : BOOLEAN] \cup {None}]
  <2>1. 0 \in SP!Sims
    BY DEF SP!Sims, SP!SubscribersPageBounds
  <2>2. [tac : SP!Tacs, made : {FALSE}, valid : BOOLEAN] \subseteq SP!Imei
    BY DEF SP!Imei
  <2>3. first \subseteq SP!Record
    BY <2>1, <2>2 DEF SP!Record
  <2>4. stored \in [Subs -> {None} \cup first]
    BY DEF SP!Init
  <2> HIDE DEF first
  <2> QED
    BY <2>3, <2>4
<1>2. SubscribersTypes
  <2>1. saves \in [SP!Saves -> Save]
    BY DEF SP!Init, Save
  <2>2. panel \in Panel /\ confirm \in Subs \cup {None}
    BY DEF SP!Init, Panel
  <2>3. faults \in 0..MaxFaults /\ typedSims \in SP!Sims /\ picks \in 0..MaxPicks
    BY DEF SP!Init, SP!Sims, SP!SubscribersPageBounds
  <2>4. subsFetch \in [phase : {"none", "asked"}]
    BY DEF SP!Init
  <2>5. catalog \in BOOLEAN /\ subsFailed \in BOOLEAN /\ subscribers = None
    BY DEF SP!Init
  <2> QED
    BY <1>1, <2>1, <2>2, <2>3, <2>4, <2>5 DEF SubscribersTypes
<1>4. RecordsFit
  BY DEF SP!Init, RecordsFit, SP!Out
<1> QED
  BY <1>2, <1>4 DEF SubscribersInv, SP!Init, PanelFits, RowIsShown, SP!Closed

\* The requests of the list: rows are copied from the server to the answer and to the cache.
LEMMA QueriesInv ==
  ASSUME SP!SubscribersPageBounds, SubscribersInv, SP!Queries
  PROVE  SubscribersInv'
<1> USE DEF SubscribersInv, SP!server, SP!list, SP!dialogs
<1>1. CASE SP!listSubscribers
  <2> DEFINE S == {t \in Subs : stored[t] # None}
             ans == [s \in S |-> stored[s]]
  <2>1. ans \in [S -> SP!Record] /\ S \in SUBSET Subs
    BY DEF SubscribersTypes
  <2>2. ans \in List
    BY <2>1 DEF List
  <2>4. subsFetch' = [phase |-> "answered", ans |-> ans]
    BY <1>1 DEF SP!listSubscribers
  <2> HIDE DEF ans
  <2>5. SubscribersTypes'
    BY <1>1, <2>2, <2>4 DEF SP!listSubscribers, SubscribersTypes
  <2>6. RecordsFit'
    BY <1>1 DEF SP!listSubscribers, RecordsFit, SP!Out
  <2> QED
    BY <1>1, <2>5, <2>6 DEF SP!listSubscribers
<1>2. CASE SP!ListReturns
  <2>1. SubscribersTypes'
    BY <1>2, PageRendersFits DEF SP!ListReturns, SubscribersTypes, SP!Idle
  <2>2. RecordsFit'
    BY <1>2 DEF SP!ListReturns, RecordsFit, SP!Out, SP!Idle
  <2> QED
    BY <1>2, <2>1, <2>2, PageRendersFits DEF SP!ListReturns
<1>3. CASE SP!ListFails
  <2>1. SubscribersTypes'
    BY <1>3, PageRendersFits DEF SP!ListFails, SubscribersTypes, SP!Idle, SP!SubscribersPageBounds
  <2>2. RecordsFit'
    BY <1>3 DEF SP!ListFails, RecordsFit, SP!Out, SP!Idle
  <2> QED
    BY <1>3, <2>1, <2>2, PageRendersFits DEF SP!ListFails
<1>4. CASE SP!Retry
  <2>1. SubscribersTypes' /\ RecordsFit'
    BY <1>4 DEF SP!Retry, SubscribersTypes, RecordsFit, SP!Out
  <2> QED
    BY <1>4, <2>1 DEF SP!Retry
<1>5. CASE SP!Invalidated
  <2>1. SubscribersTypes' /\ RecordsFit'
    BY <1>5 DEF SP!Invalidated, SP!Refetched, SubscribersTypes, RecordsFit, SP!Out,
      SP!SubscribersPageBounds
  <2> QED
    BY <1>5, <2>1 DEF SP!Invalidated
<1>6. CASE SP!CatalogArrives
  <2>1. panel' \in Panel /\ PanelFits(panel') /\ RowIsShown(panel', TRUE)
    BY <1>6, ResetFits DEF SP!CatalogArrives, SubscribersTypes, RowIsShown
  <2>2. SubscribersTypes' /\ RecordsFit'
    BY <1>6, <2>1 DEF SP!CatalogArrives, SubscribersTypes, RecordsFit, SP!Out
  <2> QED
    BY <1>6, <2>1, <2>2 DEF SP!CatalogArrives
<1> QED
  BY <1>1, <1>2, <1>3, <1>4, <1>5, <1>6 DEF SP!Queries

\* The user's steps that send nothing.
LEMMA UserInv ==
  ASSUME SP!SubscribersPageBounds, SubscribersInv, SP!UserFrame,
         \/ SP!Add \/ SP!Close \/ SP!TypeSim \/ SP!PickManufacturer \/ SP!PickModel \/ SP!handleRegenerate
         \/ SP!onRequestDelete \/ SP!CloseDelete \/ \E s \in Subs : SP!Edit(s)
  PROVE  SubscribersInv'
<1> SUFFICES /\ panel' \in Panel /\ PanelFits(panel') /\ RowIsShown(panel', catalog)
             /\ confirm' \in Subs \cup {None} /\ typedSims' \in SP!Sims /\ picks' \in 0..MaxPicks
  BY DEF SubscribersInv, SubscribersTypes, RecordsFit, SP!Out, SP!UserFrame, SP!server, SP!list
<1>0. confirm \in Subs \cup {None} /\ typedSims \in SP!Sims /\ picks \in 0..MaxPicks
      /\ panel \in Panel /\ PanelFits(panel) /\ RowIsShown(panel, catalog)
  BY DEF SubscribersInv, SubscribersTypes
<1>1. CASE SP!Add
  BY <1>0, <1>1, EmptyFits, OpenedFits DEF SP!Add
<1>2. CASE SP!Close
  BY <1>0, <1>2 DEF SP!Close, Panel, SP!Closed, PanelFits, RowIsShown
<1>3. CASE SP!TypeSim
  <2>1. typedSims' \in SP!Sims
    BY <1>0, <1>3 DEF SP!TypeSim, SP!Sims, SP!SubscribersPageBounds
  <2>2. panel # SP!Closed /\ panel.form \in Form /\ panel.kind \in {"create", "edit"}
    BY <1>0, <1>3 DEF SP!TypeSim, Panel, SP!Closed
  <2> DEFINE f == [panel.form EXCEPT !.sim = typedSims']
  <2>3. f \in Form /\ SP!pickedTac(f) = SP!pickedTac(panel.form) /\ f.imei = panel.form.imei
        /\ f.maker = panel.form.maker
    BY <2>1, <2>2 DEF Form, SP!pickedTac
  <2>4. panel' = [panel EXCEPT !.form = f]
    BY <1>3 DEF SP!TypeSim
  <2> HIDE DEF f
  <2>5. /\ panel' \in Panel /\ panel'.form = f /\ panel'.kind = panel.kind /\ panel'.touched = panel.touched
        /\ panel'.kind = "edit" => panel'.base = panel.base
    BY <1>0, <2>2, <2>3, <2>4 DEF Panel
  <2> QED
    BY <1>0, <1>3, <2>1, <2>3, <2>5 DEF SP!TypeSim, PanelFits, RowIsShown, FormFits, Shows
<1>4. CASE SP!PickManufacturer
  <2>1. PICK maker \in (Makers \cup {None}) : SP!Pick([panel.form EXCEPT !.maker = maker, !.model = None])
    BY <1>4 DEF SP!PickManufacturer
  <2>2. panel # SP!Closed /\ panel.form \in Form /\ catalog
    BY <1>0, <1>4 DEF SP!PickManufacturer, Panel, SP!Closed
  <2> DEFINE f == [panel.form EXCEPT !.maker = maker, !.model = None]
  <2>3. f \in Form /\ f.imei = panel.form.imei /\ SP!Pick(f)
    BY <2>1, <2>2 DEF Form
  <2> HIDE DEF f
  <2> QED
    BY <2>2, <2>3, PickFits
<1>5. CASE SP!PickModel
  <2>1. PICK model \in (panel.form.maker \cup {None}) : SP!Pick([panel.form EXCEPT !.model = model])
    BY <1>5 DEF SP!PickModel
  <2>2. panel # SP!Closed /\ panel.form \in Form /\ panel.form.maker \in Makers /\ catalog
    BY <1>0, <1>5 DEF SP!PickModel, Panel, SP!Closed, Form, RowIsShown
  <2> DEFINE f == [panel.form EXCEPT !.model = model]
  <2>3. f \in Form /\ f.imei = panel.form.imei
    BY <2>1, <2>2 DEF Form, SP!Tacs, SP!Listed
  <2> HIDE DEF f
  <2> QED
    BY <1>0, <2>1, <2>2, <2>3, PickFits DEF SP!Pick, f
<1>6. CASE SP!handleRegenerate
  <2> DEFINE f == [panel.form EXCEPT !.imei = SP!buildImei(SP!pickedTac(panel.form))]
  <2>1. panel # SP!Closed /\ panel.form \in Form /\ SP!pickedTac(panel.form) # None /\ SP!Pick(f) /\ catalog
    BY <1>0, <1>6 DEF SP!handleRegenerate, Panel, SP!Closed, RowIsShown, SP!pickedTac
  <2>2. SP!buildImei(SP!pickedTac(panel.form)) \in SP!Imei
    BY <2>1, PickedTacs DEF SP!buildImei, SP!Imei
  <2>3. f \in Form /\ FormFits(f)
    BY <2>1, <2>2 DEF Form, FormFits, SP!pickedTac, SP!buildImei
  <2> HIDE DEF f
  <2> QED
    BY <2>1, <2>3, PickFits
<1>7. CASE SP!onRequestDelete
  BY <1>0, <1>7 DEF SP!onRequestDelete, Panel, SP!Closed, PanelFits, RowIsShown
<1>8. CASE SP!CloseDelete
  BY <1>0, <1>8 DEF SP!CloseDelete
<1>9. CASE \E s \in Subs : SP!Edit(s)
  <2>1. PICK s \in Subs : SP!Edit(s)
    BY <1>9
  <2> DEFINE row == subscribers[s]
  <2>2. row \in SP!Record
    BY <2>1 DEF SP!Edit, SP!TableShown, SubscribersInv, SubscribersTypes, List
  <2>3. catalog \in BOOLEAN
    BY DEF SubscribersInv, SubscribersTypes
  <2> DEFINE form == SP!fromSubscriber(row, catalog)
  <2>4. /\ form \in Form /\ form.imei = row.imei /\ (~catalog => form.maker = None)
        /\ SP!pickedTac(form) = IF catalog /\ row.tac \in SP!Listed THEN row.tac ELSE None
    BY <2>2, <2>3, FilledFits
  <2>5. SP!Opened("edit", s, row, form)
    BY <2>1 DEF SP!Edit
  <2> HIDE DEF row, form
  <2> QED
    BY <1>0, <2>1, <2>2, <2>4, <2>5, OpenedFits DEF SP!Edit
<1> QED
  BY <1>1, <1>2, <1>3, <1>4, <1>5, <1>6, <1>7, <1>8, <1>9

\* A change of one mutation leaves the others as they are.
LEMMA OneSave ==
  ASSUME SubscribersInv, NEW c \in SP!Saves, NEW save \in Save, saves' = [saves EXCEPT ![c] = save],
         save.phase \in {"asked", "answered"} /\ save.op # "delete" =>
           SP!Fits(save.value) /\ (save.phase = "answered" => SP!Fits(save.ans))
  PROVE  /\ saves' \in [SP!Saves -> Save]
         /\ \A d \in SP!Saves : SP!Out(d)' /\ saves'[d].op # "delete" =>
              SP!Fits(saves'[d].value) /\ (saves'[d].phase = "answered" => SP!Fits(saves'[d].ans))
<1>1. saves \in [SP!Saves -> Save]
  BY DEF SubscribersInv, SubscribersTypes
<1>2. saves' \in [SP!Saves -> Save] /\ \A d \in SP!Saves : saves'[d] = IF d = c THEN save ELSE saves[d]
  BY <1>1
<1> QED
  BY <1>2 DEF SubscribersInv, RecordsFit, SP!Out

\* A mutation is asked with what the form or the dialog names.
LEMMA Asked ==
  ASSUME SubscribersInv, NEW c \in SP!Saves, NEW op, NEW s, NEW value, SP!Ask(c, op, s, value)
  PROVE  saves'[c] = [phase |-> "asked", op |-> op, sub |-> s, value |-> value, ans |-> None]
<1> DEFINE save == [phase |-> "asked", op |-> op, sub |-> s, value |-> value, ans |-> None]
<1>1. saves \in [SP!Saves -> Save] /\ saves' = [saves EXCEPT ![c] = save]
  BY DEF SubscribersInv, SubscribersTypes, SP!Ask
<1> HIDE DEF save
<1>2. saves'[c] = save
  BY <1>1
<1> QED
  BY <1>2 DEF save

\* What is submitted is what the consistent form holds.
LEMMA SubmitInv ==
  ASSUME SP!SubscribersPageBounds, SubscribersInv, NEW c \in SP!Saves, SP!handleSubmit(c)
  PROVE  SubscribersInv'
<1>1. /\ panel \in Panel /\ panel # SP!Closed /\ panel.form \in Form /\ FormFits(panel.form)
      /\ panel.kind \in {"create", "edit"} /\ (panel.kind = "edit" => panel.sub \in Subs)
      /\ SP!isValid(panel.form)
  BY DEF SP!handleSubmit, SubscribersInv, SubscribersTypes, Panel, SP!Closed, PanelFits
<1>2. SP!input(panel.form) \in SP!Record /\ SP!Fits(SP!input(panel.form))
  BY <1>1, InputFits
<1>3. PICK op \in {"create", "update"}, s \in Subs : SP!Ask(c, op, s, SP!input(panel.form))
  BY <1>1 DEF SP!handleSubmit
<1> DEFINE v == SP!input(panel.form)
           save == [phase |-> "asked", op |-> op, sub |-> s, value |-> v, ans |-> None]
<1>4. save \in Save /\ SP!Fits(save.value) /\ save.phase = "asked" /\ saves' = [saves EXCEPT ![c] = save]
  BY <1>2, <1>3 DEF Save, SP!Ask
<1> HIDE DEF save
<1>5. /\ saves' \in [SP!Saves -> Save]
      /\ \A d \in SP!Saves : SP!Out(d)' /\ saves'[d].op # "delete" =>
           SP!Fits(saves'[d].value) /\ (saves'[d].phase = "answered" => SP!Fits(saves'[d].ans))
  BY <1>4, OneSave
<1>6. panel' = [panel EXCEPT !.call = c]
  BY DEF SP!handleSubmit
<1>7. /\ panel' \in Panel /\ panel'.form = panel.form /\ panel'.kind = panel.kind /\ panel'.touched = panel.touched
      /\ panel'.kind = "edit" => panel'.base = panel.base
  BY <1>1, <1>6 DEF Panel
<1>8. UNCHANGED <<SP!server, catalog, SP!list, confirm, typedSims, picks>>
  BY <1>3 DEF SP!handleSubmit, SP!Ask
<1>9. SubscribersTypes' /\ RecordsFit'
  BY <1>5, <1>7, <1>8 DEF SubscribersInv, SubscribersTypes, RecordsFit, SP!Out, SP!server, SP!list
<1> QED
  BY <1>7, <1>8, <1>9 DEF SubscribersInv, PanelFits, RowIsShown

LEMMA ConfirmInv ==
  ASSUME SP!SubscribersPageBounds, SubscribersInv, NEW c \in SP!Saves, SP!handleConfirm(c)
  PROVE  SubscribersInv'
<1> DEFINE save == [phase |-> "asked", op |-> "delete", sub |-> confirm, value |-> None, ans |-> None]
<1>1. save \in Save /\ save.op = "delete" /\ saves' = [saves EXCEPT ![c] = save]
  BY DEF SP!handleConfirm, SP!Ask, Save, SubscribersInv, SubscribersTypes
<1> HIDE DEF save
<1>2. /\ saves' \in [SP!Saves -> Save]
      /\ \A d \in SP!Saves : SP!Out(d)' /\ saves'[d].op # "delete" =>
           SP!Fits(saves'[d].value) /\ (saves'[d].phase = "answered" => SP!Fits(saves'[d].ans))
  BY <1>1, OneSave
<1>3. UNCHANGED <<SP!server, catalog, SP!list, SP!dialogs>>
  BY DEF SP!handleConfirm, SP!Ask
<1>4. SubscribersTypes' /\ RecordsFit'
  BY <1>2, <1>3 DEF SubscribersInv, SubscribersTypes, RecordsFit, SP!Out, SP!server, SP!list,
    SP!dialogs
<1> QED
  BY <1>3, <1>4 DEF SubscribersInv, PanelFits, RowIsShown, SP!dialogs

\* A mutation that is over is out no more.
LEMMA DoneFits ==
  ASSUME SubscribersInv, NEW c \in SP!Saves, SP!Done(c)
  PROVE  /\ saves' \in [SP!Saves -> Save]
         /\ \A d \in SP!Saves : SP!Out(d)' /\ saves'[d].op # "delete" =>
              SP!Fits(saves'[d].value) /\ (saves'[d].phase = "answered" => SP!Fits(saves'[d].ans))
<1> DEFINE save == [phase |-> "done"]
<1>1. save \in Save /\ save.phase = "done" /\ saves' = [saves EXCEPT ![c] = save]
  BY DEF Save, SP!Done
<1> HIDE DEF save
<1> QED
  BY <1>1, OneSave

\* The server stores what was sent, and answers with it.
LEMMA HandledInv ==
  ASSUME SP!SubscribersPageBounds, SubscribersInv, NEW c \in SP!Saves, SP!Handled(c)
  PROVE  SubscribersInv'
<1>1. UNCHANGED <<faults, catalog, SP!list, SP!dialogs>>
  BY DEF SP!Handled
<1>2. CASE SP!Done(c) /\ UNCHANGED stored
  <2>1. SubscribersTypes' /\ RecordsFit'
    BY <1>1, <1>2, DoneFits DEF SubscribersInv, SubscribersTypes, RecordsFit, SP!Out, SP!list,
      SP!dialogs
  <2> QED
    BY <1>1, <2>1 DEF SubscribersInv, PanelFits, RowIsShown, SP!dialogs
<1>3. CASE ~(SP!Done(c) /\ UNCHANGED stored)
  <2> DEFINE v == saves[c].value
             save == [saves[c] EXCEPT !.phase = "answered", !.ans = v]
  <2>1. saves \in [SP!Saves -> Save] /\ saves[c].phase = "asked"
    BY DEF SP!Handled, SubscribersInv, SubscribersTypes
  <2>2. /\ stored' = [stored EXCEPT ![saves[c].sub] = v]
        /\ saves' = [saves EXCEPT ![c] = save]
    BY <1>3, <2>1 DEF SP!Handled, Save
  <2>3. /\ save \in Save /\ save.value = v /\ save.ans = v /\ saves[c].sub \in Subs
        /\ save.op = saves[c].op
        /\ v \in SP!Record \cup {None} /\ (save.op = "delete" => v = None)
    BY <2>1 DEF Save
  <2>5. save.op # "delete" => SP!Fits(v)
    BY <2>1, <2>3 DEF SubscribersInv, RecordsFit, SP!Out
  <2> HIDE DEF save, v
  <2>6. /\ saves' \in [SP!Saves -> Save]
        /\ \A d \in SP!Saves : SP!Out(d)' /\ saves'[d].op # "delete" =>
             SP!Fits(saves'[d].value) /\ (saves'[d].phase = "answered" => SP!Fits(saves'[d].ans))
    BY <2>2, <2>3, <2>5, OneSave
  <2>7. stored' \in [Subs -> SP!Record \cup {None}]
    BY <2>2, <2>3 DEF SubscribersInv, SubscribersTypes
  <2>8. SubscribersTypes' /\ RecordsFit'
    BY <1>1, <2>6, <2>7 DEF SubscribersInv, SubscribersTypes, RecordsFit, SP!Out, SP!list,
      SP!dialogs
  <2> QED
    BY <1>1, <2>8 DEF SubscribersInv, PanelFits, RowIsShown, SP!dialogs
<1> QED
  BY <1>2, <1>3

\* What becomes of an answer.
LEMMA ReturnsInv ==
  ASSUME SP!SubscribersPageBounds, SubscribersInv, NEW c \in SP!Saves,
         SP!SaveLost(c) \/ SP!createReturns(c) \/ SP!updateReturns(c) \/ SP!deleteReturns(c)
  PROVE  SubscribersInv'
<1>1. /\ saves' \in [SP!Saves -> Save]
      /\ \A d \in SP!Saves : SP!Out(d)' /\ saves'[d].op # "delete" =>
           SP!Fits(saves'[d].value) /\ (saves'[d].phase = "answered" => SP!Fits(saves'[d].ans))
  BY DoneFits DEF SP!SaveLost, SP!createReturns, SP!updateReturns, SP!deleteReturns
<1>2. CASE SP!SaveLost(c)
  <2>1. SubscribersTypes' /\ RecordsFit'
    BY <1>1, <1>2 DEF SP!SaveLost, SubscribersInv, SubscribersTypes, RecordsFit, SP!Out, SP!list,
      SP!dialogs, SP!SubscribersPageBounds
  <2> QED
    BY <1>2, <2>1 DEF SP!SaveLost, SubscribersInv, PanelFits, RowIsShown, SP!dialogs
<1>3. CASE SP!createReturns(c)
  <2>1. SubscribersTypes' /\ RecordsFit'
    BY <1>1, <1>3 DEF SP!createReturns, SP!Refetched, SubscribersInv, SubscribersTypes,
      RecordsFit, SP!Out, Panel, SP!server
  <2> QED
    BY <1>3, <2>1 DEF SP!createReturns, SubscribersInv, PanelFits, RowIsShown, SP!Closed
<1>4. CASE SP!updateReturns(c)
  <2>1. subscribers # None => subscribers \in List
    BY DEF SubscribersInv, SubscribersTypes
  <2>2. saves[c] \in Save /\ saves[c].phase = "answered" /\ saves[c].op = "update"
    BY <1>4 DEF SP!updateReturns, SubscribersInv, SubscribersTypes
  <2>3. saves[c].ans \in SP!Record /\ saves[c].sub \in Subs
    BY <2>2 DEF Save
  <2>5. subscribers' \in List \cup {None}
    <3>1. CASE subscribers # None /\ saves[c].sub \in DOMAIN subscribers
      <4>1. PICK S \in SUBSET Subs : subscribers \in [S -> SP!Record]
        BY <2>1, <3>1 DEF List
      <4>2. subscribers' = [subscribers EXCEPT ![saves[c].sub] = saves[c].ans]
        BY <1>4, <3>1 DEF SP!updateReturns
      <4>3. subscribers' \in [S -> SP!Record]
        BY <2>3, <4>1, <4>2
      <4> QED
        BY <4>1, <4>3 DEF List
    <3>2. CASE ~(subscribers # None /\ saves[c].sub \in DOMAIN subscribers)
      BY <1>4, <3>2 DEF SP!updateReturns, SubscribersInv, SubscribersTypes
    <3> QED
      BY <3>1, <3>2
  <2>6. SubscribersTypes' /\ RecordsFit'
    BY <1>1, <1>4, <2>5 DEF SP!updateReturns, SubscribersInv, SubscribersTypes, RecordsFit,
      SP!Out, Panel, SP!server
  <2> QED
    BY <1>4, <2>6 DEF SP!updateReturns, SubscribersInv, PanelFits, RowIsShown, SP!Closed
<1>5. CASE SP!deleteReturns(c)
  <2>1. subscribers' \in List \cup {None}
    <3>1. CASE subscribers # None
      <4>1. PICK S \in SUBSET Subs : subscribers \in [S -> SP!Record]
        BY <3>1 DEF SubscribersInv, SubscribersTypes, List
      <4>2. subscribers' = [s \in S \ {saves[c].sub} |-> subscribers[s]]
        BY <1>5, <3>1, <4>1 DEF SP!deleteReturns
      <4>3. subscribers' \in [S \ {saves[c].sub} -> SP!Record]
        BY <4>1, <4>2
      <4> QED
        BY <4>1, <4>3 DEF List
    <3>2. CASE subscribers = None
      BY <1>5, <3>2 DEF SP!deleteReturns
    <3> QED
      BY <3>1, <3>2
  <2>2. SP!PageRenders /\ catalog' = catalog
    BY <1>5 DEF SP!deleteReturns
  <2>3. SubscribersTypes' /\ RecordsFit'
    BY <1>1, <1>5, <2>1, <2>2, PageRendersFits DEF SP!deleteReturns, SubscribersInv,
      SubscribersTypes, RecordsFit, SP!Out, SP!server
  <2> QED
    BY <2>2, <2>3, PageRendersFits DEF SubscribersInv
<1> QED
  BY <1>2, <1>3, <1>4, <1>5

LEMMA StutterInv == SubscribersInv /\ UNCHANGED SP!vars => SubscribersInv'
BY DEF SubscribersInv, SubscribersTypes, RecordsFit, SP!Out, PanelFits, RowIsShown, SP!vars,
  SP!server, SP!list, SP!dialogs

LEMMA NextSubscribers ==
  ASSUME SP!SubscribersPageBounds, SubscribersInv, [SP!Next]_(SP!vars)
  PROVE  SubscribersInv'
<1>1. CASE SP!Queries
  BY <1>1, QueriesInv
<1>2. CASE SP!User
  <2>1. CASE \E c \in SP!Saves : SP!handleSubmit(c) \/ SP!handleConfirm(c)
    BY <2>1, SubmitInv, ConfirmInv
  <2>2. CASE ~\E c \in SP!Saves : SP!handleSubmit(c) \/ SP!handleConfirm(c)
    <3>1. \/ SP!Add \/ SP!Close \/ SP!TypeSim \/ SP!PickManufacturer \/ SP!PickModel \/ SP!handleRegenerate
          \/ SP!onRequestDelete \/ SP!CloseDelete \/ \E s \in Subs : SP!Edit(s)
      BY <1>2, <2>2 DEF SP!User
    <3>2. SP!UserFrame
      BY <3>1 DEF SP!Add, SP!Close, SP!TypeSim, SP!PickManufacturer, SP!PickModel,
        SP!handleRegenerate, SP!onRequestDelete, SP!CloseDelete, SP!Edit, SP!Pick
    <3> QED
      BY <3>1, <3>2, UserInv
  <2> QED
    BY <2>1, <2>2
<1>3. CASE SP!Mutations
  BY <1>3, HandledInv, ReturnsInv DEF SP!Mutations
<1>4. CASE UNCHANGED SP!vars
  BY <1>4, StutterInv
<1> QED
  BY <1>1, <1>2, <1>3, <1>4 DEF SP!Next

-----------------------------------------------------------------------------------
(* What it gives.                                                                  *)

LEMMA SubscribersInvariance == SP!SubscribersPageBounds => (SP!Spec => []SubscribersInv)
<1> SUFFICES ASSUME SP!SubscribersPageBounds PROVE SP!Spec => []SubscribersInv
  OBVIOUS
<1>1. SP!Init => SubscribersInv
  BY InitSubscribers
<1>2. SubscribersInv /\ [SP!Next]_(SP!vars) => SubscribersInv'
  BY NextSubscribers
<1> QED
  BY <1>1, <1>2, PTL DEF SP!Spec

LEMMA SubscribersTypesHold == SubscribersInv => SP!TypeOK
BY DEF SubscribersInv, SubscribersTypes, SP!TypeOK, List, Save, Panel, Form, SP!Closed

\* The list, the form and the mutations keep their types: no answer and no rollback leaves
\* half a record in the cache or in the drawer (subscribers.ts, SubscriberForm.tsx).
THEOREM SubscriberTypes == SP!SubscribersPageBounds => (SP!Spec => []SP!TypeOK)
<1> SUFFICES ASSUME SP!SubscribersPageBounds PROVE SP!Spec => []SP!TypeOK
  OBVIOUS
<1> QED
  BY SubscribersTypesHold, SubscribersInvariance, PTL

\* The server's handler is the only step that changes a stored record.
LEMMA DevicesFit ==
  ASSUME SP!SubscribersPageBounds, SubscribersInv, [SP!Next]_(SP!vars)
  PROVE  SP!ImeiFitsDeviceStep
<1> SUFFICES ASSUME NEW s \in Subs, stored'[s] # stored[s], stored'[s] # None PROVE SP!Fits(stored'[s])
  BY DEF SP!ImeiFitsDeviceStep
<1>1. PICK c \in SP!Saves : SP!Handled(c)
  <2>1. CASE SP!Queries
    BY <2>1 DEF SP!Queries, SP!listSubscribers, SP!ListReturns, SP!ListFails, SP!Retry,
      SP!Invalidated, SP!CatalogArrives, SP!server
  <2>2. CASE SP!User
    BY <2>2 DEF SP!User, SP!Add, SP!Close, SP!TypeSim, SP!PickManufacturer, SP!PickModel,
      SP!handleRegenerate, SP!onRequestDelete, SP!CloseDelete, SP!Edit, SP!Pick, SP!UserFrame,
      SP!handleSubmit, SP!handleConfirm, SP!Ask, SP!server
  <2>3. CASE SP!Mutations
    BY <2>3 DEF SP!Mutations, SP!SaveLost, SP!createReturns, SP!updateReturns, SP!deleteReturns, SP!server
  <2>4. CASE UNCHANGED SP!vars
    BY <2>4 DEF SP!vars, SP!server
  <2> QED
    BY <2>1, <2>2, <2>3, <2>4 DEF SP!Next
<1>2. saves[c].phase = "asked" /\ saves[c] \in Save /\ stored \in [Subs -> SP!Record \cup {None}]
  BY <1>1 DEF SP!Handled, SubscribersInv, SubscribersTypes
<1>3. s = saves[c].sub /\ stored'[s] = saves[c].value
  BY <1>1, <1>2 DEF SP!Handled, Save
<1>4. saves[c].op # "delete"
  BY <1>2, <1>3 DEF Save
<1> QED
  BY <1>2, <1>3, <1>4 DEF SubscribersInv, RecordsFit, SP!Out

\* Whatever other clients have stored, an IMEI the page stores is valid and one of the stored
\* device, however many devices are picked, cleared and regenerated (the derivation of the
\* IMEI, SubscriberForm.tsx; the update, subscribers.go).
THEOREM DevicesStayWhole == SP!SubscribersPageBounds => (SP!Spec => SP!ImeiFitsDevice)
<1> SUFFICES ASSUME SP!SubscribersPageBounds PROVE SP!Spec => SP!ImeiFitsDevice
  OBVIOUS
<1>1. SubscribersInv /\ [SP!Next]_(SP!vars) => SP!ImeiFitsDeviceStep
  BY DevicesFit
<1> QED
  BY <1>1, SubscribersInvariance, PTL DEF SP!Spec, SP!ImeiFitsDevice

\* The only step that asks for an update is the submission of the form, and an untouched form
\* shows the row it was opened on.
LEMMA UntouchedStep ==
  ASSUME SP!SubscribersPageBounds, SubscribersInv, [SP!Next]_(SP!vars)
  PROVE  SP!UntouchedDeviceIsSentStep
<1> SUFFICES ASSUME NEW c \in SP!Saves, saves[c].phase = "unused", saves'[c].phase = "asked",
                    saves'[c].op = "update", catalog, ~panel.touched, panel.base.tac \in SP!Listed
             PROVE  /\ saves'[c].value.tac = panel.base.tac
                    /\ panel.base.imei # None /\ SP!Fits(panel.base) => saves'[c].value.imei = panel.base.imei
  BY DEF SP!UntouchedDeviceIsSentStep
<1>1. saves \in [SP!Saves -> Save]
  BY DEF SubscribersInv, SubscribersTypes
<1>2. SP!handleSubmit(c)
  <2>1. CASE SP!Queries
    BY <2>1 DEF SP!Queries, SP!listSubscribers, SP!ListReturns, SP!ListFails, SP!Retry,
      SP!Invalidated, SP!CatalogArrives
  <2>2. CASE SP!User
    <3>1. CASE SP!UserFrame
      BY <3>1 DEF SP!UserFrame
    <3>2. PICK d \in SP!Saves : SP!handleSubmit(d) \/ SP!handleConfirm(d)
      BY <2>2, <3>1 DEF SP!User, SP!Add, SP!Close, SP!TypeSim, SP!PickManufacturer, SP!PickModel,
        SP!handleRegenerate,
        SP!onRequestDelete, SP!CloseDelete, SP!Edit, SP!Pick
    <3>3. d = c
      BY <1>1, <3>2 DEF SP!handleSubmit, SP!handleConfirm, SP!Ask
    <3>4. ~SP!handleConfirm(c)
      <4>1. SUFFICES ASSUME SP!handleConfirm(c) PROVE FALSE
        OBVIOUS
      <4>2. saves'[c] = [phase |-> "asked", op |-> "delete", sub |-> confirm, value |-> None, ans |-> None]
        BY <4>1, Asked DEF SP!handleConfirm
      <4> QED
        BY <4>2
    <3> QED
      BY <3>2, <3>3, <3>4
  <2>3. CASE SP!Mutations
    BY <1>1, <2>3 DEF SP!Mutations, SP!Handled, SP!SaveLost, SP!createReturns, SP!updateReturns,
      SP!deleteReturns, SP!Done
  <2>4. CASE UNCHANGED SP!vars
    BY <2>4 DEF SP!vars
  <2> QED
    BY <2>1, <2>2, <2>3, <2>4 DEF SP!Next
<1>3. panel.kind = "edit" /\ saves'[c].value = SP!input(panel.form)
  <2>1. ASSUME panel.kind = "create" PROVE FALSE
    <3>1. PICK s \in Subs : SP!Ask(c, "create", s, SP!input(panel.form))
      BY <1>2, <2>1 DEF SP!handleSubmit
    <3>2. saves'[c] = [phase |-> "asked", op |-> "create", sub |-> s, value |-> SP!input(panel.form), ans |-> None]
      BY <3>1, Asked
    <3> QED
      BY <3>2
  <2>2. SP!Ask(c, "update", panel.sub, SP!input(panel.form)) /\ panel # SP!Closed
    BY <1>2, <2>1 DEF SP!handleSubmit
  <2>3. panel.kind = "edit"
    BY <2>1, <2>2 DEF SubscribersInv, SubscribersTypes, Panel
  <2>4. saves'[c].value = SP!input(panel.form)
    <3> DEFINE v == SP!input(panel.form)
    <3>1. saves'[c] = [phase |-> "asked", op |-> "update", sub |-> panel.sub, value |-> v, ans |-> None]
      BY <2>2, Asked
    <3> HIDE DEF v
    <3> QED
      BY <3>1 DEF v
  <2> QED
    BY <2>3, <2>4
<1>4. Shows(panel.form, panel.base)
  BY <1>3 DEF SubscribersInv, RowIsShown
<1> QED
  BY <1>3, <1>4 DEF Shows, SP!input, SP!SubscribersPageBounds, SP!Listed

\* An update that no pick preceded sends the device that was stored if its IMEI fits it,
\* whenever the catalogue and the list arrived (the reset of the form, SubscriberForm.tsx).
THEOREM UntouchedDevicesAreKept == SP!SubscribersPageBounds => (SP!Spec => SP!UntouchedDeviceIsSent)
<1> SUFFICES ASSUME SP!SubscribersPageBounds PROVE SP!Spec => SP!UntouchedDeviceIsSent
  OBVIOUS
<1>1. SubscribersInv /\ [SP!Next]_(SP!vars) => SP!UntouchedDeviceIsSentStep
  BY UntouchedStep
<1> QED
  BY <1>1, SubscribersInvariance, PTL DEF SP!Spec, SP!UntouchedDeviceIsSent

-----------------------------------------------------------------------------------
(* The pages proved about are the pages of the console.                            *)

\* The two instances of the subscribers page, expanded, are the same formulas.
LEMMA SameSubscribersPage ==
  /\ subscribersPage!Init <=> SP!Init
  /\ [subscribersPage!Next]_(subscribersPage!vars) <=> [SP!Next]_(SP!vars)
  /\ subscribersPage!SubscribersPageBounds <=> SP!SubscribersPageBounds
  /\ subscribersPage!UntouchedDeviceIsSentStep <=> SP!UntouchedDeviceIsSentStep
  /\ subscribersPage!ImeiFitsDeviceStep <=> SP!ImeiFitsDeviceStep
BY DEF
  subscribersPage!SubscribersPageBounds, subscribersPage!server, subscribersPage!list,
  subscribersPage!dialogs, subscribersPage!vars, subscribersPage!Listed, subscribersPage!Tacs,
  subscribersPage!Saves, subscribersPage!Closed, subscribersPage!Idle, subscribersPage!Out,
  subscribersPage!Empty, subscribersPage!fromSubscriber, subscribersPage!pickedTac,
  subscribersPage!buildImei, subscribersPage!rederive, subscribersPage!Rendered,
  subscribersPage!initial, subscribersPage!reset, subscribersPage!PageRenders,
  subscribersPage!isValid, subscribersPage!Refetched, subscribersPage!listSubscribers,
  subscribersPage!ListReturns, subscribersPage!ListFails, subscribersPage!Retry,
  subscribersPage!Invalidated, subscribersPage!CatalogArrives, subscribersPage!TableShown,
  subscribersPage!Uncovered, subscribersPage!UserFrame, subscribersPage!Opened,
  subscribersPage!Add, subscribersPage!Edit, subscribersPage!Close, subscribersPage!TypeSim,
  subscribersPage!Pick, subscribersPage!PickManufacturer, subscribersPage!PickModel,
  subscribersPage!handleRegenerate, subscribersPage!submitting, subscribersPage!Ask,
  subscribersPage!input, subscribersPage!handleSubmit, subscribersPage!onRequestDelete,
  subscribersPage!handleConfirm, subscribersPage!CloseDelete, subscribersPage!Done,
  subscribersPage!Handled, subscribersPage!SaveLost, subscribersPage!createReturns,
  subscribersPage!updateReturns, subscribersPage!deleteReturns, subscribersPage!Init,
  subscribersPage!Queries, subscribersPage!User, subscribersPage!Mutations, subscribersPage!Next,
  subscribersPage!UntouchedDeviceIsSentStep, subscribersPage!ImeiFitsDeviceStep,
  subscribersPage!Fits, SP!Fits,
  SP!SubscribersPageBounds, SP!server, SP!list, SP!dialogs, SP!vars, SP!Listed, SP!Tacs, SP!Saves,
  SP!Closed, SP!Idle, SP!Out, SP!Empty, SP!fromSubscriber, SP!pickedTac, SP!buildImei,
  SP!rederive, SP!Rendered, SP!initial, SP!reset, SP!PageRenders, SP!isValid, SP!Refetched,
  SP!listSubscribers, SP!ListReturns, SP!ListFails, SP!Retry, SP!Invalidated, SP!CatalogArrives,
  SP!TableShown, SP!Uncovered, SP!UserFrame, SP!Opened, SP!Add, SP!Edit, SP!Close, SP!TypeSim,
  SP!Pick, SP!PickManufacturer, SP!PickModel, SP!handleRegenerate, SP!submitting, SP!Ask,
  SP!input, SP!handleSubmit, SP!onRequestDelete, SP!handleConfirm, SP!CloseDelete, SP!Done,
  SP!Handled, SP!SaveLost, SP!createReturns, SP!updateReturns, SP!deleteReturns, SP!Init,
  SP!Queries, SP!User, SP!Mutations, SP!Next, SP!UntouchedDeviceIsSentStep, SP!ImeiFitsDeviceStep

LEMMA SameSubscribersTypes == subscribersPage!TypeOK <=> SP!TypeOK
BY DEF
  subscribersPage!TypeOK, subscribersPage!Record, subscribersPage!Imei, subscribersPage!Sims,
  subscribersPage!Tacs, subscribersPage!Listed, subscribersPage!Saves, subscribersPage!Closed,
  SP!TypeOK, SP!Record, SP!Imei, SP!Sims, SP!Tacs, SP!Listed, SP!Saves, SP!Closed

-----------------------------------------------------------------------------------
(* The settings page: its invariant.                                               *)

\* The types in full.
Dictionaries == [Dicts -> Nat \cup {None}]
Permissions == [Tools -> settingsPage!Decisions]
Query(Ans) == [phase : {"none", "asked"}] \cup [phase : {"answered"}, ans : Ans]
Modal ==
  {settingsPage!Closed} \cup [kind : {"create"}, id : {None}, version : Nat]
  \cup [kind : {"edit"}, id : Dicts, version : Nat]

SettingsTyped ==
  /\ section \in settingsPage!Resources \cup {"general"} /\ visits \in 0..MaxVisits
  /\ settings \in 1..(MaxTouches + 1)
  /\ general \in [values : 0..(MaxTouches + 1), clean : 1..(MaxTouches + 1)]
  /\ own \in [dict : Dictionaries, perm : Permissions, ai : settingsPage!Assistant \cup {None}]
  /\ shown \in [dict : Dictionaries \cup {None}, perm : Permissions \cup
        {None}, ai : settingsPage!Config \cup {None}]
  /\ asks \in [dict : Query(Dictionaries), perm : Query(Permissions), ai : Query(settingsPage!Config)]
  /\ modal \in Modal /\ card \in settingsPage!Card \cup {None}
  /\ lost \in 0..MaxLost /\ touches \in 0..MaxTouches
  /\ stale \in SUBSET settingsPage!Resources /\ invalid \in SUBSET settingsPage!Resources
  /\ overdue \in SUBSET settingsPage!Resources

\* What is sent, and what is kept of a mutation.
AIInput == [endpoint : Endpoints \cup {None}, model : Models \cup
  {None}, thinking : BOOLEAN, key : settingsPage!Keys]

Task == LET Kinds == {"closed", "create", "edit"} IN
  [phase : {"unused", "done"}]
  \cup [phase : {"asked", "keyed", "answered"}, res : {"ai"}, id : {None}, value : AIInput, live : BOOLEAN,
        dialog : Kinds, touched : SUBSET settingsPage!Fields, base : settingsPage!Config \cup {None},
        raced : BOOLEAN]
  \cup [phase : {"asked", "answered"}, res : {"perm"}, id : Tools, value : settingsPage!Decisions, live : BOOLEAN,
        dialog : Kinds, touched : {{}}, base : {None}, raced : BOOLEAN]
  \cup [phase : {"asked", "answered", "reloading"}, res : {"dict"}, id : Dicts, value : Nat \cup {None},
        live : BOOLEAN, dialog : Kinds, touched : {{}}, base : {None}, raced : BOOLEAN]

TasksTyped ==
  /\ tasks \in [settingsPage!Tasks -> Task]
  /\ \A t \in settingsPage!Tasks : tasks[t].phase \in {"unused", "asked", "keyed", "answered", "reloading", "done"}

\* A field not touched is that of the configuration `base`.
FieldsAgree(v, touched, base) ==
  base # None => /\ "endpoint" \in touched \/ v.endpoint = base.endpoint
                 /\ "model" \in touched \/ v.model = base.model
                 /\ "thinking" \in touched \/ v.thinking = base.thinking

\* A key not touched is not sent.
Agrees(v, key, touched, base) ==
  FieldsAgree(v, touched, base) /\ ("apiKey" \in touched \/ key = "none")

\* Once the handler has read the stored key, that of a key not touched is the stored one, until
\* another save comes between.
SaveAgrees(task) ==
  /\ FieldsAgree(task.value, task.touched, task.base)
  /\ task.phase = "asked" => ("apiKey" \in task.touched \/ task.value.key = "none")
  /\ task.phase = "keyed" => /\ own.ai # None /\ task.value.key # "none"
                             /\ ("apiKey" \in task.touched \/ task.raced \/ task.value.key = own.ai.key)

CardAgrees == card # None => Agrees(card, card.apiKey, card.touched, card.base)

IsSave(t) == settingsPage!Out(t) /\ tasks[t].res = "ai"

SavesAgree ==
  \A t \in settingsPage!Tasks : IsSave(t) =>
    SaveAgrees(tasks[t])

SavesHaveCard == \A t \in settingsPage!Tasks : IsSave(t) /\ tasks[t].live =>
  card \in settingsPage!Card

TasksOK == TasksTyped /\ SavesAgree /\ SavesHaveCard

SettingsInv == SettingsTyped /\ TasksOK /\ CardAgrees

USE DEF settingsPage!Resources, settingsPage!Fields, settingsPage!Keys

\* A bound in its guard keeps the count of losses in its range.
LEMMA LostBound ==
  ASSUME settingsPage!SettingsPageBounds, SettingsInv, lost < MaxLost, lost' = lost + 1
  PROVE  lost' \in 0..MaxLost
<1>1. MaxLost \in Nat /\ lost \in 0..MaxLost
  BY DEF settingsPage!SettingsPageBounds, SettingsInv, SettingsTyped
<1> QED
  BY <1>1

-----------------------------------------------------------------------------------
(* The settings page: the card and the list of mutations.                          *)

\* A card that is filled agrees with what it is filled with.
LEMMA FilledAgrees ==
  ASSUME NEW c \in settingsPage!Card, NEW cfg \in settingsPage!Config, Agrees(c, c.apiKey,
         c.touched, c.base)
  PROVE  LET f == settingsPage!Filled(c, cfg) IN f \in settingsPage!Card /\
           Agrees(f, f.apiKey, f.touched, f.base)
<1> DEFINE f == settingsPage!Filled(c, cfg)
<1>1. /\ f \in settingsPage!Card /\ f.endpoint = cfg.endpoint /\ f.model = cfg.model /\
            f.thinking = cfg.thinking
      /\ f.apiKey = c.apiKey /\ f.touched = c.touched \cap {"apiKey"} /\ f.base = cfg
  BY DEF settingsPage!Filled, settingsPage!Card, settingsPage!Config
<1> HIDE DEF f
<1>2. Agrees(f, f.apiKey, f.touched, f.base)
  BY <1>1 DEF Agrees, FieldsAgree
<1> QED
  BY <1>1, <1>2 DEF f

\* So does a card the effect has seen.
LEMMA SeedAgrees ==
  ASSUME NEW c \in settingsPage!Card \cup {None}, NEW cfg \in settingsPage!Config \cup {None},
         c # None => Agrees(c, c.apiKey, c.touched, c.base)
  PROVE  LET f == settingsPage!seed(c, cfg) IN
           /\ f \in settingsPage!Card \cup {None} /\ (f # None =>
                 Agrees(f, f.apiKey, f.touched, f.base))
           /\ c \in settingsPage!Card => f \in settingsPage!Card
<1>1. CASE c = None \/ cfg = None
  BY <1>1 DEF settingsPage!seed
<1>2. CASE ~(c = None \/ cfg = None)
  BY <1>2, FilledAgrees DEF settingsPage!seed
<1> QED
  BY <1>1, <1>2

\* A card with nothing filled in.
LEMMA FreshAgrees == settingsPage!Fresh \in settingsPage!Card /\
  Agrees(settingsPage!Fresh, settingsPage!Fresh.apiKey, settingsPage!Fresh.touched, settingsPage!Fresh.base)
BY DEF settingsPage!Fresh, settingsPage!Card, Agrees, FieldsAgree

\* A step that leaves the mutations as they are keeps what is said of them, if the card stays.
LEMMA TasksStay ==
  ASSUME SettingsInv, tasks' = tasks, own' = own,
         card \in settingsPage!Card => card' \in settingsPage!Card
  PROVE  TasksOK'
BY DEF SettingsInv, TasksOK, TasksTyped, SavesAgree, SaveAgrees, SavesHaveCard, IsSave, settingsPage!Out

\* A step that changes one mutation.
LEMMA OneTask ==
  ASSUME SettingsInv, NEW t \in settingsPage!Tasks, NEW task \in Task,
         tasks' = [tasks EXCEPT ![t] = task],
         card \in settingsPage!Card => card' \in settingsPage!Card, own'.ai = own.ai,
         task.phase \in {"asked", "keyed", "answered", "reloading"} /\ task.res = "ai" =>
           SaveAgrees(task) /\ (task.live => card' \in settingsPage!Card)
  PROVE  TasksOK'
<1>1. tasks \in [settingsPage!Tasks -> Task]
  BY DEF SettingsInv, TasksOK, TasksTyped
<1>2. tasks' \in [settingsPage!Tasks -> Task] /\ \A u \in settingsPage!Tasks : tasks'[u] =
        IF u = t THEN task ELSE tasks[u]
  BY <1>1
<1>3. TasksTyped'
  BY <1>2 DEF SettingsInv, TasksOK, TasksTyped, Task
<1>4. SavesAgree'
  <2>1. SaveAgrees(task)' <=> SaveAgrees(task)
    BY DEF SaveAgrees
  <2>2. ASSUME NEW u \in settingsPage!Tasks, IsSave(u)' PROVE SaveAgrees(tasks[u])'
    <3>1. CASE u = t
      BY <1>2, <2>1, <2>2, <3>1 DEF SaveAgrees, IsSave, settingsPage!Out
    <3>2. CASE u # t
      BY <1>2, <2>2, <3>2 DEF SettingsInv, TasksOK, SavesAgree, SaveAgrees, IsSave, settingsPage!Out
    <3> QED
      BY <3>1, <3>2
  <2> QED
    BY <2>2 DEF SavesAgree
<1>5. SavesHaveCard'
  BY <1>2 DEF SettingsInv, TasksOK, SavesHaveCard, IsSave, settingsPage!Out
<1> QED
  BY <1>3, <1>4, <1>5 DEF TasksOK

-----------------------------------------------------------------------------------
(* The settings page: the steps.                                                   *)

LEMMA InitSettings == settingsPage!SettingsPageBounds /\ settingsPage!Init => SettingsInv
<1> SUFFICES ASSUME settingsPage!SettingsPageBounds, settingsPage!Init PROVE SettingsInv
  OBVIOUS
<1>1. own \in [dict : Dictionaries, perm : Permissions, ai : settingsPage!Assistant \cup {None}]
  <2> DEFINE first == [d \in Dicts |-> IF d \in StoredDicts THEN MaxTouches + 1 ELSE None]
             first_own == [endpoint : Endpoints, model : Models, thinking : {FALSE}, key : {"old"}]
  <2>1. first \in Dictionaries
    BY DEF Dictionaries, settingsPage!SettingsPageBounds
  <2>2. [t \in Tools |-> "ask"] \in Permissions
    BY DEF Permissions, settingsPage!Decisions
  <2>3. first_own \subseteq settingsPage!Assistant
    BY DEF settingsPage!Assistant
  <2>4. own \in [dict : {first}, perm : {[t \in Tools |-> "ask"]}, ai : first_own \cup {None}]
    BY DEF settingsPage!Init
  <2> HIDE DEF first, first_own
  <2> QED
    BY <2>1, <2>2, <2>3, <2>4
<1>2. shown \in [dict : Dictionaries \cup {None}, perm : Permissions \cup
        {None}, ai : settingsPage!Config \cup {None}]
  BY DEF settingsPage!Init
<1>3. asks \in [dict : Query(Dictionaries), perm : Query(Permissions), ai : Query(settingsPage!Config)]
  BY DEF settingsPage!Init, Query
<1>4. tasks \in [settingsPage!Tasks -> Task] /\
        \A t \in settingsPage!Tasks : ~settingsPage!Out(t) /\ tasks[t].phase = "unused"
  BY DEF settingsPage!Init, Task, settingsPage!Out
<1>5. /\ general \in [values : 0..(MaxTouches + 1), clean : 1..(MaxTouches + 1)]
      /\ settings \in 1..(MaxTouches + 1) /\ visits \in 0..MaxVisits
      /\ lost \in 0..MaxLost /\ touches \in 0..MaxTouches
  BY DEF settingsPage!Init, settingsPage!SettingsPageBounds
<1>6. SettingsTyped
  BY <1>1, <1>2, <1>3, <1>4, <1>5 DEF settingsPage!Init, SettingsTyped, Modal
<1> QED
  BY <1>4, <1>6 DEF SettingsInv, settingsPage!Init, CardAgrees, TasksOK, TasksTyped, SavesAgree,
    SavesHaveCard, IsSave

\* The edits of the card, but for its saves.
LEMMA CardInv ==
  ASSUME settingsPage!SettingsPageBounds, SettingsInv, settingsPage!CardShown,
         settingsPage!CardFrame, touches' \in 0..MaxTouches,
         card' \in settingsPage!Card, Agrees(card', card'.apiKey, card'.touched, card'.base)
  PROVE  SettingsInv'
<1>1. TasksOK'
  BY TasksStay DEF settingsPage!CardFrame, settingsPage!server
<1>2. SettingsTyped'
  BY <1>1 DEF SettingsInv, SettingsTyped, TasksOK, TasksTyped, settingsPage!CardFrame,
    settingsPage!nav, settingsPage!server, settingsPage!queries
<1> QED
  BY <1>1, <1>2 DEF SettingsInv, CardAgrees

LEMMA CardEditsInv ==
  ASSUME settingsPage!SettingsPageBounds, SettingsInv,
         settingsPage!handleProviderChange \/ settingsPage!setApiKey \/
           settingsPage!useAIModels \/ settingsPage!setModel \/ settingsPage!setThinking \/
             settingsPage!handleReset
  PROVE  SettingsInv'
<1>1. card \in settingsPage!Card /\ Agrees(card, card.apiKey, card.touched, card.base) /\
        settingsPage!CardShown
  BY DEF SettingsInv, SettingsTyped, CardAgrees, settingsPage!CardShown,
    settingsPage!handleProviderChange, settingsPage!setApiKey, settingsPage!useAIModels,
    settingsPage!setModel, settingsPage!setThinking, settingsPage!handleReset
<1>2. settingsPage!Touched => touches' \in 0..MaxTouches
  BY DEF settingsPage!Touched, SettingsInv, SettingsTyped, settingsPage!SettingsPageBounds
<1>3. CASE settingsPage!handleProviderChange
  <2>1. PICK e \in Endpoints \cup {None} :
          card' = [card EXCEPT !.endpoint = e, !.model = None, !.touched = @ \cup
            {"endpoint", "model"}]
    BY <1>3 DEF settingsPage!handleProviderChange
  <2>2. card' \in settingsPage!Card /\ Agrees(card', card'.apiKey, card'.touched, card'.base)
    BY <1>1, <2>1 DEF settingsPage!Card, Agrees, FieldsAgree
  <2> QED
    BY <1>1, <1>2, <1>3, <2>2, CardInv DEF settingsPage!handleProviderChange
<1>4. CASE settingsPage!setApiKey
  <2>1. PICK key \in {"none", "new"} : card' = [card EXCEPT !.apiKey = key, !.touched =
          @ \cup {"apiKey"}]
    BY <1>4 DEF settingsPage!setApiKey
  <2>2. card' \in settingsPage!Card /\ Agrees(card', card'.apiKey, card'.touched, card'.base)
    BY <1>1, <2>1 DEF settingsPage!Card, Agrees, FieldsAgree
  <2> QED
    BY <1>1, <1>2, <1>4, <2>2, CardInv DEF settingsPage!setApiKey
<1>5. CASE settingsPage!useAIModels
  <2>1. TasksOK'
    BY <1>5, TasksStay DEF settingsPage!useAIModels, settingsPage!forms, settingsPage!server
  <2>2. SettingsTyped'
    BY <1>5 DEF settingsPage!useAIModels, SettingsInv, SettingsTyped, settingsPage!nav,
      settingsPage!server, settingsPage!queries, settingsPage!forms
  <2> QED
    BY <1>5, <2>1, <2>2 DEF settingsPage!useAIModels, settingsPage!forms, SettingsInv, CardAgrees
<1>6. CASE settingsPage!setModel
  <2>1. PICK m \in Models : card' = [card EXCEPT !.model = m, !.touched = @ \cup {"model"}]
    BY <1>6 DEF settingsPage!setModel
  <2>2. card' \in settingsPage!Card /\ Agrees(card', card'.apiKey, card'.touched, card'.base)
    BY <1>1, <2>1 DEF settingsPage!Card, Agrees, FieldsAgree
  <2> QED
    BY <1>1, <1>2, <1>6, <2>2, CardInv DEF settingsPage!setModel
<1>7. CASE settingsPage!setThinking
  <2>1. card' = [card EXCEPT !.thinking = ~@, !.touched = @ \cup {"thinking"}]
    BY <1>7 DEF settingsPage!setThinking
  <2>2. card' \in settingsPage!Card /\ Agrees(card', card'.apiKey, card'.touched, card'.base)
    BY <1>1, <2>1 DEF settingsPage!Card, Agrees, FieldsAgree
  <2> QED
    BY <1>1, <1>2, <1>7, <2>2, CardInv DEF settingsPage!setThinking
<1>8. CASE settingsPage!handleReset
  <2> DEFINE f == settingsPage!Filled(card, shown.ai)
  <2>1. shown.ai \in settingsPage!Config
    BY <1>8 DEF settingsPage!handleReset, SettingsInv, SettingsTyped
  <2>2. f \in settingsPage!Card /\ Agrees(f, f.apiKey, f.touched, f.base) /\
          f.touched \subseteq {"apiKey"}
    BY <1>1, <2>1, FilledAgrees DEF settingsPage!Filled, settingsPage!Card
  <2>3. card' = [f EXCEPT !.apiKey = "none", !.touched = {}]
    BY <1>8 DEF settingsPage!handleReset
  <2> HIDE DEF f
  <2>4. card' \in settingsPage!Card /\ Agrees(card', card'.apiKey, card'.touched, card'.base)
    BY <2>2, <2>3 DEF settingsPage!Card, Agrees, FieldsAgree
  <2>5. touches' \in 0..MaxTouches
    BY <1>8 DEF settingsPage!handleReset, SettingsInv, SettingsTyped
  <2> QED
    BY <1>1, <1>8, <2>4, <2>5, CardInv DEF settingsPage!handleReset
<1> QED
  BY <1>3, <1>4, <1>5, <1>6, <1>7, <1>8

\* A mutation is asked with the fields the user had touched.
LEMMA AskInv ==
  ASSUME settingsPage!SettingsPageBounds, SettingsInv, NEW t \in settingsPage!Tasks, NEW r,
         NEW id, NEW value, NEW more,
         settingsPage!Ask(t, r, id, value, more), settings' \in 1..(MaxTouches + 1),
         general' \in [values : 0..(MaxTouches + 1), clean : 1..(MaxTouches + 1)],
         UNCHANGED <<modal, card, touches>>,
         \/ /\ r = "ai" /\ id = None /\ value \in AIInput /\ card \in settingsPage!Card
            /\ more.touched \in SUBSET settingsPage!Fields /\
                  more.base \in settingsPage!Config \cup {None}
            /\ Agrees(value, value.key, more.touched, more.base)
         \/ r = "perm" /\ id \in Tools /\ value \in settingsPage!Decisions /\
               more = settingsPage!Plain
         \/ r = "dict" /\ id \in Dicts /\ value \in Nat \cup {None} /\ more = settingsPage!Plain
  PROVE  SettingsInv'
<1> DEFINE task == [phase |-> "asked", res |-> r, id |-> id, value |-> value, live |-> TRUE,
                    dialog |-> modal.kind, touched |-> more.touched, base |-> more.base, raced |-> FALSE]
<1>1. modal.kind \in {"closed", "create", "edit"}
  BY DEF SettingsInv, SettingsTyped, Modal, settingsPage!Closed
<1>2. task \in Task
  BY <1>1 DEF Task, settingsPage!Plain
<1>3. tasks' = [tasks EXCEPT ![t] = task]
  BY DEF settingsPage!Ask
<1>4. /\ task.res = r /\ task.value = value /\ task.touched = more.touched /\ task.base = more.base
      /\ task.phase = "asked"
  OBVIOUS
<1> HIDE DEF task
<1>5. r = "ai" => SaveAgrees(task) /\ card' \in settingsPage!Card
  BY <1>4 DEF settingsPage!Plain, SaveAgrees, Agrees
<1>6. TasksOK'
  BY <1>2, <1>3, <1>4, <1>5, OneTask DEF settingsPage!Ask, settingsPage!server
<1>7. SettingsTyped'
  BY <1>6 DEF settingsPage!Ask, SettingsInv, SettingsTyped, TasksOK, TasksTyped, settingsPage!nav,
    settingsPage!server, settingsPage!queries
<1> QED
  BY <1>6, <1>7 DEF SettingsInv, CardAgrees

LEMMA SaveInv ==
  ASSUME settingsPage!SettingsPageBounds, SettingsInv, NEW t \in settingsPage!Tasks,
         settingsPage!handleSave(t)
  PROVE  SettingsInv'
<1> DEFINE v == [endpoint |-> card.endpoint, model |-> card.model, thinking |-> card.thinking, key |-> card.apiKey]
<1>1. card \in settingsPage!Card /\ Agrees(card, card.apiKey, card.touched, card.base)
  BY DEF settingsPage!handleSave, settingsPage!CardShown, SettingsInv, SettingsTyped, CardAgrees
<1>2. v \in AIInput /\ Agrees(v, v.key, card.touched, card.base)
  BY <1>1 DEF settingsPage!Card, AIInput, Agrees, FieldsAgree
<1>3. settingsPage!Ask(t, "ai", None, v, card) /\ UNCHANGED settingsPage!forms
  BY DEF settingsPage!handleSave
<1> HIDE DEF v
<1>4. card.touched \in SUBSET settingsPage!Fields /\ card.base \in settingsPage!Config \cup {None}
  BY <1>1 DEF settingsPage!Card
<1> QED
  BY <1>1, <1>2, <1>3, <1>4, AskInv DEF settingsPage!forms, SettingsInv, SettingsTyped

\* The local settings' form keeps its range, whatever submits it.
LEMMA StoredTyped ==
  ASSUME SettingsTyped, settingsPage!Stored
  PROVE  /\ settings' \in 1..(MaxTouches + 1)
         /\ general' \in [values : 0..(MaxTouches + 1), clean : 1..(MaxTouches + 1)]
<1>1. CASE settingsPage!isValid
  <2>1. general.values \in 1..(MaxTouches + 1)
    BY <1>1 DEF settingsPage!isValid, SettingsTyped
  <2> QED
    BY <1>1, <2>1 DEF settingsPage!Stored, SettingsTyped
<1>2. CASE ~settingsPage!isValid
  BY <1>2 DEF settingsPage!Stored, SettingsTyped
<1> QED
  BY <1>1, <1>2

LEMMA DialogsInv ==
  ASSUME settingsPage!SettingsPageBounds, SettingsInv, settingsPage!Dialogs
  PROVE  SettingsInv'
<1>1. CASE settingsPage!openCreate
  <2>1. modal' \in Modal
    BY <1>1 DEF settingsPage!openCreate, Modal
  <2>2. TasksOK'
    BY <1>1, TasksStay DEF settingsPage!openCreate, settingsPage!server
  <2> QED
    BY <1>1, <2>1, <2>2 DEF settingsPage!openCreate, SettingsInv, SettingsTyped, CardAgrees,
      settingsPage!nav, settingsPage!server, settingsPage!queries
<1>2. CASE settingsPage!EditDictionary
  <2>1. touches' \in 0..MaxTouches
    BY <1>2 DEF settingsPage!EditDictionary, settingsPage!Touched, SettingsInv, SettingsTyped,
      settingsPage!SettingsPageBounds
  <2>2. modal' \in Modal
    BY <1>2, <2>1 DEF settingsPage!EditDictionary, SettingsInv, SettingsTyped, Modal
  <2>3. TasksOK'
    BY <1>2, TasksStay DEF settingsPage!EditDictionary, settingsPage!server
  <2> QED
    BY <1>2, <2>1, <2>2, <2>3 DEF settingsPage!EditDictionary, SettingsInv, SettingsTyped,
      CardAgrees, settingsPage!nav, settingsPage!server, settingsPage!queries
<1>3. CASE settingsPage!CloseDialog
  <2>1. modal' \in Modal
    BY <1>3 DEF settingsPage!CloseDialog, Modal
  <2>2. TasksOK'
    BY <1>3, TasksStay DEF settingsPage!CloseDialog, settingsPage!server
  <2> QED
    BY <1>3, <2>1, <2>2 DEF settingsPage!CloseDialog, SettingsInv, SettingsTyped, CardAgrees,
      settingsPage!nav, settingsPage!server, settingsPage!queries
<1>4. CASE \E d \in Dicts : settingsPage!setEditTarget(d)
  <2>1. PICK d \in Dicts : settingsPage!setEditTarget(d)
    BY <1>4
  <2>2. shown.dict[d] \in Nat
    BY <2>1 DEF settingsPage!setEditTarget, SettingsInv, SettingsTyped, Dictionaries
  <2>3. modal' \in Modal
    BY <2>1, <2>2 DEF settingsPage!setEditTarget, Modal
  <2>4. TasksOK'
    BY <2>1, TasksStay DEF settingsPage!setEditTarget, settingsPage!server
  <2> QED
    BY <2>1, <2>3, <2>4 DEF settingsPage!setEditTarget, SettingsInv, SettingsTyped, CardAgrees,
      settingsPage!nav, settingsPage!server, settingsPage!queries
<1>5. CASE \E t \in settingsPage!Tasks : settingsPage!handleSubmit(t)
  <2>1. PICK t \in settingsPage!Tasks : settingsPage!handleSubmit(t)
    BY <1>5
  <2>2. modal.version \in Nat /\ modal.kind \in {"create", "edit"} /\ (modal.kind = "edit" =>
          modal.id \in Dicts)
    BY <2>1 DEF settingsPage!handleSubmit, SettingsInv, SettingsTyped, Modal, settingsPage!Closed
  <2>3. PICK d \in Dicts : settingsPage!Ask(t, "dict", d, modal.version, settingsPage!Plain)
    BY <2>1, <2>2 DEF settingsPage!handleSubmit
  <2> QED
    BY <2>1, <2>2, <2>3, AskInv, StoredTyped DEF settingsPage!handleSubmit, SettingsInv
<1>6. CASE \E t \in settingsPage!Tasks : settingsPage!handleDelete(t)
  <2>1. PICK t \in settingsPage!Tasks : settingsPage!handleDelete(t)
    BY <1>6
  <2>2. modal.id \in Dicts
    BY <2>1 DEF settingsPage!handleDelete, SettingsInv, SettingsTyped, Modal, settingsPage!Closed
  <2>3. settingsPage!Ask(t, "dict", modal.id, None, settingsPage!Plain) /\
          UNCHANGED settingsPage!forms
    BY <2>1 DEF settingsPage!handleDelete
  <2> QED
    BY <2>2, <2>3, AskInv DEF settingsPage!forms, SettingsInv, SettingsTyped
<1> QED
  BY <1>1, <1>2, <1>3, <1>4, <1>5, <1>6 DEF settingsPage!Dialogs

\* Leaving a section leaves its saves without a card; opening the AI section fills a card of
\* its own.
LEMMA SectionInv ==
  ASSUME settingsPage!SettingsPageBounds, SettingsInv,
         NEW s \in settingsPage!Resources \cup {"general"}, settingsPage!setActiveSection(s)
  PROVE  SettingsInv'
<1>1. card' \in settingsPage!Card \cup {None} /\ CardAgrees'
  <2>1. shown.ai \in settingsPage!Config \cup {None}
    BY DEF SettingsInv, SettingsTyped
  <2>2. CASE s = "ai"
    BY <2>1, <2>2, FreshAgrees, SeedAgrees DEF settingsPage!setActiveSection, CardAgrees
  <2>3. CASE s # "ai"
    BY <2>3 DEF settingsPage!setActiveSection, CardAgrees
  <2> QED
    BY <2>2, <2>3
<1>2. TasksOK'
  <2>1. /\ tasks \in [settingsPage!Tasks -> Task] /\ [phase |-> "done"] \in Task
        /\ \A t \in settingsPage!Tasks :
             tasks[t].phase \in {"unused", "asked", "keyed", "answered", "reloading", "done"}
    BY DEF SettingsInv, TasksOK, TasksTyped, Task
  <2>2. tasks' = [t \in settingsPage!Tasks |-> IF tasks[t].phase = "reloading" THEN [phase |-> "done"]
          ELSE IF settingsPage!Out(t) THEN [tasks[t] EXCEPT !.live = FALSE] ELSE tasks[t]]
    BY DEF settingsPage!setActiveSection
  <2>3. ASSUME NEW t \in settingsPage!Tasks, settingsPage!Out(t), tasks[t].phase # "reloading"
        PROVE  /\ tasks'[t] = [tasks[t] EXCEPT !.live = FALSE] /\ tasks'[t] \in Task /\
                     tasks'[t].live = FALSE
               /\ tasks'[t].phase = tasks[t].phase /\ tasks'[t].res = tasks[t].res
               /\ tasks'[t].value = tasks[t].value /\ tasks'[t].touched = tasks[t].touched
               /\ tasks'[t].base = tasks[t].base /\ tasks'[t].raced = tasks[t].raced
    <3> DEFINE k == tasks[t]
    <3>1. tasks'[t] = [k EXCEPT !.live = FALSE]
      BY <2>2, <2>3
    <3>2. k \in Task /\ k.phase \in {"asked", "keyed", "answered"}
      BY <2>1, <2>3 DEF settingsPage!Out
    <3> HIDE DEF k
    <3>3. /\ [k EXCEPT !.live = FALSE] \in Task /\ [k EXCEPT !.live = FALSE].live = FALSE
          /\ [k EXCEPT !.live = FALSE].phase = k.phase /\ [k EXCEPT !.live = FALSE].res = k.res
          /\ [k EXCEPT !.live = FALSE].value = k.value /\ [k EXCEPT !.live = FALSE].touched =
                k.touched
          /\ [k EXCEPT !.live = FALSE].base = k.base /\ [k EXCEPT !.live = FALSE].raced = k.raced
      BY <3>2 DEF Task
    <3> QED
      BY <3>1, <3>3 DEF k
  <2>4. ASSUME NEW t \in settingsPage!Tasks, ~settingsPage!Out(t) PROVE tasks'[t] = tasks[t]
    BY <2>2, <2>4 DEF settingsPage!Out
  <2>5. ASSUME NEW t \in settingsPage!Tasks, tasks[t].phase = "reloading" PROVE tasks'[t] = [phase |-> "done"]
    BY <2>2, <2>5
  <2>6. TasksTyped'
    BY <2>1, <2>2, <2>3, <2>4, <2>5 DEF TasksTyped
  <2>7. own' = own
    BY DEF settingsPage!setActiveSection, settingsPage!server
  <2>8. ASSUME NEW t \in settingsPage!Tasks, IsSave(t)' PROVE SaveAgrees(tasks[t])' /\ ~tasks'[t].live
    <3>1. settingsPage!Out(t) /\ tasks[t].phase # "reloading"
      BY <2>4, <2>5, <2>8 DEF IsSave, settingsPage!Out
    <3>2. SaveAgrees(tasks[t])
      BY <2>3, <2>8, <3>1 DEF SettingsInv, TasksOK, SavesAgree, IsSave
    <3> QED
      BY <2>3, <2>7, <3>1, <3>2 DEF SaveAgrees
  <2> QED
    BY <2>6, <2>8 DEF TasksOK, SavesAgree, SavesHaveCard
<1>3. asks' \in [dict : Query(Dictionaries), perm : Query(Permissions), ai : Query(settingsPage!Config)]
      /\ overdue' \in SUBSET settingsPage!Resources
  <2>1. PICK again \in BOOLEAN :
          asks' = [r \in settingsPage!Resources |-> [phase |-> IF r = s /\ again THEN "asked" ELSE "none"]]
    BY DEF settingsPage!setActiveSection
  <2>2. asks' = [dict |-> [phase |-> IF "dict" = s /\ again THEN "asked" ELSE "none"],
                 perm |-> [phase |-> IF "perm" = s /\ again THEN "asked" ELSE "none"],
                 ai |-> [phase |-> IF "ai" = s /\ again THEN "asked" ELSE "none"]]
    BY <2>1
  <2> QED
    BY <2>2 DEF settingsPage!setActiveSection, SettingsInv, SettingsTyped, Query
<1>4. visits' \in 0..MaxVisits
  BY DEF settingsPage!setActiveSection, SettingsInv, SettingsTyped, settingsPage!SettingsPageBounds
<1> QED
  BY <1>1, <1>2, <1>3, <1>4 DEF settingsPage!setActiveSection, SettingsInv, SettingsTyped,
    TasksOK, TasksTyped, settingsPage!server

LEMMA PageInv ==
  ASSUME settingsPage!SettingsPageBounds, SettingsInv, settingsPage!Page
  PROVE  SettingsInv'
<1>1. CASE settingsPage!Type
  <2>1. touches' \in 0..MaxTouches
    BY <1>1 DEF settingsPage!Type, settingsPage!Touched, SettingsInv, SettingsTyped,
      settingsPage!SettingsPageBounds
  <2>2. general' \in [values : 0..(MaxTouches + 1), clean : 1..(MaxTouches + 1)]
    BY <1>1 DEF settingsPage!Type, SettingsInv, SettingsTyped
  <2>3. TasksOK'
    BY <1>1, TasksStay DEF settingsPage!Type, settingsPage!server
  <2> QED
    BY <1>1, <2>1, <2>2, <2>3 DEF settingsPage!Type, SettingsInv, SettingsTyped, CardAgrees,
      settingsPage!nav, settingsPage!server, settingsPage!queries
<1>2. CASE settingsPage!Save
  <2>1. TasksOK'
    BY <1>2, TasksStay DEF settingsPage!Save, settingsPage!server
  <2>2. settingsPage!Stored /\
          UNCHANGED <<settingsPage!nav, settingsPage!server, settingsPage!queries, tasks, modal,
          card, touches, offered>>
    BY <1>2 DEF settingsPage!Save
  <2> QED
    BY <2>1, <2>2, StoredTyped DEF SettingsInv, SettingsTyped, CardAgrees, settingsPage!nav,
      settingsPage!server, settingsPage!queries
<1>3. CASE settingsPage!ResetChanges
  <2>1. TasksOK'
    BY <1>3, TasksStay DEF settingsPage!ResetChanges, settingsPage!server
  <2>2. general' \in [values : 0..(MaxTouches + 1), clean : 1..(MaxTouches + 1)]
    BY <1>3 DEF settingsPage!ResetChanges, SettingsInv, SettingsTyped
  <2> QED
    BY <1>3, <2>1, <2>2 DEF settingsPage!ResetChanges, SettingsInv, SettingsTyped, CardAgrees,
      settingsPage!nav, settingsPage!server, settingsPage!queries
<1>4. CASE \E t \in settingsPage!Tasks, tool \in Tools : settingsPage!handleChange(t, tool)
  <2>1. PICK t \in settingsPage!Tasks, tool \in Tools : settingsPage!handleChange(t, tool)
    BY <1>4
  <2>2. PICK d \in settingsPage!Decisions : settingsPage!Ask(t, "perm", tool, d, settingsPage!Plain)
    BY <2>1 DEF settingsPage!handleChange
  <2> QED
    BY <2>1, <2>2, AskInv
    DEF settingsPage!handleChange, settingsPage!forms, SettingsInv, SettingsTyped
<1> QED
  BY <1>1, <1>2, <1>3, <1>4, SectionInv DEF settingsPage!Page

\* The end of a reload ends the mutations of dictionaries that waited for it.
LEMMA ReloadsEnd ==
  ASSUME SettingsInv, NEW r \in settingsPage!Resources, settingsPage!FinishReloads(r),
         card \in settingsPage!Card => card' \in settingsPage!Card, own' = own
  PROVE  TasksOK' /\ modal' \in Modal
<1>1. /\ tasks \in [settingsPage!Tasks -> Task]
      /\ \A t \in settingsPage!Tasks : tasks[t].phase \in {"unused", "asked", "keyed", "answered", "reloading", "done"}
  BY DEF SettingsInv, TasksOK, TasksTyped
<1>2. tasks' = [t \in settingsPage!Tasks |-> IF tasks[t].phase = "reloading" /\ tasks[t].res =
        r THEN [phase |-> "done"] ELSE tasks[t]]
  BY DEF settingsPage!FinishReloads
<1>3. [phase |-> "done"] \in Task
  BY DEF Task
<1>4. TasksTyped'
  BY <1>1, <1>2, <1>3 DEF TasksTyped
<1>5. \A t \in settingsPage!Tasks : settingsPage!Out(t)' => settingsPage!Out(t) /\ tasks'[t] =
        tasks[t]
  BY <1>2 DEF settingsPage!Out
<1>6. SavesAgree' /\ SavesHaveCard'
  BY <1>5 DEF SettingsInv, TasksOK, SavesAgree, SaveAgrees, SavesHaveCard, IsSave
<1>7. modal' \in Modal
  BY DEF settingsPage!FinishReloads, SettingsInv, SettingsTyped, Modal
<1> QED
  BY <1>4, <1>6, <1>7 DEF TasksOK

LEMMA SettingsQueriesInv ==
  ASSUME settingsPage!SettingsPageBounds, SettingsInv, settingsPage!Queries
  PROVE  SettingsInv'
<1>1. PICK r \in settingsPage!Resources : settingsPage!Handled(r) \/
        settingsPage!QueryReturns(r) \/ settingsPage!QueryFails(r)
  BY DEF settingsPage!Queries
<1>2. CASE settingsPage!Handled(r)
  <2> DEFINE ans == settingsPage!Data(r)
  <2>1. /\ r = "dict" => ans \in Dictionaries
        /\ r = "perm" => ans \in Permissions
        /\ r = "ai" => ans \in settingsPage!Config
    BY DEF SettingsInv, SettingsTyped, settingsPage!Assistant, settingsPage!Data, settingsPage!getAIConfig,
      settingsPage!Config
  <2>2. asks' = [asks EXCEPT ![r] = [phase |-> "answered", ans |-> ans]]
    BY <1>2 DEF settingsPage!Handled
  <2> HIDE DEF ans
  <2>3. asks' \in [dict : Query(Dictionaries), perm : Query(Permissions), ai : Query(settingsPage!Config)]
    BY <2>1, <2>2 DEF SettingsInv, SettingsTyped, Query
  <2>4. TasksOK'
    BY <1>2, TasksStay DEF settingsPage!Handled, settingsPage!forms, settingsPage!server
  <2> QED
    BY <1>2, <2>3, <2>4 DEF settingsPage!Handled, SettingsInv, SettingsTyped, CardAgrees,
      settingsPage!nav, settingsPage!server, settingsPage!forms
<1>3. CASE settingsPage!QueryReturns(r)
  <2>1. /\ r = "dict" => asks[r].ans \in Dictionaries
        /\ r = "perm" => asks[r].ans \in Permissions
        /\ r = "ai" => asks[r].ans \in settingsPage!Config
    BY <1>3 DEF settingsPage!QueryReturns, SettingsInv, SettingsTyped, Query
  <2>2. shown' \in [dict : Dictionaries \cup {None}, perm : Permissions \cup
          {None}, ai : settingsPage!Config \cup {None}]
    BY <1>3, <2>1 DEF settingsPage!QueryReturns, SettingsInv, SettingsTyped
  <2>3. asks' \in [dict : Query(Dictionaries), perm : Query(Permissions), ai : Query(settingsPage!Config)]
    BY <1>3 DEF settingsPage!QueryReturns, SettingsInv, SettingsTyped, Query
  <2>4. card' \in settingsPage!Card \cup {None} /\ CardAgrees' /\
          (card \in settingsPage!Card => card' \in settingsPage!Card)
    BY <1>3, <2>1, SeedAgrees DEF settingsPage!QueryReturns, SettingsInv, SettingsTyped, CardAgrees
  <2>5. TasksOK' /\ modal' \in Modal
    BY <1>3, <2>4, ReloadsEnd DEF settingsPage!QueryReturns, settingsPage!server
  <2>6. /\ stale' \in SUBSET settingsPage!Resources /\ invalid' \in SUBSET settingsPage!Resources
        /\ overdue' \in SUBSET settingsPage!Resources
    BY <1>3 DEF settingsPage!QueryReturns, SettingsInv, SettingsTyped
  <2>7. UNCHANGED <<section, visits, own, lost, settings, general, touches>>
    BY <1>3 DEF settingsPage!QueryReturns, settingsPage!nav, settingsPage!server
  <2>8. SettingsTyped'
    BY <2>2, <2>3, <2>4, <2>5, <2>6, <2>7 DEF SettingsInv, SettingsTyped
  <2> QED
    BY <2>4, <2>5, <2>8 DEF SettingsInv
<1>4. CASE settingsPage!QueryFails(r)
  <2>1. asks' \in [dict : Query(Dictionaries), perm : Query(Permissions), ai : Query(settingsPage!Config)]
    BY <1>4 DEF settingsPage!QueryFails, SettingsInv, SettingsTyped, Query
  <2>2. /\ lost' \in 0..MaxLost /\ stale' \in SUBSET settingsPage!Resources
        /\ invalid' \in SUBSET settingsPage!Resources
    BY <1>4, LostBound DEF settingsPage!QueryFails, SettingsInv, SettingsTyped
  <2>3. TasksOK' /\ modal' \in Modal
    BY <1>4, ReloadsEnd DEF settingsPage!QueryFails
  <2> QED
    BY <1>4, <2>1, <2>2, <2>3 DEF settingsPage!QueryFails, SettingsInv, SettingsTyped, TasksOK,
      TasksTyped, CardAgrees, settingsPage!nav
<1> QED
  BY <1>1, <1>2, <1>3, <1>4

\* The handler of a save takes the stored key.
LEMMA KeyIsReadInv ==
  ASSUME settingsPage!SettingsPageBounds, SettingsInv, NEW t \in settingsPage!Tasks,
         settingsPage!KeyIsRead(t)
  PROVE  SettingsInv'
<1> DEFINE k == tasks[t]
           task == [k EXCEPT !.phase = "keyed", !.value.key = own.ai.key]
<1>1. /\ k \in Task /\ k.phase = "asked" /\ k.res = "ai" /\ tasks \in [settingsPage!Tasks -> Task]
      /\ SaveAgrees(k) /\ (k.live => card \in settingsPage!Card)
  BY DEF settingsPage!KeyIsRead, SettingsInv, TasksOK, TasksTyped, SavesAgree, SavesHaveCard,
    IsSave, settingsPage!Out
<1>2. own.ai \in settingsPage!Assistant /\ own.ai # None
  BY DEF settingsPage!KeyIsRead, SettingsInv, SettingsTyped
<1>3. tasks' = [tasks EXCEPT ![t] = task] /\ UNCHANGED <<section, visits, own, lost>>
      /\ UNCHANGED <<shown, asks, invalid, stale, overdue, settings, general, modal, card, touches>>
  BY <1>1 DEF settingsPage!KeyIsRead, settingsPage!GetRawAPIKey, settingsPage!nav,
    settingsPage!server, settingsPage!queries, settingsPage!forms
<1> HIDE DEF k
<1>4. /\ task \in Task /\ task.phase = "keyed" /\ task.touched = k.touched /\ task.base = k.base
      /\ task.value.endpoint = k.value.endpoint /\ task.value.model = k.value.model
      /\ task.value.thinking = k.value.thinking /\ task.value.key = own.ai.key /\ task.live = k.live
  BY <1>1, <1>2 DEF Task, AIInput, settingsPage!Assistant
<1> HIDE DEF task
<1>5. SaveAgrees(task)
  BY <1>1, <1>2, <1>4 DEF SaveAgrees, FieldsAgree, settingsPage!Assistant
<1>6. TasksOK'
  BY <1>1, <1>3, <1>4, <1>5, OneTask
<1> QED
  BY <1>3, <1>6 DEF SettingsInv, SettingsTyped, CardAgrees

\* What the handler of a mutation leaves on the server.
LEMMA HandledOwn ==
  ASSUME SettingsInv, NEW t \in settingsPage!Tasks, settingsPage!TaskHandled(t),
         ~settingsPage!Refused(t)
  PROVE  /\ own' \in [dict : Dictionaries, perm : Permissions, ai : settingsPage!Assistant \cup {None}]
         /\ tasks[t].res = "ai" => own'.ai \in settingsPage!Assistant
<1>1. tasks[t] \in Task /\ tasks[t].phase \in {"asked", "keyed"}
  BY DEF settingsPage!TaskHandled, SettingsInv, TasksOK, TasksTyped
<1>2. own \in [dict : Dictionaries, perm : Permissions, ai : settingsPage!Assistant \cup {None}]
  BY DEF SettingsInv, SettingsTyped
<1>3. CASE tasks[t].res = "ai"
  <2>1. /\ tasks[t].value \in AIInput /\ tasks[t].value.endpoint # None /\ own.ai # None
        /\ tasks[t].value.key # "none"
    BY <1>1, <1>3 DEF Task, settingsPage!Refused, settingsPage!TaskHandled, settingsPage!HasKey,
      SettingsInv, TasksOK, SavesAgree, SaveAgrees, IsSave, settingsPage!Out
  <2>2. own' = settingsPage!updateAIConfig(tasks[t].value)
    BY <1>3 DEF settingsPage!TaskHandled
  <2> QED
    BY <1>2, <2>1, <2>2 DEF settingsPage!updateAIConfig, AIInput, settingsPage!Assistant
<1>4. CASE tasks[t].res = "perm"
  <2>1. tasks[t].value \in settingsPage!Decisions /\ tasks[t].id \in Tools
    BY <1>1, <1>4 DEF Task
  <2>2. own' = [own EXCEPT !["perm"][tasks[t].id] = tasks[t].value]
    BY <1>4 DEF settingsPage!TaskHandled
  <2> QED
    BY <1>2, <1>4, <2>1, <2>2 DEF Permissions
<1>5. CASE tasks[t].res = "dict"
  <2>1. tasks[t].value \in Nat \cup {None} /\ tasks[t].id \in Dicts
    BY <1>1, <1>5 DEF Task
  <2>2. own' = [own EXCEPT !["dict"][tasks[t].id] = tasks[t].value]
    BY <1>5 DEF settingsPage!TaskHandled
  <2> QED
    BY <1>2, <1>5, <2>1, <2>2 DEF Dictionaries
<1> QED
  BY <1>1, <1>3, <1>4, <1>5 DEF Task

\* A save that is handled is the last word on the key: one that has read it before is raced.
LEMMA HandledTasks ==
  ASSUME settingsPage!SettingsPageBounds, SettingsInv, NEW t \in settingsPage!Tasks, settingsPage!TaskHandled(t),
         ~settingsPage!Refused(t)
  PROVE  TasksOK'
<1>1. tasks \in [settingsPage!Tasks -> Task] /\ tasks[t].phase \in {"asked", "keyed"}
  BY DEF settingsPage!TaskHandled, SettingsInv, TasksOK, TasksTyped
<1>2. tasks' = [u \in settingsPage!Tasks |->
        IF u = t THEN [tasks[u] EXCEPT !.phase = "answered"]
        ELSE IF settingsPage!Overtakes(t, u) THEN [tasks[u] EXCEPT !.raced = TRUE] ELSE tasks[u]]
  BY DEF settingsPage!TaskHandled
<1>3. UNCHANGED card
  BY DEF settingsPage!TaskHandled, settingsPage!forms
<1>4. ASSUME NEW u \in settingsPage!Tasks
      PROVE  /\ tasks'[u] \in Task
             /\ tasks'[u].phase \in {"unused", "asked", "keyed", "answered", "reloading", "done"}
             /\ IsSave(u)' => /\ SaveAgrees(tasks[u])'
                              /\ tasks'[u].live => card' \in settingsPage!Card
  <2> DEFINE k == tasks[u]
  <2>1. k \in Task /\ k.phase \in {"unused", "asked", "keyed", "answered", "reloading", "done"}
    BY <1>1 DEF SettingsInv, TasksOK, TasksTyped
  <2>2. IsSave(u) => SaveAgrees(k) /\ (k.live => card \in settingsPage!Card)
    BY DEF SettingsInv, TasksOK, SavesAgree, SavesHaveCard
  <2>3. CASE u = t
    <3>1. tasks'[u] = [k EXCEPT !.phase = "answered"] /\ k.phase \in {"asked", "keyed"}
      BY <1>1, <1>2, <2>3
    <3> HIDE DEF k
    <3>2. /\ [k EXCEPT !.phase = "answered"] \in Task
          /\ [k EXCEPT !.phase = "answered"].phase = "answered"
          /\ [k EXCEPT !.phase = "answered"].res = k.res
          /\ [k EXCEPT !.phase = "answered"].value = k.value
          /\ [k EXCEPT !.phase = "answered"].live = k.live
          /\ k.res = "ai" => /\ [k EXCEPT !.phase = "answered"].touched = k.touched
                             /\ [k EXCEPT !.phase = "answered"].base = k.base
      BY <2>1, <3>1 DEF Task
    <3>3. IsSave(u)' => IsSave(u)
      BY <3>1, <3>2 DEF IsSave, settingsPage!Out, k
    <3> QED
      BY <1>3, <2>2, <3>1, <3>2, <3>3 DEF SaveAgrees, IsSave
  <2>4. CASE u # t /\ settingsPage!Overtakes(t, u)
    <3>1. tasks'[u] = [k EXCEPT !.raced = TRUE] /\ k.phase = "keyed" /\ tasks[t].res = "ai"
      BY <1>2, <2>4 DEF settingsPage!Overtakes
    <3> HIDE DEF k
    <3>2. /\ [k EXCEPT !.raced = TRUE] \in Task /\ [k EXCEPT !.raced = TRUE].raced
          /\ [k EXCEPT !.raced = TRUE].phase = k.phase /\ [k EXCEPT !.raced = TRUE].res = k.res
          /\ [k EXCEPT !.raced = TRUE].value = k.value /\ [k EXCEPT !.raced = TRUE].live = k.live
          /\ [k EXCEPT !.raced = TRUE].touched = k.touched /\ [k EXCEPT !.raced = TRUE].base = k.base
      BY <2>1, <3>1 DEF Task
    <3>3. IsSave(u)' => IsSave(u)
      BY <3>1, <3>2 DEF IsSave, settingsPage!Out, k
    <3>4. own'.ai # None
      <4>1. own' = settingsPage!updateAIConfig(tasks[t].value)
        BY <3>1 DEF settingsPage!TaskHandled
      <4>2. own' = [own EXCEPT !.ai = [endpoint |-> tasks[t].value.endpoint, model |-> tasks[t].value.model,
                     thinking |-> tasks[t].value.thinking, key |-> tasks[t].value.key]]
        BY <4>1 DEF settingsPage!updateAIConfig
      <4>3. own'.ai \in settingsPage!Assistant
        BY <3>1, HandledOwn DEF SettingsInv
      <4> QED
        BY <4>3 DEF settingsPage!SettingsPageBounds
    <3> QED
      BY <1>3, <2>2, <3>1, <3>2, <3>3, <3>4 DEF SaveAgrees, IsSave
  <2>5. CASE u # t /\ ~settingsPage!Overtakes(t, u)
    <3>1. tasks'[u] = k
      BY <1>2, <2>5
    <3>2. IsSave(u)' => IsSave(u)
      BY <3>1 DEF IsSave, settingsPage!Out
    <3>3. k.phase = "keyed" => own'.ai = own.ai
      BY <2>5, <1>1 DEF settingsPage!Overtakes, settingsPage!TaskHandled, SettingsInv, SettingsTyped, Task
    <3> QED
      BY <1>3, <2>1, <2>2, <3>1, <3>2, <3>3 DEF SaveAgrees
  <2> QED
    BY <2>3, <2>4, <2>5
<1>5. tasks' \in [settingsPage!Tasks -> Task]
  BY <1>2, <1>4
<1> QED
  BY <1>4, <1>5 DEF TasksOK, TasksTyped, SavesAgree, SavesHaveCard

\* The server keeps a stored key and refuses a blank endpoint.
LEMMA TaskHandledInv ==
  ASSUME settingsPage!SettingsPageBounds, SettingsInv, NEW t \in settingsPage!Tasks,
         settingsPage!TaskHandled(t)
  PROVE  SettingsInv'
<1>1. tasks[t] \in Task /\ tasks \in [settingsPage!Tasks -> Task]
  BY DEF SettingsInv, TasksOK, TasksTyped
<1>2. TasksOK'
  <2>1. CASE settingsPage!Refused(t)
    <3>1. [phase |-> "done"] \in Task
      BY DEF Task
    <3>2. tasks' = [tasks EXCEPT ![t] = [phase |-> "done"]] /\ own' = own
      BY <2>1 DEF settingsPage!TaskHandled
    <3> QED
      BY <3>1, <3>2, OneTask DEF settingsPage!TaskHandled, settingsPage!forms
  <2>2. CASE ~settingsPage!Refused(t)
    BY <2>2, HandledTasks
  <2> QED
    BY <2>1, <2>2
<1>3. own' \in [dict : Dictionaries, perm : Permissions, ai : settingsPage!Assistant \cup {None}]
  <2>1. CASE settingsPage!Refused(t)
    BY <2>1 DEF settingsPage!TaskHandled, SettingsInv, SettingsTyped
  <2>2. CASE ~settingsPage!Refused(t)
    BY <2>2, HandledOwn DEF SettingsInv
  <2> QED
    BY <2>1, <2>2
<1> QED
  BY <1>2, <1>3 DEF settingsPage!TaskHandled, SettingsInv, SettingsTyped,
    CardAgrees, settingsPage!nav, settingsPage!queries, settingsPage!forms

\* An answer invalidates a query.
LEMMA InvalidatedTypes ==
  ASSUME SettingsTyped, NEW r \in settingsPage!Resources, settingsPage!Invalidated(r)
  PROVE  /\ asks' \in [dict : Query(Dictionaries), perm : Query(Permissions), ai : Query(settingsPage!Config)]
         /\ stale' \in SUBSET settingsPage!Resources /\ invalid' \in SUBSET settingsPage!Resources
         /\ overdue' \in SUBSET settingsPage!Resources
<1>1. asks' = asks \/ asks' = [asks EXCEPT ![r] = [phase |-> "asked"]]
  BY DEF settingsPage!Invalidated, settingsPage!Refetched
<1>2. asks' \in [dict : Query(Dictionaries), perm : Query(Permissions), ai : Query(settingsPage!Config)]
  BY <1>1 DEF SettingsTyped, Query
<1> QED
  BY <1>2 DEF settingsPage!Invalidated, SettingsTyped

LEMMA TaskEndsInv ==
  ASSUME settingsPage!SettingsPageBounds, SettingsInv, NEW t \in settingsPage!Tasks,
         settingsPage!TaskLost(t) \/ settingsPage!TaskReturns(t)
  PROVE  SettingsInv'
<1>1. tasks[t] \in Task /\ tasks \in [settingsPage!Tasks -> Task] /\ [phase |-> "done"] \in Task
  BY DEF SettingsInv, TasksOK, TasksTyped, Task
<1>2. CASE settingsPage!TaskLost(t)
  <2>1. TasksOK'
    BY <1>1, <1>2, OneTask DEF settingsPage!TaskLost, settingsPage!forms
  <2>2. lost' \in 0..MaxLost /\ stale' \in SUBSET settingsPage!Resources
    BY <1>1, <1>2, LostBound DEF settingsPage!TaskLost, SettingsInv, SettingsTyped, Task
  <2> QED
    BY <1>2, <2>1, <2>2 DEF settingsPage!TaskLost, SettingsInv, SettingsTyped, TasksOK,
      TasksTyped, CardAgrees, settingsPage!nav, settingsPage!forms
<1>3. CASE settingsPage!TaskReturns(t)
  <2> DEFINE r == tasks[t].res
             reloading == [tasks[t] EXCEPT !.phase = "reloading"]
             task == IF r = "dict" /\ section = "dict" THEN reloading ELSE [phase |-> "done"]
  <2>1. r \in settingsPage!Resources /\ tasks[t].phase = "answered"
    BY <1>1, <1>3 DEF settingsPage!TaskReturns, Task
  <2>2. r = "dict" => reloading \in Task /\ reloading.res = "dict"
    BY <1>1, <2>1 DEF Task
  <2>3. tasks' = [tasks EXCEPT ![t] = task]
    BY <1>1, <1>3 DEF settingsPage!TaskReturns
  <2>4. task \in Task /\ (task.phase \in {"asked", "keyed", "answered", "reloading"} => task.res = "dict")
    BY <1>1, <2>2
  <2>5. card' \in settingsPage!Card \cup {None} /\ CardAgrees' /\
          (card \in settingsPage!Card => card' \in settingsPage!Card)
    <3>1. CASE r = "ai" /\ tasks[t].live
      <4>1. card \in settingsPage!Card /\ Agrees(card, card.apiKey, card.touched, card.base)
        BY <2>1, <3>1 DEF SettingsInv, SettingsTyped, TasksOK, SavesHaveCard, IsSave,
          settingsPage!Out, CardAgrees, settingsPage!SettingsPageBounds
      <4>2. card' = [card EXCEPT !.apiKey = "none", !.touched = @ \ {"apiKey"}]
        BY <1>3, <3>1 DEF settingsPage!TaskReturns, settingsPage!KeyCleared
      <4>3. card' \in settingsPage!Card /\ Agrees(card', card'.apiKey, card'.touched, card'.base)
        BY <4>1, <4>2 DEF settingsPage!Card, Agrees, FieldsAgree
      <4> QED
        BY <4>3 DEF CardAgrees
    <3>2. CASE ~(r = "ai" /\ tasks[t].live)
      BY <1>3, <3>2 DEF settingsPage!TaskReturns, settingsPage!KeyCleared, SettingsInv,
        SettingsTyped, CardAgrees
    <3> QED
      BY <3>1, <3>2
  <2> HIDE DEF task
  <2>6. TasksOK'
    BY <1>3, <2>3, <2>4, <2>5, OneTask DEF settingsPage!TaskReturns, settingsPage!server
  <2>7. settingsPage!Invalidated(r)
    BY <1>3 DEF settingsPage!TaskReturns
  <2>8. UNCHANGED <<section, visits, own, lost, shown, settings, general, modal, touches>>
    BY <1>3 DEF settingsPage!TaskReturns, settingsPage!nav, settingsPage!server
  <2>9. SettingsTyped'
    BY <2>1, <2>5, <2>7, <2>8, InvalidatedTypes DEF SettingsInv, SettingsTyped
  <2> QED
    BY <2>5, <2>6, <2>9 DEF SettingsInv
<1> QED
  BY <1>2, <1>3

LEMMA NextSettings ==
  ASSUME settingsPage!SettingsPageBounds, SettingsInv, [settingsPage!Next]_(settingsPage!vars)
  PROVE  SettingsInv'
<1>1. CASE settingsPage!Queries
  BY <1>1, SettingsQueriesInv
<1>2. CASE settingsPage!CardEdits
  BY <1>2, CardEditsInv, SaveInv DEF settingsPage!CardEdits
<1>3. CASE settingsPage!Dialogs
  BY <1>3, DialogsInv
<1>4. CASE settingsPage!Page
  BY <1>4, PageInv
<1>5. CASE settingsPage!Mutations
  BY <1>5, KeyIsReadInv, TaskHandledInv, TaskEndsInv DEF settingsPage!Mutations
<1>6. CASE UNCHANGED settingsPage!vars
  <2>1. TasksOK'
    BY <1>6, TasksStay DEF settingsPage!vars, settingsPage!forms, settingsPage!server
  <2> QED
    BY <1>6, <2>1 DEF settingsPage!vars, settingsPage!nav, settingsPage!server,
      settingsPage!queries, settingsPage!forms, SettingsInv, SettingsTyped, CardAgrees
<1> QED
  BY <1>1, <1>2, <1>3, <1>4, <1>5, <1>6 DEF settingsPage!Next

-----------------------------------------------------------------------------------
(* The settings page: what it gives.                                               *)

LEMMA SettingsInvariance == settingsPage!SettingsPageBounds => (settingsPage!Spec => []SettingsInv)
<1> SUFFICES ASSUME settingsPage!SettingsPageBounds PROVE settingsPage!Spec => []SettingsInv
  OBVIOUS
<1>1. settingsPage!Init => SettingsInv
  BY InitSettings
<1>2. SettingsInv /\ [settingsPage!Next]_(settingsPage!vars) => SettingsInv'
  BY NextSettings
<1> QED
  BY <1>1, <1>2, PTL DEF settingsPage!Spec

LEMMA SettingsTypesHold == SettingsInv => settingsPage!TypeOK
BY DEF SettingsInv, SettingsTyped, settingsPage!TypeOK, TasksOK, TasksTyped, Dictionaries,
  Permissions, Query, Modal, settingsPage!Card, settingsPage!Closed

\* The cache, the card and the server keep their types: no save clears the stored endpoint or
\* the stored key (SettingsPage.tsx, ai_config.go).
THEOREM SettingsTypes ==
  settingsPage!SettingsPageBounds => (settingsPage!Spec => []settingsPage!TypeOK)
<1> SUFFICES ASSUME settingsPage!SettingsPageBounds PROVE settingsPage!Spec => []settingsPage!TypeOK
  OBVIOUS
<1> QED
  BY SettingsTypesHold, SettingsInvariance, PTL

\* The only step that changes the configuration is the handling of a save, and a save agrees
\* with what its card was filled with.
LEMMA TouchedStep ==
  ASSUME settingsPage!SettingsPageBounds, SettingsInv, [settingsPage!Next]_(settingsPage!vars)
  PROVE  settingsPage!SavesKeepWhatWasFilledStep
<1> SUFFICES ASSUME NEW t \in settingsPage!Tasks, tasks[t].phase \in {"asked", "keyed"},
                    tasks'[t].phase = "answered", tasks[t].res = "ai"
             PROVE  /\ tasks[t].base # None =>
                         \A f \in {"endpoint", "model", "thinking"} \ tasks[t].touched :
                           own'.ai[f] = tasks[t].base[f]
                    /\ "apiKey" \in tasks[t].touched \/ tasks[t].raced \/ own'.ai.key = own.ai.key
  BY DEF settingsPage!SavesKeepWhatWasFilledStep
<1>1. tasks \in [settingsPage!Tasks -> Task]
  BY DEF SettingsInv, TasksOK, TasksTyped
<1>2. settingsPage!TaskHandled(t) /\ ~settingsPage!Refused(t)
  <2>1. ASSUME tasks' = tasks PROVE FALSE
    BY <2>1
  <2>2. ASSUME NEW u \in settingsPage!Tasks, NEW r, NEW id, NEW value, NEW more,
               settingsPage!Ask(u, r, id, value, more) PROVE FALSE
    <3>1. CASE u = t
      BY <2>2, <3>1 DEF settingsPage!Ask
    <3>2. CASE u # t
      BY <1>1, <2>2, <3>2 DEF settingsPage!Ask
    <3> QED
      BY <3>1, <3>2
  <2>3. ASSUME NEW r \in settingsPage!Resources, settingsPage!FinishReloads(r) PROVE FALSE
    BY <2>3 DEF settingsPage!FinishReloads
  <2>4. CASE settingsPage!Queries
    BY <2>1, <2>3, <2>4 DEF settingsPage!Queries, settingsPage!Handled, settingsPage!QueryReturns,
      settingsPage!QueryFails
  <2>5. CASE settingsPage!CardEdits
    BY <2>1, <2>2, <2>5 DEF settingsPage!CardEdits, settingsPage!CardFrame,
      settingsPage!handleProviderChange, settingsPage!setApiKey, settingsPage!useAIModels,
      settingsPage!setModel,
      settingsPage!setThinking, settingsPage!handleReset, settingsPage!handleSave
  <2>6. CASE settingsPage!Dialogs
    BY <2>1, <2>2, <2>6 DEF settingsPage!Dialogs, settingsPage!openCreate,
      settingsPage!EditDictionary, settingsPage!CloseDialog, settingsPage!setEditTarget,
      settingsPage!handleSubmit,
      settingsPage!handleDelete
  <2>7. ASSUME NEW s \in settingsPage!Resources \cup {"general"},
               settingsPage!setActiveSection(s) PROVE FALSE
    <3>1. tasks'[t] = [tasks[t] EXCEPT !.live = FALSE]
      BY <2>7 DEF settingsPage!setActiveSection, settingsPage!Out
    <3>2. [tasks[t] EXCEPT !.live = FALSE].phase = tasks[t].phase
      BY <1>1 DEF Task
    <3> QED
      BY <3>1, <3>2
  <2>8. CASE settingsPage!Page
    BY <2>1, <2>2, <2>7, <2>8 DEF settingsPage!Page, settingsPage!Type, settingsPage!Save,
      settingsPage!ResetChanges, settingsPage!handleChange
  <2>9. CASE settingsPage!Mutations
    <3>1. PICK u \in settingsPage!Tasks : settingsPage!KeyIsRead(u) \/ settingsPage!TaskHandled(u) \/
            settingsPage!TaskLost(u) \/ settingsPage!TaskReturns(u)
      BY <2>9 DEF settingsPage!Mutations
    <3>2. CASE settingsPage!KeyIsRead(u)
      <4>1. tasks[u] \in Task
        BY <1>1
      <4>2. tasks'[t].phase = IF u = t THEN "keyed" ELSE tasks[t].phase
        BY <1>1, <3>2, <4>1 DEF settingsPage!KeyIsRead, Task
      <4> QED
        BY <4>2
    <3>3. CASE settingsPage!TaskLost(u) \/ settingsPage!TaskReturns(u)
      BY <1>1, <3>3 DEF settingsPage!TaskLost, settingsPage!TaskReturns
    <3>4. CASE settingsPage!TaskHandled(u)
      <4>1. CASE settingsPage!Refused(u)
        BY <1>1, <3>4, <4>1 DEF settingsPage!TaskHandled
      <4>2. CASE ~settingsPage!Refused(u) /\ u # t
        <5>1. tasks'[t] = tasks[t] \/ tasks'[t] = [tasks[t] EXCEPT !.raced = TRUE]
          BY <3>4, <4>2 DEF settingsPage!TaskHandled
        <5>2. [tasks[t] EXCEPT !.raced = TRUE].phase = tasks[t].phase
          BY <1>1 DEF Task
        <5> QED
          BY <5>1, <5>2
      <4>3. CASE ~settingsPage!Refused(u) /\ u = t
        BY <3>4, <4>3
      <4> QED
        BY <4>1, <4>2, <4>3
    <3> QED
      BY <3>1, <3>2, <3>3, <3>4
  <2>10. CASE UNCHANGED settingsPage!vars
    BY <2>1, <2>10 DEF settingsPage!vars
  <2> QED
    BY <2>4, <2>5, <2>6, <2>8, <2>9, <2>10 DEF settingsPage!Next
<1>3. own' = settingsPage!updateAIConfig(tasks[t].value)
  BY <1>2 DEF settingsPage!TaskHandled
<1>4. SaveAgrees(tasks[t]) /\ own.ai # None
  BY <1>2 DEF SettingsInv, TasksOK, SavesAgree, IsSave, settingsPage!Out, settingsPage!Refused
<1>5. tasks[t].phase = "asked" => tasks[t].value.key # "none"
  BY <1>2, <1>4 DEF settingsPage!TaskHandled, settingsPage!HasKey
<1>6. own'.ai = [endpoint |-> tasks[t].value.endpoint, model |-> tasks[t].value.model,
                 thinking |-> tasks[t].value.thinking, key |-> tasks[t].value.key]
  BY <1>3 DEF settingsPage!updateAIConfig, SettingsInv, SettingsTyped
<1>7. "apiKey" \in tasks[t].touched \/ tasks[t].raced \/ own'.ai.key = own.ai.key
  BY <1>4, <1>5, <1>6 DEF SaveAgrees
<1>8. ASSUME tasks[t].base # None, NEW f \in {"endpoint", "model", "thinking"} \ tasks[t].touched
      PROVE  own'.ai[f] = tasks[t].base[f]
  BY <1>4, <1>6, <1>8 DEF SaveAgrees, FieldsAgree
<1> QED
  BY <1>7, <1>8

\* A save of the AI card writes what the card was filled with in the fields the user has not
\* changed, whatever sections were opened and whatever saves returned in between, and keeps the
\* stored key unless another save came between its reading and its writing (the seeding and the
\* reset of AIAssistantCard, SettingsPage.tsx; GetRawAPIKey and Reconfigure, ai_config.go).
THEOREM CardSavesKeepFilled ==
  settingsPage!SettingsPageBounds => (settingsPage!Spec => settingsPage!SavesKeepWhatWasFilled)
<1> SUFFICES ASSUME settingsPage!SettingsPageBounds PROVE settingsPage!Spec =>
                      settingsPage!SavesKeepWhatWasFilled
  OBVIOUS
<1>1. SettingsInv /\ [settingsPage!Next]_(settingsPage!vars) =>
        settingsPage!SavesKeepWhatWasFilledStep
  BY TouchedStep
<1> QED
  BY <1>1, SettingsInvariance, PTL DEF settingsPage!Spec, settingsPage!SavesKeepWhatWasFilled

-----------------------------------------------------------------------------------
(* The settings page: the sections and the server.                                 *)

\* A mutation the server has made and the page was not told of, and one that waits for its reload.
Made(t, r)      == tasks[t].phase = "answered" /\ tasks[t].res = r
Reloading(t, r) == tasks[t].phase = "reloading" /\ tasks[t].res = r

\* An answer on its way is what the server has, and so is what is in the cache and has not been
\* invalidated, unless a mutation was made since and its answer is going to invalidate it.
Fresh(r) ==
  r \notin stale /\ (\A t \in settingsPage!Tasks : ~Made(t, r)) =>
    /\ asks[r].phase = "answered" => asks[r].ans = settingsPage!Data(r)
    /\ shown[r] # None /\ r \notin invalid => shown[r] = settingsPage!Data(r)

\* A query that is invalid is being asked while its section is open, and a mutation of a
\* dictionary waits for it unless the opening has asked it.
AskedAgain(r) ==
  section = r /\ r \in invalid /\ r \notin stale =>
    /\ asks[r].phase # "none"
    /\ r = "dict" /\ r \notin overdue => \E t \in settingsPage!Tasks : Reloading(t, r)

\* Nothing is asked for a section that is not open.
Idle(r) == section # r => asks[r].phase = "none"

FreshQuery(r) == Fresh(r) /\ AskedAgain(r) /\ Idle(r)

QueriesFresh == \A r \in settingsPage!Resources : FreshQuery(r)

SettledInv == SettingsInv /\ QueriesFresh

LEMMA InitFresh == settingsPage!Init => QueriesFresh
<1> SUFFICES ASSUME settingsPage!Init, NEW r \in settingsPage!Resources PROVE FreshQuery(r)
  BY DEF QueriesFresh
<1> QED
  BY DEF settingsPage!Init, FreshQuery, Fresh, AskedAgain, Idle

\* A step that leaves a query, the server's data and the mutations of it as they are.
LEMMA FreshStays ==
  ASSUME QueriesFresh, NEW r \in settingsPage!Resources, section' = section,
         settingsPage!Data(r)' = settingsPage!Data(r), shown'[r] = shown[r], asks'[r] = asks[r],
         r \in invalid <=> r \in invalid', r \in overdue => r \in overdue', r \in stale => r \in stale',
         \A t \in settingsPage!Tasks :
           (Made(t, r) => Made(t, r)') /\ (Reloading(t, r) => Reloading(t, r)')
  PROVE  FreshQuery(r)'
<1>1. Fresh(r) /\ AskedAgain(r) /\ Idle(r)
  BY DEF QueriesFresh, FreshQuery
<1>2. Fresh(r)'
  BY <1>1 DEF Fresh
<1>3. AskedAgain(r)' /\ Idle(r)'
  BY <1>1 DEF AskedAgain, Idle
<1> QED
  BY <1>2, <1>3 DEF FreshQuery

LEMMA DataStays ==
  ASSUME NEW r \in settingsPage!Resources, own'[r] = own[r]
  PROVE  settingsPage!Data(r)' = settingsPage!Data(r)
BY DEF settingsPage!Data, settingsPage!getAIConfig

\* One that leaves all of them.
LEMMA AllFreshStay ==
  ASSUME QueriesFresh, UNCHANGED <<section, own, shown, asks, invalid, stale, overdue>>,
         \A t \in settingsPage!Tasks, r \in settingsPage!Resources :
           (Made(t, r) => Made(t, r)') /\ (Reloading(t, r) => Reloading(t, r)')
  PROVE  QueriesFresh'
<1> SUFFICES ASSUME NEW r \in settingsPage!Resources PROVE FreshQuery(r)'
  BY DEF QueriesFresh
<1>1. settingsPage!Data(r)' = settingsPage!Data(r)
  BY DataStays
<1> QED
  BY <1>1, FreshStays

\* A new mutation is none of these to the queries.
LEMMA AskFresh ==
  ASSUME SettledInv, NEW t \in settingsPage!Tasks, NEW r, NEW id, NEW value, NEW more,
         settingsPage!Ask(t, r, id, value, more)
  PROVE  QueriesFresh'
<1>1. tasks \in [settingsPage!Tasks -> Task]
  BY DEF SettledInv, SettingsInv, TasksOK, TasksTyped
<1>2. tasks[t].phase = "unused" /\ \A u \in settingsPage!Tasks \ {t} : tasks'[u] = tasks[u]
  BY <1>1 DEF settingsPage!Ask
<1>3. \A u \in settingsPage!Tasks, q \in settingsPage!Resources :
        (Made(u, q) => Made(u, q)') /\ (Reloading(u, q) => Reloading(u, q)')
  BY <1>2 DEF Made, Reloading
<1>4. UNCHANGED <<section, own, shown, asks, invalid, stale, overdue>>
  BY DEF settingsPage!Ask, settingsPage!nav, settingsPage!server, settingsPage!queries
<1> QED
  BY <1>3, <1>4, AllFreshStay DEF SettledInv

\* The component that goes takes its request with it, and the one that comes asks again what is
\* invalid.
LEMMA SectionFresh ==
  ASSUME SettledInv, NEW s \in settingsPage!Resources \cup {"general"},
         settingsPage!setActiveSection(s)
  PROVE  QueriesFresh'
<1>1. tasks \in [settingsPage!Tasks -> Task]
  BY DEF SettledInv, SettingsInv, TasksOK, TasksTyped
<1> SUFFICES ASSUME NEW r \in settingsPage!Resources PROVE FreshQuery(r)'
  BY DEF QueriesFresh
<1>2. \A t \in settingsPage!Tasks : Made(t, r) => Made(t, r)'
  <2> SUFFICES ASSUME NEW t \in settingsPage!Tasks, Made(t, r)
               PROVE  tasks'[t].phase = tasks[t].phase /\ tasks'[t].res = tasks[t].res
    BY DEF Made
  <2>1. tasks'[t] = [tasks[t] EXCEPT !.live = FALSE]
    BY DEF settingsPage!setActiveSection, settingsPage!Out, Made
  <2> DEFINE k == tasks[t]
  <2>2. k \in Task /\ k.phase = "answered"
    BY <1>1 DEF Made
  <2> HIDE DEF k
  <2>3. [k EXCEPT !.live = FALSE].phase = k.phase /\ [k EXCEPT !.live = FALSE].res = k.res
    BY <2>2 DEF Task
  <2> QED
    BY <2>1, <2>3 DEF k
<1>3. UNCHANGED <<own, shown, invalid, stale>> /\ section' = s /\ overdue' = invalid
  BY DEF settingsPage!setActiveSection, settingsPage!server
<1>4. PICK again \in BOOLEAN :
        /\ asks'[r].phase = IF r = s /\ again THEN "asked" ELSE "none"
        /\ r = s /\ r \in invalid => again
  <2> DEFINE may == IF s \in settingsPage!Resources /\ shown[s] # None /\ s \notin invalid
                    THEN BOOLEAN ELSE {TRUE}
  <2>1. PICK again \in may :
          asks' = [x \in settingsPage!Resources |-> [phase |-> IF x = s /\ again THEN "asked" ELSE "none"]]
    BY DEF settingsPage!setActiveSection
  <2>2. again \in BOOLEAN /\ (s \in invalid => again)
    OBVIOUS
  <2>3. asks'[r].phase = IF r = s /\ again THEN "asked" ELSE "none"
    BY <2>1
  <2> QED
    BY <2>2, <2>3
<1>5. Fresh(r) /\ settingsPage!Data(r)' = settingsPage!Data(r)
  BY <1>3, DataStays DEF SettledInv, QueriesFresh, FreshQuery
<1>6. Fresh(r)'
  BY <1>2, <1>3, <1>4, <1>5 DEF Fresh
<1>7. AskedAgain(r)' /\ Idle(r)'
  BY <1>3, <1>4 DEF AskedAgain, Idle
<1> QED
  BY <1>6, <1>7 DEF FreshQuery

\* An answer brings what the server has, or what a mutation made since will ask for again; the
\* end of a reload leaves the other queries alone.
LEMMA QueriesStayFresh ==
  ASSUME SettledInv, NEW q \in settingsPage!Resources,
         settingsPage!Handled(q) \/ settingsPage!QueryReturns(q) \/ settingsPage!QueryFails(q)
  PROVE  QueriesFresh'
<1>1. /\ own' = own /\ section' = section
      /\ \A r \in settingsPage!Resources \ {q} :
           /\ asks'[r] = asks[r] /\ shown'[r] = shown[r] /\ (r \in stale => r \in stale')
           /\ (r \in invalid <=> r \in invalid') /\ (r \in overdue => r \in overdue')
  BY DEF SettledInv, SettingsInv, SettingsTyped, settingsPage!Handled, settingsPage!QueryReturns,
    settingsPage!QueryFails, settingsPage!server, settingsPage!nav
<1>2. \A t \in settingsPage!Tasks, r \in settingsPage!Resources :
        (Made(t, r) => Made(t, r)') /\ (r # q /\ Reloading(t, r) => Reloading(t, r)')
  BY DEF settingsPage!Handled, settingsPage!QueryReturns, settingsPage!QueryFails,
    settingsPage!FinishReloads, Made, Reloading
<1> SUFFICES ASSUME NEW r \in settingsPage!Resources PROVE FreshQuery(r)'
  BY DEF QueriesFresh
<1>3. settingsPage!Data(r)' = settingsPage!Data(r)
  BY <1>1, DataStays
<1>4. CASE r # q
  BY <1>1, <1>2, <1>3, <1>4, FreshStays DEF SettledInv
<1>5. CASE r = q
  <2>1. Fresh(q) /\ AskedAgain(q) /\ Idle(q)
    BY DEF SettledInv, QueriesFresh, FreshQuery
  <2>2. asks \in [dict : Query(Dictionaries), perm : Query(Permissions), ai : Query(settingsPage!Config)]
        /\ shown \in [dict : Dictionaries \cup {None}, perm : Permissions \cup
              {None}, ai : settingsPage!Config \cup {None}]
    BY DEF SettledInv, SettingsInv, SettingsTyped
  <2>3. CASE settingsPage!Handled(q)
    <3>1. /\ asks'[q].phase = "answered" /\ asks'[q].ans = settingsPage!Data(q) /\
                asks[q].phase = "asked"
          /\ UNCHANGED <<shown, invalid, stale, overdue, tasks>>
      BY <2>2, <2>3 DEF settingsPage!Handled, settingsPage!forms
    <3>2. Fresh(q)'
      BY <1>2, <1>3, <1>5, <2>1, <3>1 DEF Fresh
    <3>3. AskedAgain(q)' /\ Idle(q)'
      BY <1>1, <2>1, <3>1 DEF AskedAgain, Idle, Reloading
    <3> QED
      BY <1>5, <3>2, <3>3 DEF FreshQuery
  <2>4. CASE settingsPage!QueryReturns(q)
    <3>1. /\ asks[q].phase = "answered" /\ asks'[q].phase = "none" /\ shown'[q] = asks[q].ans
          /\ q \notin invalid'
          /\ stale' = IF asks[q].ans = settingsPage!Data(q) THEN stale \ {q} ELSE stale
      BY <2>2, <2>4 DEF settingsPage!QueryReturns
    <3>2. Fresh(q)'
      BY <1>2, <1>3, <1>5, <2>1, <3>1 DEF Fresh
    <3> QED
      BY <1>5, <3>1, <3>2 DEF FreshQuery, AskedAgain, Idle
  <2>5. CASE settingsPage!QueryFails(q)
    <3>1. q \in stale' /\ asks'[q].phase = "none"
      BY <2>2, <2>5 DEF settingsPage!QueryFails
    <3> QED
      BY <1>5, <3>1 DEF FreshQuery, Fresh, AskedAgain, Idle
  <2> QED
    BY <2>3, <2>4, <2>5
<1> QED
  BY <1>4, <1>5

\* A mutation that is made is not told of yet.
LEMMA HandledFresh ==
  ASSUME SettledInv, NEW t \in settingsPage!Tasks,
         settingsPage!KeyIsRead(t) \/ settingsPage!TaskHandled(t)
  PROVE  QueriesFresh'
<1> DEFINE q == tasks[t].res
<1>1. /\ tasks \in [settingsPage!Tasks -> Task] /\ tasks[t].phase \in {"asked", "keyed"}
      /\ q \in settingsPage!Resources
  BY DEF SettledInv, SettingsInv, TasksOK, TasksTyped, Task, settingsPage!TaskHandled,
    settingsPage!KeyIsRead
<1>2. UNCHANGED <<section, shown, asks, invalid, stale, overdue>>
  BY DEF settingsPage!TaskHandled, settingsPage!KeyIsRead, settingsPage!queries, settingsPage!nav
<1>3. ASSUME NEW u \in settingsPage!Tasks
      PROVE  \/ tasks'[u] = tasks[u] \/ tasks[u].phase \in {"asked", "keyed"}
  BY <1>1 DEF settingsPage!TaskHandled, settingsPage!KeyIsRead, settingsPage!Overtakes
<1>4. \A u \in settingsPage!Tasks, r \in settingsPage!Resources :
        (Made(u, r) => Made(u, r)') /\ (Reloading(u, r) => Reloading(u, r)')
  BY <1>3 DEF Made, Reloading
<1> SUFFICES ASSUME NEW r \in settingsPage!Resources PROVE FreshQuery(r)'
  BY DEF QueriesFresh
<1>5. CASE own'[r] = own[r]
  BY <1>2, <1>4, <1>5, DataStays, FreshStays DEF SettledInv
<1>6. CASE own'[r] # own[r]
  <2>1. settingsPage!TaskHandled(t) /\ ~settingsPage!Refused(t)
    BY <1>6 DEF settingsPage!TaskHandled, settingsPage!KeyIsRead, settingsPage!server
  <2>2. r = q
    BY <1>1, <1>6, <2>1 DEF settingsPage!TaskHandled, settingsPage!updateAIConfig, SettledInv,
      SettingsInv, SettingsTyped
  <2>3. Made(t, r)'
    <3>1. tasks'[t] = [tasks[t] EXCEPT !.phase = "answered"]
      BY <2>1 DEF settingsPage!TaskHandled
    <3> DEFINE k == tasks[t]
    <3>2. k \in Task /\ k.phase \in {"asked", "keyed"}
      BY <1>1
    <3> HIDE DEF k
    <3>3. [k EXCEPT !.phase = "answered"].phase = "answered" /\ [k EXCEPT !.phase =
            "answered"].res = k.res
      BY <3>2 DEF Task
    <3> QED
      BY <2>2, <3>1, <3>3 DEF Made, k
  <2>4. Fresh(r)'
    BY <2>3 DEF Fresh
  <2>5. AskedAgain(r) /\ Idle(r)
    BY DEF SettledInv, QueriesFresh, FreshQuery
  <2>6. AskedAgain(r)' /\ Idle(r)'
    BY <1>2, <1>4, <2>5 DEF AskedAgain, Idle
  <2> QED
    BY <2>4, <2>6 DEF FreshQuery
<1> QED
  BY <1>5, <1>6

\* Telling of a mutation invalidates the query, and a lost answer is what `stale` records.
LEMMA MutationsFresh ==
  ASSUME SettledInv, NEW t \in settingsPage!Tasks,
         settingsPage!TaskLost(t) \/ settingsPage!TaskReturns(t)
  PROVE  QueriesFresh'
<1> DEFINE q == tasks[t].res
<1>1. /\ tasks \in [settingsPage!Tasks -> Task] /\ shown' = shown /\ own' = own /\ section' = section
      /\ asks \in [dict : Query(Dictionaries), perm : Query(Permissions), ai : Query(settingsPage!Config)]
  BY DEF SettledInv, SettingsInv, SettingsTyped, TasksOK, TasksTyped,
    settingsPage!TaskLost, settingsPage!TaskReturns, settingsPage!server, settingsPage!nav
<1>2. /\ \A u \in settingsPage!Tasks \ {t} : tasks'[u] = tasks[u]
      /\ tasks[t].phase \in {"asked", "answered"} /\ q \in settingsPage!Resources /\ tasks[t] \in Task
  BY <1>1 DEF settingsPage!TaskLost, settingsPage!TaskReturns, Task
<1>3. \A u \in settingsPage!Tasks, r \in settingsPage!Resources :
        /\ Reloading(u, r) => Reloading(u, r)'
        /\ (r # q \/ ~Made(t, r)) => (Made(u, r) => Made(u, r)')
  BY <1>2 DEF Made, Reloading
<1> SUFFICES ASSUME NEW r \in settingsPage!Resources PROVE FreshQuery(r)'
  BY DEF QueriesFresh
<1>4. settingsPage!Data(r)' = settingsPage!Data(r) /\ Fresh(r) /\ AskedAgain(r) /\ Idle(r)
  BY <1>1, DataStays DEF SettledInv, QueriesFresh, FreshQuery
<1>5. CASE settingsPage!TaskLost(t)
  <2>1. UNCHANGED <<asks, invalid, overdue>> /\ stale' = IF tasks[t].phase = "answered" THEN stale \cup
          {q} ELSE stale
    BY <1>5 DEF settingsPage!TaskLost
  <2>2. CASE r = q /\ tasks[t].phase = "answered"
    BY <1>1, <1>4, <2>1, <2>2 DEF FreshQuery, Fresh, AskedAgain, Idle
  <2>3. CASE r # q \/ tasks[t].phase # "answered"
    <3>1. \A u \in settingsPage!Tasks : (Made(u, r) => Made(u, r)') /\ (Reloading(u, r) =>
            Reloading(u, r)')
      BY <1>3, <2>3 DEF Made
    <3> QED
      BY <1>1, <1>4, <2>1, <3>1, FreshStays DEF SettledInv
  <2> QED
    BY <2>2, <2>3
<1>6. CASE settingsPage!TaskReturns(t)
  <2>1. /\ invalid' = invalid \cup {q}
        /\ IF section = q THEN asks' = settingsPage!Refetched(q) /\ overdue' = overdue \ {q}
           ELSE UNCHANGED <<asks, overdue>>
        /\ stale' = IF section = q /\ settingsPage!Joins(q) THEN stale \cup {q} ELSE stale \ {q}
    BY <1>6 DEF settingsPage!TaskReturns, settingsPage!Invalidated
  <2>2. CASE r # q
    <3>1. /\ asks'[r] = asks[r] /\ (r \in stale => r \in stale') /\ (r \in overdue => r \in overdue')
          /\ (r \in invalid <=> r \in invalid')
      BY <1>1, <1>2, <2>1, <2>2 DEF settingsPage!Refetched
    <3>2. \A u \in settingsPage!Tasks : (Made(u, r) => Made(u, r)') /\ (Reloading(u, r) =>
            Reloading(u, r)')
      BY <1>3, <2>2
    <3> QED
      BY <1>1, <1>4, <3>1, <3>2, FreshStays DEF SettledInv
  <2>3. CASE r = q /\ section # q
    BY <1>1, <1>4, <2>1, <2>3 DEF FreshQuery, Fresh, AskedAgain, Idle
  <2>4. CASE r = q /\ section = q /\ settingsPage!Joins(q)
    BY <1>1, <2>1, <2>4 DEF FreshQuery, Fresh, AskedAgain, Idle
  <2>5. CASE r = q /\ section = q /\ ~settingsPage!Joins(q)
    <3>1. asks'[r].phase = "asked"
      BY <1>1, <1>2, <2>1, <2>5 DEF settingsPage!Refetched
    <3>2. r = "dict" => Reloading(t, r)'
      <4> SUFFICES ASSUME r = "dict" PROVE Reloading(t, r)'
        OBVIOUS
      <4>1. tasks'[t] = [tasks[t] EXCEPT !.phase = "reloading"]
        BY <1>1, <1>6, <2>5 DEF settingsPage!TaskReturns
      <4> DEFINE k == tasks[t]
      <4>2. k \in Task /\ k.phase = "answered"
        BY <1>2, <1>6 DEF settingsPage!TaskReturns
      <4> HIDE DEF k
      <4>3. [k EXCEPT !.phase = "reloading"].phase = "reloading" /\ [k EXCEPT !.phase =
              "reloading"].res = k.res
        BY <4>2 DEF Task
      <4> QED
        BY <2>5, <4>1, <4>3 DEF Reloading, k
    <3>3. r \in invalid'
      BY <2>1, <2>5
    <3> QED
      BY <1>1, <2>5, <3>1, <3>2, <3>3 DEF FreshQuery, Fresh, AskedAgain, Idle
  <2> QED
    BY <2>2, <2>3, <2>4, <2>5
<1> QED
  BY <1>5, <1>6

LEMMA NextFresh ==
  ASSUME SettledInv, [settingsPage!Next]_(settingsPage!vars)
  PROVE  QueriesFresh'
<1>0. ASSUME UNCHANGED <<section, own, shown, asks, invalid, stale, overdue, tasks>> PROVE QueriesFresh'
  BY <1>0, AllFreshStay DEF SettledInv, Made, Reloading
<1>1. CASE settingsPage!Queries
  BY <1>1, QueriesStayFresh DEF settingsPage!Queries
<1>2. CASE settingsPage!CardEdits
  BY <1>0, <1>2, AskFresh DEF settingsPage!CardEdits, settingsPage!CardFrame,
    settingsPage!handleProviderChange, settingsPage!setApiKey, settingsPage!useAIModels,
    settingsPage!setModel, settingsPage!setThinking, settingsPage!handleReset,
    settingsPage!handleSave, settingsPage!nav, settingsPage!server, settingsPage!queries
<1>3. CASE settingsPage!Dialogs
  BY <1>0, <1>3, AskFresh DEF settingsPage!Dialogs, settingsPage!openCreate,
    settingsPage!EditDictionary, settingsPage!CloseDialog, settingsPage!setEditTarget,
    settingsPage!handleSubmit, settingsPage!handleDelete, settingsPage!nav, settingsPage!server,
    settingsPage!queries
<1>4. CASE settingsPage!Page
  BY <1>0, <1>4, AskFresh, SectionFresh DEF settingsPage!Page, settingsPage!Type,
    settingsPage!Save, settingsPage!ResetChanges, settingsPage!handleChange, settingsPage!nav,
    settingsPage!server, settingsPage!queries
<1>5. CASE settingsPage!Mutations
  BY <1>5, HandledFresh, MutationsFresh DEF settingsPage!Mutations
<1>6. CASE UNCHANGED settingsPage!vars
  BY <1>0, <1>6 DEF settingsPage!vars, settingsPage!nav, settingsPage!server, settingsPage!queries
<1> QED
  BY <1>1, <1>2, <1>3, <1>4, <1>5, <1>6 DEF settingsPage!Next

\* With no mutation out none is made and untold of and none waits for a reload, so a query that is
\* not being asked is not invalid.
LEMMA SettledNow == SettledInv => settingsPage!SettledPagesAreServers
<1> SUFFICES ASSUME SettledInv, NEW r \in settingsPage!Resources \ stale, section = r,
                    ~settingsPage!Busy(r), shown[r] # None,
                    asks[r].phase = "none" \/ (r = "dict" /\ r \notin overdue)
             PROVE  shown[r] = settingsPage!Data(r)
  BY DEF settingsPage!SettledPagesAreServers
<1>1. \A t \in settingsPage!Tasks : ~Made(t, r) /\ ~Reloading(t, r)
  BY DEF settingsPage!Busy, settingsPage!Out, Made, Reloading
<1>2. Fresh(r) /\ AskedAgain(r)
  BY DEF SettledInv, QueriesFresh, FreshQuery
<1>3. r \notin invalid
  BY <1>1, <1>2 DEF AskedAgain
<1> QED
  BY <1>1, <1>2, <1>3 DEF Fresh

\* The open section shows the dictionaries, permissions and configuration the server has whenever
\* nothing of theirs is out, however mutations, reloads, dialogs and sections were interleaved
\* (the invalidations of dictionaries.ts, aiPermissions.ts and aiConfig.ts).
THEOREM SettledSectionsShowServer ==
  settingsPage!SettingsPageBounds => (settingsPage!Spec => []settingsPage!SettledPagesAreServers)
<1> SUFFICES ASSUME settingsPage!SettingsPageBounds PROVE settingsPage!Spec =>
                      []settingsPage!SettledPagesAreServers
  OBVIOUS
<1>1. settingsPage!Init => SettledInv
  BY InitSettings, InitFresh DEF SettledInv
<1>2. SettledInv /\ [settingsPage!Next]_(settingsPage!vars) => SettledInv'
  BY NextSettings, NextFresh DEF SettledInv
<1> QED
  BY <1>1, <1>2, SettledNow, PTL DEF settingsPage!Spec

-----------------------------------------------------------------------------------
(* The peers page: types.                                                          *)

Rows    == [config : peersPage!Versions, status : peersPage!Statuses]
Settled == {"stopped", "connected", "error"}
Answers == [config : peersPage!Versions \cup {None}, status : peersPage!Statuses]
Ops     == peersPage!Guessed \cup peersPage!Saves \cup {"probe"}
Phases  == {"asked", "second", "answered", "failed"}

ServerTypes ==
  /\ config \in [Peers -> peersPage!Versions \cup {None}] /\ live \in [Peers -> peersPage!Live]
  /\ feeds = [p \in Peers |-> feeds[p]] /\ gone \subseteq Peers
  /\ moves \in Nat /\ edits \in Nat /\ moves + edits <= MaxChanges /\ breaks \in 0..MaxBreaks

IsEvent(e) ==
  /\ e = [peer |-> e.peer, row |-> e.row, feed |-> e.feed, order |-> e.order, last |-> e.last]
  /\ e.peer \in Peers /\ e.row \in Rows /\ e.last \in BOOLEAN

StreamTypes ==
  /\ known = None \/ (DOMAIN known \subseteq Peers /\
        \A p \in DOMAIN known : known[p] \in peersPage!Versions)
  /\ \A e \in events : IsEvent(e)
  /\ known = None => events = {}

IsList(l) == DOMAIN l \subseteq Peers /\ l \in [DOMAIN l -> Rows]

CacheTypes ==
  /\ rows = None \/ IsList(rows)
  /\ details \in [Peers -> Rows \cup {None}]
  /\ listFailed \in BOOLEAN
  /\ \/ fetch = peersPage!Idle \/ fetch = [phase |-> "asked"]
     \/ /\ fetch = [phase |-> "answered", ans |-> fetch.ans, passed |-> fetch.passed]
        /\ IsList(fetch.ans) /\ fetch.passed \subseteq Peers

\* What is known of a call that is out.
IsCall(k) ==
  /\ k \in [phase : Phases, op : Ops, peer : Peers \cup {None}, value : {k.value},
            prev : Rows \cup {None}, ans : Answers \cup {None}, passed : BOOLEAN, late : BOOLEAN]
  /\ k.op = "probe" <=> k.peer = None
  /\ k.op \in {"create", "update"} => k.value \in peersPage!Versions
  /\ k.op = "delete" => k.value = None
  /\ k.prev # None => k.op \in peersPage!Guessed
  /\ k.phase = "second" => k.op = "restart"
  /\ k.phase \in {"answered", "failed"} => k.op # "probe"
  /\ k.phase = "answered" /\ k.op # "delete" => k.ans \in Rows

AreCalls(cs) ==
  /\ cs = [c \in peersPage!Calls |-> cs[c]]
  /\ \A c \in peersPage!Calls : cs[c] = [phase |-> "unused"] \/ cs[c] = [phase |-> "done"] \/
        IsCall(cs[c])

DialogTypes ==
  /\ \/ drawer = peersPage!Closed \/ drawer = [kind |-> "create"]
     \/ /\ drawer = [kind |-> "edit", peer |-> drawer.peer, base |-> drawer.base,
                     call |-> drawer.call, probe |-> drawer.probe]
        /\ drawer.peer \in Peers /\ drawer.base \in peersPage!Versions
  /\ deleteTarget \in Peers \cup {None}
  /\ prompts \subseteq [peer : Peers, restart : BOOLEAN]

PastTypes ==
  /\ lastStatus \in [Peers -> Settled \cup {None}]
  /\ overtaken \subseteq Peers /\ replayed \subseteq Peers /\ missed \subseteq Peers /\ moved \subseteq Peers

PeersTyped ==
  ServerTypes /\ StreamTypes /\ CacheTypes /\ AreCalls(calls) /\ DialogTypes /\ PastTypes

-----------------------------------------------------------------------------------
\* A call passed over is the same call, but for its marks.
LEMMA Passing ==
  ASSUME NEW cs, AreCalls(cs), NEW ps
  PROVE  /\ AreCalls(peersPage!passCalls(cs, ps))
         /\ \A c \in peersPage!Calls :
              LET j == peersPage!passCalls(cs, ps)[c] k == cs[c] IN
              /\ j.phase = k.phase
              /\ k.phase \in Phases =>
                   /\ j.op = k.op /\ j.peer = k.peer /\ j.value = k.value
                   /\ j.prev = k.prev /\ j.ans = k.ans
                   /\ k.peer \in ps =>
                        /\ j.passed = (k.prev # None)
                        /\ j.late = (k.late \/ (k.phase = "answered" /\ k.op # "delete"))
              /\ k.phase \notin Phases \/ k.peer \notin ps => j = k
<1> DEFINE new == peersPage!passCalls(cs, ps)
<1>1. new = [c \in peersPage!Calls |-> new[c]]
  BY DEF peersPage!passCalls
<1>2. ASSUME NEW c \in peersPage!Calls
      PROVE  LET j == new[c] k == cs[c] IN
             /\ j = [phase |-> "unused"] \/ j = [phase |-> "done"] \/ IsCall(j)
             /\ j.phase = k.phase
             /\ k.phase \in Phases =>
                  /\ j.op = k.op /\ j.peer = k.peer /\ j.value = k.value
                  /\ j.prev = k.prev /\ j.ans = k.ans
                  /\ k.peer \in ps =>
                       /\ j.passed = (k.prev # None)
                       /\ j.late = (k.late \/ (k.phase = "answered" /\ k.op # "delete"))
             /\ k.phase \notin Phases \/ k.peer \notin ps => j = k
  <2>1. CASE cs[c].phase \in Phases /\ cs[c].peer \in ps
    <3>1. IsCall(cs[c])
      BY <2>1 DEF AreCalls, Phases
    <3>2. new[c] = [cs[c] EXCEPT !.passed = cs[c].prev # None,
                                 !.late = @ \/ (cs[c].phase = "answered" /\ cs[c].op # "delete")]
      BY <2>1 DEF peersPage!passCalls, Phases
    <3> HIDE DEF new
    <3>3. new[c] = [phase |-> cs[c].phase, op |-> cs[c].op, peer |-> cs[c].peer, value |-> cs[c].value,
                    prev |-> cs[c].prev, ans |-> cs[c].ans, passed |-> cs[c].prev # None,
                    late |-> (cs[c].late \/ (cs[c].phase = "answered" /\ cs[c].op # "delete"))]
      BY <3>1, <3>2 DEF IsCall
    <3> QED BY <2>1, <3>1, <3>3 DEF IsCall
  <2>2. CASE ~(cs[c].phase \in Phases /\ cs[c].peer \in ps)
    <3>1. new[c] = cs[c]
      BY <2>2 DEF peersPage!passCalls, Phases
    <3> HIDE DEF new
    <3> QED BY <2>2, <3>1 DEF AreCalls
  <2> QED BY <2>1, <2>2
<1> HIDE DEF new
<1> QED BY <1>1, <1>2 DEF AreCalls, new

\* Every write of the list leaves a list, and a settled status in the toasts' record.
LEMMA Writing ==
  ASSUME CacheTypes, PastTypes, NEW new, rows # None => IsList(new), peersPage!setList(new)
  PROVE  /\ rows' = None \/ IsList(rows')
         /\ listFailed' \in BOOLEAN
         /\ lastStatus' \in [Peers -> Settled \cup {None}] /\ moved' \subseteq Peers
<1>1. CASE rows = None
  BY <1>1 DEF peersPage!setList, PastTypes, CacheTypes
<1>2. CASE rows # None
  <2>1. rows' = new /\ listFailed' = FALSE /\ peersPage!observe(new) /\ peersPage!forgetMoves /\ IsList(new)
    BY <1>2 DEF peersPage!setList
  <2>2. lastStatus' \in [Peers -> Settled \cup {None}]
    BY <2>1 DEF peersPage!observe, IsList, Rows, peersPage!Statuses, peersPage!Live,
      peersPage!Transient, Settled, PastTypes
  <2>3. moved' \subseteq Peers
    BY <2>1 DEF peersPage!forgetMoves, PastTypes
  <2> QED BY <2>1, <2>2, <2>3
<1> QED BY <1>1, <1>2

LEMMA Patching ==
  ASSUME CacheTypes, NEW p, NEW row \in Rows
  PROVE  rows # None => IsList(peersPage!patch(p, row))
BY DEF CacheTypes, peersPage!patch, IsList, peersPage!Listed

LEMMA WritingCaches ==
  ASSUME CacheTypes, PastTypes, NEW p \in Peers, NEW row \in Rows, peersPage!writePeerToCaches(p,
         row)
  PROVE  /\ rows' = None \/ IsList(rows')
         /\ details' \in [Peers -> Rows \cup {None}] /\ listFailed' \in BOOLEAN
         /\ lastStatus' \in [Peers -> Settled \cup {None}] /\ moved' \subseteq Peers
<1>1. details' \in [Peers -> Rows \cup {None}]
  BY DEF peersPage!writePeerToCaches, CacheTypes
<1>2. peersPage!setList(peersPage!patch(p, row)) /\ (rows # None => IsList(peersPage!patch(p, row)))
  BY Patching DEF peersPage!writePeerToCaches
<1> QED BY <1>1, <1>2, Writing

LEMMA CachedIsRow ==
  ASSUME CacheTypes, NEW p
  PROVE  peersPage!Cached(p) \in Rows \cup {None}
BY DEF CacheTypes, peersPage!Cached, peersPage!Listed, IsList

\* What a guess writes.
LEMMA Guessing ==
  ASSUME CacheTypes, PastTypes, NEW p \in Peers, NEW status \in peersPage!Statuses,
         peersPage!optimisticStatusPatch(p, status)
  PROVE  /\ rows' = None \/ IsList(rows')
         /\ details' \in [Peers -> Rows \cup {None}] /\ listFailed' \in BOOLEAN
         /\ lastStatus' \in [Peers -> Settled \cup {None}] /\ moved' \subseteq Peers
<1>1. CASE peersPage!Cached(p) = None
  BY <1>1 DEF peersPage!optimisticStatusPatch, CacheTypes, PastTypes
<1>2. CASE peersPage!Cached(p) # None
  <2>1. peersPage!Cached(p) \in Rows
    BY <1>2, CachedIsRow
  <2>2. [peersPage!Cached(p) EXCEPT !.status = status] \in Rows
    BY <2>1 DEF Rows
  <2> QED
    BY <1>2, <2>2, WritingCaches DEF peersPage!optimisticStatusPatch
<1> QED BY <1>1, <1>2

LEMMA Asking ==
  ASSUME AreCalls(calls), CacheTypes, NEW c \in peersPage!Calls, NEW op \in Ops,
         NEW p \in Peers \cup {None},
         NEW value, peersPage!Ask(c, op, p, value), op = "probe" <=> p = None,
         op \in {"create", "update"} => value \in peersPage!Versions, op = "delete" => value = None
  PROVE  AreCalls(calls')
<1> DEFINE prev == IF op \in peersPage!Guessed THEN peersPage!Cached(p) ELSE None
           passed == prev # None /\ peersPage!Listed(p) /\ prev # rows[p]
           k == [phase |-> "asked", op |-> op, peer |-> p, value |-> value, prev |-> prev,
                 ans |-> None, passed |-> passed, late |-> FALSE]
<1>1. calls' = [calls EXCEPT ![c] = k]
  BY DEF peersPage!Ask
<1>2. prev \in Rows \cup {None} /\ (prev # None => op \in peersPage!Guessed)
  BY CachedIsRow
<1>3. IsCall(k)
  <2> HIDE DEF prev
  <2>1. passed \in BOOLEAN
    OBVIOUS
  <2> HIDE DEF passed
  <2> QED BY <1>2, <2>1 DEF IsCall, Phases
<1> HIDE DEF k
<1> QED BY <1>1, <1>3 DEF AreCalls

LEMMA Finishing ==
  ASSUME NEW cs, AreCalls(cs), NEW c \in peersPage!Calls
  PROVE  AreCalls(peersPage!Done(cs, c))
BY DEF AreCalls, peersPage!Done

\* A call that is out becomes one that is answered, or has failed.
LEMMA Changing ==
  ASSUME AreCalls(calls), NEW c \in peersPage!Calls, NEW k, IsCall(k),
         calls' = [calls EXCEPT ![c] = k]
  PROVE  AreCalls(calls')
BY DEF AreCalls

LEMMA InitTypes == peersPage!PeersPageBounds /\ peersPage!Init => PeersTyped
<1> SUFFICES ASSUME peersPage!PeersPageBounds, peersPage!Init PROVE PeersTyped
  OBVIOUS
<1>1. 0 \in peersPage!Versions /\ MaxBreaks \in Nat /\ MaxChanges \in Nat /\ Managed \subseteq Peers
  BY DEF peersPage!PeersPageBounds, peersPage!Versions
<1>2. ServerTypes
  BY <1>1 DEF peersPage!Init, ServerTypes, peersPage!Live, peersPage!Loaded, peersPage!NotLoaded
<1>3. peersPage!listPeers = [p \in Managed |-> [config |-> 0, status |-> live[p]]]
  BY <1>1 DEF peersPage!PeersPageBounds, peersPage!Init, peersPage!listPeers, peersPage!Stored,
    peersPage!toPeerResponse, peersPage!peerStateString
<1>4. IsList(peersPage!listPeers)
  BY <1>1, <1>2, <1>3 DEF IsList, peersPage!PeersPageBounds, ServerTypes, Rows, peersPage!Statuses
<1>5. StreamTypes
  <2>1. events = {}
    BY DEF peersPage!Init
  <2>2. known = None \/ (DOMAIN known \subseteq Peers /\
          \A p \in DOMAIN known : known[p] \in peersPage!Versions)
    <3>1. CASE peersPage!Loaded
      BY <1>1, <1>2, <3>1 DEF peersPage!Loaded, peersPage!Stored, ServerTypes
    <3> QED BY <3>1 DEF peersPage!Init, peersPage!NotLoaded
  <2> QED BY <2>1, <2>2 DEF StreamTypes, peersPage!Init
<1>6. CacheTypes
  BY <1>4 DEF peersPage!Init, CacheTypes, peersPage!Loaded, peersPage!NotLoaded
<1>7. AreCalls(calls)
  BY DEF peersPage!Init, AreCalls
<1>8. DialogTypes
  BY DEF peersPage!Init, DialogTypes
<1>9. PastTypes
  BY DEF peersPage!Init, PastTypes, peersPage!Loaded, peersPage!NotLoaded, Settled,
    peersPage!PeersPageBounds
<1> QED BY <1>2, <1>5, <1>6, <1>7, <1>8, <1>9 DEF PeersTyped

LEMMA ListIsTyped ==
  ASSUME peersPage!PeersPageBounds, ServerTypes
  PROVE  /\ IsList(peersPage!listPeers)
         /\ \A p \in Peers : peersPage!peerStateString(p) \in peersPage!Live
         /\ \A p \in peersPage!Stored : config[p] \in peersPage!Versions
<1>1. \A p \in Peers : peersPage!peerStateString(p) \in peersPage!Live
  BY DEF peersPage!peerStateString, ServerTypes, peersPage!Live
<1>2. \A p \in peersPage!Stored : p \in Peers /\ config[p] \in peersPage!Versions
  BY DEF peersPage!Stored, ServerTypes
<1>3. IsList(peersPage!listPeers)
  BY <1>1, <1>2 DEF IsList, peersPage!listPeers, peersPage!toPeerResponse, Rows, peersPage!Statuses
<1> QED BY <1>1, <1>2, <1>3

LEMMA FetchTypes ==
  ASSUME peersPage!PeersPageBounds, PeersTyped,
         peersPage!FetchHandled \/ peersPage!FetchReturns \/ peersPage!FetchFails \/ peersPage!Retry
  PROVE  PeersTyped'
<1> USE DEF PeersTyped
<1>1. CASE peersPage!FetchHandled
  <2>1. IsList(peersPage!listPeers)
    BY ListIsTyped
  <2>2. CacheTypes'
    BY <1>1, <2>1 DEF peersPage!FetchHandled, CacheTypes, IsList, Rows, peersPage!Statuses,
      peersPage!Live, peersPage!Versions
  <2> QED
    BY <1>1, <2>2 DEF peersPage!FetchHandled, peersPage!server, peersPage!stream,
      peersPage!dialogs, peersPage!past, ServerTypes, StreamTypes,
       DialogTypes, PastTypes
<1>2. CASE peersPage!FetchReturns
  <2>1. IsList(fetch.ans) /\ fetch.passed \subseteq Peers
    BY <1>2 DEF peersPage!FetchReturns, CacheTypes, peersPage!Idle
  <2>2. lastStatus' \in [Peers -> Settled \cup {None}]
    BY <1>2, <2>1 DEF peersPage!FetchReturns, peersPage!observe, IsList, Rows, peersPage!Statuses,
      peersPage!Live, peersPage!Transient, Settled, PastTypes
  <2>3. PastTypes'
    BY <1>2, <2>1, <2>2 DEF peersPage!FetchReturns, PastTypes, peersPage!forgetMoves
  <2>4. CacheTypes'
    BY <1>2, <2>1 DEF peersPage!FetchReturns, CacheTypes
  <2>5. AreCalls(calls')
    BY <1>2, Passing DEF peersPage!FetchReturns
  <2> QED
    BY <1>2, <2>3, <2>4, <2>5 DEF peersPage!FetchReturns, peersPage!server, peersPage!stream,
      peersPage!dialogs, ServerTypes, StreamTypes,
       DialogTypes
<1>3. CASE peersPage!FetchFails
  <2>1. AreCalls(calls')
    <3>1. ASSUME NEW c \in peersPage!Calls, peersPage!Out(c) /\ calls[c].op \in peersPage!Guessed
          PROVE  IsCall([calls[c] EXCEPT !.value = None])
      <4>1. IsCall(calls[c])
        BY <1>3, <3>1 DEF AreCalls, peersPage!Out
      <4> QED BY <3>1, <4>1 DEF IsCall, peersPage!Guessed
    <3> QED BY <1>3, <3>1 DEF peersPage!FetchFails, AreCalls
  <2>2. breaks' \in 0..MaxBreaks
    BY <1>3 DEF peersPage!FetchFails, ServerTypes, peersPage!PeersPageBounds
  <2> QED
    BY <1>3, <2>1, <2>2 DEF peersPage!FetchFails, peersPage!server, peersPage!dialogs,
      peersPage!Stored, ServerTypes, StreamTypes, CacheTypes, DialogTypes, PastTypes
<1>4. CASE peersPage!Retry
  BY <1>4 DEF peersPage!Retry, peersPage!server, peersPage!stream, peersPage!dialogs,
    peersPage!past, ServerTypes, StreamTypes, CacheTypes,
     DialogTypes, PastTypes
<1> QED BY <1>1, <1>2, <1>3, <1>4

\* A change of the connection is told by one event of each goroutine, and these are the last.
LEMMA Published ==
  ASSUME StreamTypes, NEW p \in Peers, NEW status \in peersPage!Live, NEW fs,
         peersPage!publish(p, status, fs), known # None, p \in DOMAIN known
  PROVE  /\ \A e \in events' : IsEvent(e) /\ (e.peer = p \/ e \in events)
         /\ \A e \in events' : e.peer = p /\ e.last => e.row.status = status
         /\ \A e \in events : e.peer # p => e \in events'
         /\ fs # {} => \E e \in events' : e.peer = p /\ e.last
<1> DEFINE order == CHOOSE n \in 1..(MaxChanges + 2 * MaxCalls) : \A e \in peersPage!EventsOf(p) : e.order < n
           row == [config |-> known[p], status |-> status]
           mark(e) == IF e.peer = p THEN [e EXCEPT !.last = FALSE] ELSE e
           new(f) == peersPage!Event(p, row, f, order)
<1>1. events' = {mark(e) : e \in events} \cup {new(f) : f \in fs}
  BY DEF peersPage!publish
<1>2. row \in Rows
  BY DEF StreamTypes, Rows, peersPage!Statuses
<1>3. \A f : new(f) = [peer |-> p, row |-> row, feed |-> f, order |-> order, last |-> TRUE] /\ row.status = status
  BY DEF peersPage!Event
<1> HIDE DEF order, row
<1>4. ASSUME NEW f
      PROVE  IsEvent(new(f)) /\ new(f).peer = p /\ new(f).last /\ new(f).row.status = status
  <2>1. new(f) = [peer |-> p, row |-> row, feed |-> f, order |-> order, last |-> TRUE] /\ row.status = status
    BY <1>3
  <2> HIDE DEF new
  <2> QED BY <1>2, <2>1 DEF IsEvent
<1>5. ASSUME NEW e \in events
      PROVE  /\ IsEvent(mark(e)) /\ mark(e).peer = e.peer
             /\ e.peer = p => ~mark(e).last
             /\ e.peer # p => mark(e) = e
  <2>1. e = [peer |-> e.peer, row |-> e.row, feed |-> e.feed, order |-> e.order, last |-> e.last]
        /\ e.peer \in Peers /\ e.row \in Rows /\ e.last \in BOOLEAN
    BY DEF StreamTypes, IsEvent
  <2>2. CASE e.peer = p
    <3>1. mark(e) = [peer |-> e.peer, row |-> e.row, feed |-> e.feed, order |-> e.order, last |-> FALSE]
      BY <2>1, <2>2
    <3> HIDE DEF mark
    <3> QED BY <2>1, <2>2, <3>1 DEF IsEvent
  <2>3. CASE e.peer # p
    <3>1. mark(e) = [peer |-> e.peer, row |-> e.row, feed |-> e.feed, order |-> e.order, last |-> e.last]
      BY <2>1, <2>3
    <3> HIDE DEF mark
    <3> QED BY <2>1, <2>3, <3>1 DEF IsEvent
  <2> QED BY <2>2, <2>3
<1> HIDE DEF mark, new
<1>6. ASSUME NEW e \in events' PROVE IsEvent(e) /\ (e.peer = p \/ e \in events) /\ (e.peer = p /\ e.last => e.row.status = status)
  BY <1>1, <1>4, <1>5
<1>7. ASSUME NEW e \in events, e.peer # p PROVE e \in events'
  BY <1>1, <1>5, <1>7
<1>8. ASSUME NEW f \in fs PROVE new(f) \in events'
  BY <1>1
<1> QED BY <1>4, <1>6, <1>7, <1>8

LEMMA Publishing ==
  ASSUME StreamTypes, NEW p \in Peers, NEW status \in peersPage!Live, NEW fs,
         peersPage!publish(p, status, fs), UNCHANGED known
  PROVE  StreamTypes'
<1>1. CASE known # None /\ p \in DOMAIN known
  <2>1. \A e \in events' : IsEvent(e)
    BY <1>1, Published
  <2> QED BY <1>1, <2>1 DEF StreamTypes, IsEvent
<1>2. CASE ~(known # None /\ p \in DOMAIN known)
  BY <1>2 DEF peersPage!publish, StreamTypes, IsEvent
<1> QED BY <1>1, <1>2

LEMMA StreamStepTypes ==
  ASSUME peersPage!PeersPageBounds, PeersTyped,
         peersPage!StreamOpens \/ peersPage!StreamBreaks \/ peersPage!Moves
  PROVE  PeersTyped'
<1> USE DEF PeersTyped
<1>1. CASE peersPage!StreamOpens
  <2>3. IsList(peersPage!listPeers) /\ DOMAIN peersPage!listPeers = peersPage!Stored /\
          peersPage!Stored \subseteq Peers
    BY ListIsTyped DEF peersPage!listPeers, peersPage!Stored
  <2>4. events' = {peersPage!Event(p, peersPage!listPeers[p], 0, 0) : p \in peersPage!Stored}
    BY <1>1 DEF peersPage!StreamOpens
  <2>5. \A e \in events' : IsEvent(e)
    <3>1. \A p \in peersPage!Stored : p \in Peers /\ peersPage!listPeers[p] \in Rows
      BY <2>3 DEF IsList
    <3>2. \A p \in peersPage!Stored : IsEvent(peersPage!Event(p, peersPage!listPeers[p], 0, 0))
      BY <3>1 DEF peersPage!Event, IsEvent
    <3> QED BY <2>4, <3>2
  <2>6. known' \in [peersPage!Stored -> peersPage!Versions] /\ known' # None
    <3>1. known' \in [peersPage!Stored -> peersPage!Versions] /\ peersPage!Stored \in SUBSET Peers
      BY <1>1, ListIsTyped DEF peersPage!StreamOpens, peersPage!Stored
    <3>2. None \notin [peersPage!Stored -> peersPage!Versions]
      BY <3>1 DEF peersPage!PeersPageBounds
    <3> QED BY <3>1, <3>2
  <2>7. StreamTypes'
    BY <2>3, <2>5, <2>6 DEF StreamTypes, IsEvent
  <2> QED
    BY <1>1, <2>7 DEF peersPage!StreamOpens, peersPage!server, peersPage!cache, peersPage!dialogs,
      peersPage!past, ServerTypes, CacheTypes, DialogTypes,
       PastTypes
<1>2. CASE peersPage!StreamBreaks
  <2>1. breaks' \in 0..MaxBreaks
    BY <1>2 DEF peersPage!StreamBreaks, ServerTypes, peersPage!PeersPageBounds
  <2>2. StreamTypes'
    BY <1>2 DEF peersPage!StreamBreaks, StreamTypes
  <2>3. CacheTypes'
    BY <1>2 DEF peersPage!StreamBreaks, CacheTypes, peersPage!Refetched
  <2> QED
    BY <1>2, <2>1, <2>2, <2>3 DEF peersPage!StreamBreaks, peersPage!server, peersPage!dialogs,
      peersPage!past, ServerTypes, DialogTypes,
       PastTypes
<1>3. CASE peersPage!Moves
  <2>1. PICK p \in Managed, next \in peersPage!Live :
          live' = [live EXCEPT ![p] = next] /\ peersPage!publish(p, next, feeds[p]) /\ moved' = moved \cup {p}
    BY <1>3 DEF peersPage!Moves
  <2>2. StreamTypes'
    BY <1>3, <2>1, Publishing DEF peersPage!Moves, peersPage!PeersPageBounds
  <2>3. ServerTypes'
    BY <1>3, <2>1 DEF peersPage!Moves, peersPage!dialogs, ServerTypes, peersPage!PeersPageBounds
  <2>4. PastTypes'
    BY <1>3, <2>1 DEF peersPage!Moves, PastTypes, peersPage!PeersPageBounds
  <2> QED
    BY <1>3, <2>2, <2>3, <2>4
    DEF peersPage!Moves, peersPage!cache, peersPage!dialogs, CacheTypes, DialogTypes
<1> QED BY <1>1, <1>2, <1>3

\* The list request that is passed over is the same, but for its marks.
LEMMA PassingFetch ==
  ASSUME CacheTypes, NEW ps \in SUBSET Peers
  PROVE  LET new == peersPage!passFetch(ps) IN
         /\ \/ new = peersPage!Idle \/ new = [phase |-> "asked"]
            \/ /\ new = [phase |-> "answered", ans |-> new.ans, passed |-> new.passed]
               /\ IsList(new.ans) /\ new.passed \subseteq Peers
         /\ new.phase = fetch.phase
         /\ fetch.phase = "answered" => new.ans = fetch.ans /\ new.passed = fetch.passed \cup ps
BY DEF CacheTypes, peersPage!passFetch, peersPage!Idle

LEMMA EventTypes ==
  ASSUME peersPage!PeersPageBounds, PeersTyped, NEW e \in events, peersPage!applyPeerUpdated(e)
  PROVE  PeersTyped'
<1> USE DEF PeersTyped
<1> DEFINE p == e.peer
           row == e.row
           new == [q \in DOMAIN rows \cup {p} |-> IF q = p THEN row ELSE rows[q]]
<1>1. IsEvent(e) /\ (\A d \in events' : IsEvent(d)) /\ known # None
  BY DEF peersPage!applyPeerUpdated, StreamTypes
<1>2. p \in Peers /\ row \in Rows
  BY <1>1 DEF IsEvent
<1>3. /\ details' = [details EXCEPT ![p] = row] /\ peersPage!setList(new)
      /\ overtaken' = overtaken \ {p} /\ replayed' \in {replayed \cup {p}, replayed \ {p}}
      /\ fetch' = peersPage!passFetch({p}) /\ calls' = peersPage!passCalls(calls, {p})
      /\ missed' = missed \ {p}
  BY DEF peersPage!applyPeerUpdated
<1> HIDE DEF p, row
<1>4. rows # None => IsList(new)
  BY <1>2 DEF CacheTypes, IsList
<1> HIDE DEF new
<1>5. StreamTypes'
  BY <1>1 DEF peersPage!applyPeerUpdated, StreamTypes, IsEvent
<1>6. AreCalls(calls')
  BY <1>3, Passing
<1>7. CacheTypes'
  <2>1. (rows' = None \/ IsList(rows')) /\ listFailed' \in BOOLEAN
    BY <1>3, <1>4, Writing
  <2>2. \/ fetch' = peersPage!Idle \/ fetch' = [phase |-> "asked"]
        \/ /\ fetch' = [phase |-> "answered", ans |-> fetch'.ans, passed |-> fetch'.passed]
           /\ IsList(fetch'.ans) /\ fetch'.passed \subseteq Peers
    BY <1>2, <1>3, PassingFetch
  <2>3. details' \in [Peers -> Rows \cup {None}]
    BY <1>2, <1>3 DEF CacheTypes
  <2> QED BY <2>1, <2>2, <2>3 DEF CacheTypes
<1>8. PastTypes'
  BY <1>2, <1>3, <1>4, Writing DEF PastTypes
<1> QED
  BY <1>5, <1>6, <1>7, <1>8
  DEF peersPage!applyPeerUpdated, peersPage!server, peersPage!dialogs, ServerTypes, DialogTypes

LEMMA HandlerTypes ==
  ASSUME peersPage!PeersPageBounds, PeersTyped, NEW c \in peersPage!Calls, peersPage!Handler(c)
  PROVE  PeersTyped'
<1> USE DEF PeersTyped
<1> DEFINE p == calls[c].peer
<1>1. IsCall(calls[c])
  <2>1. calls[c].phase \in {"asked", "second", "answered"}
    BY DEF peersPage!Handler, peersPage!startPeer, peersPage!stopPeer, peersPage!saveOrDelete,
      peersPage!CallFails
  <2> QED BY <2>1 DEF AreCalls
<1>2. CacheTypes' \/ peersPage!CallFails(c)
  BY DEF peersPage!Handler, peersPage!startPeer, peersPage!stopPeer, peersPage!saveOrDelete,
    peersPage!HandledFrame, peersPage!cache, CacheTypes
<1>3. IsCall([calls[c] EXCEPT !.phase = "failed"]) \/ calls[c].op = "probe"
  BY <1>1 DEF IsCall, Phases
<1>4. ASSUME NEW ans \in Rows, NEW late \in BOOLEAN, calls[c].op # "probe"
      PROVE  IsCall([calls[c] EXCEPT !.phase = "answered", !.ans = ans, !.late = late])
  BY <1>1, <1>4 DEF IsCall, Phases, Rows, Answers
<1>5. CASE peersPage!startPeer(c)
  <2>1. calls[c].op \in {"start", "restart"} /\ p \in Peers
    BY <1>1, <1>5 DEF peersPage!startPeer, IsCall
  <2>2. ServerTypes' /\ StreamTypes' /\ PastTypes'
    <3>1. CASE UNCHANGED <<live, feeds, events, moved>>
      BY <1>5, <3>1 DEF peersPage!startPeer, peersPage!HandledFrame, peersPage!dialogs,
        ServerTypes, StreamTypes, PastTypes
    <3>2. CASE /\ live' = [live EXCEPT ![p] = "connecting"] /\ peersPage!publish(p, "connecting", feeds'[p])
               /\ feeds' = [feeds EXCEPT ![p] = @ \cup {c}]
               /\ moved' = moved \cup {p}
      <4>1. StreamTypes'
        BY <1>5, <2>1, <3>2, Publishing
        DEF peersPage!startPeer, peersPage!HandledFrame, peersPage!Live
      <4> QED
        BY <1>5, <2>1, <3>2, <4>1 DEF peersPage!startPeer, peersPage!HandledFrame,
          peersPage!dialogs, ServerTypes, PastTypes, peersPage!Live
    <3> QED BY <1>5, <3>1, <3>2 DEF peersPage!startPeer
  <2>3. AreCalls(calls')
    <3>1. CASE p \in peersPage!Stored
      <4>1. peersPage!toPeerResponse(p, "connecting") \in Rows
        BY <3>1, ListIsTyped DEF peersPage!toPeerResponse, Rows, peersPage!Statuses, peersPage!Live
      <4>2. CASE calls' = [calls EXCEPT ![c] = [@ EXCEPT !.phase = "answered",
                  !.ans = peersPage!toPeerResponse(p, "connecting"), !.late = live[p] # "stopped"]]
        BY <1>4, <2>1, <4>1, <4>2, Changing
      <4>3. CASE calls' = [calls EXCEPT ![c].phase = "failed"]
        BY <1>3, <2>1, <4>3, Changing
      <4> QED BY <1>5, <4>2, <4>3 DEF peersPage!startPeer, peersPage!Answered
    <3>2. CASE p \notin peersPage!Stored
      BY <1>3, <1>5, <2>1, <3>2, Changing DEF peersPage!startPeer
    <3> QED BY <3>1, <3>2
  <2> QED
    BY <1>2, <1>5, <2>2, <2>3 DEF peersPage!startPeer, peersPage!CallFails,
      peersPage!HandledFrame, peersPage!dialogs, peersPage!cache, DialogTypes, CacheTypes
<1>6. CASE peersPage!stopPeer(c)
  <2>1. calls[c].op \in {"stop", "restart"} /\ p \in Peers
    BY <1>1, <1>6 DEF peersPage!stopPeer, IsCall
  <2>2. ServerTypes' /\ StreamTypes' /\ PastTypes'
    <3>1. CASE UNCHANGED <<live, feeds, events, moved>>
      BY <1>6, <3>1 DEF peersPage!stopPeer, peersPage!HandledFrame, peersPage!dialogs,
        ServerTypes, StreamTypes, PastTypes
    <3>2. CASE /\ live' = [live EXCEPT ![p] = "stopped"] /\ peersPage!publish(p, "stopped", feeds[p])
               /\ feeds' = [feeds EXCEPT ![p] = {}]
               /\ moved' = moved \cup {p}
      <4>1. StreamTypes'
        BY <1>6, <2>1, <3>2, Publishing
        DEF peersPage!stopPeer, peersPage!HandledFrame, peersPage!Live
      <4> QED
        BY <1>6, <2>1, <3>2, <4>1 DEF peersPage!stopPeer, peersPage!HandledFrame,
          peersPage!dialogs, ServerTypes, PastTypes, peersPage!Live
    <3> QED BY <1>6, <3>1, <3>2 DEF peersPage!stopPeer
  <2>3. AreCalls(calls')
    <3>1. CASE p \in peersPage!Stored /\ calls[c].op = "stop"
      <4>1. peersPage!toPeerResponse(p, "stopped") \in Rows
        BY <3>1, ListIsTyped DEF peersPage!toPeerResponse, Rows, peersPage!Statuses, peersPage!Live
      <4>2. CASE calls' = [calls EXCEPT ![c] = [@ EXCEPT !.phase = "answered",
                  !.ans = peersPage!toPeerResponse(p, "stopped"), !.late = FALSE]]
        BY <1>4, <2>1, <4>1, <4>2, Changing
      <4>3. CASE calls' = [calls EXCEPT ![c].phase = "failed"]
        BY <1>3, <2>1, <4>3, Changing
      <4> QED BY <1>6, <3>1, <4>2, <4>3 DEF peersPage!stopPeer, peersPage!Answered
    <3>2. CASE calls[c].op = "restart"
      <4>1. IsCall([calls[c] EXCEPT !.phase = "second"])
        BY <1>1, <3>2 DEF IsCall, Phases
      <4> QED
        BY <1>3, <1>6, <3>2, <4>1, Changing DEF peersPage!stopPeer
    <3>3. CASE p \notin peersPage!Stored
      BY <1>3, <1>6, <2>1, <3>3, Changing DEF peersPage!stopPeer
    <3> QED BY <2>1, <3>1, <3>2, <3>3
  <2> QED
    BY <1>2, <1>6, <2>2, <2>3 DEF peersPage!stopPeer, peersPage!CallFails, peersPage!HandledFrame,
      peersPage!dialogs, peersPage!cache, DialogTypes, CacheTypes
<1>7. CASE peersPage!saveOrDelete(c)
  <2>1. calls[c].op \in peersPage!Saves /\ p \in Peers
    BY <1>1, <1>7 DEF peersPage!saveOrDelete, IsCall, peersPage!Saves
  <2>2. calls[c].value \in peersPage!Versions \cup {None} /\ (calls[c].op # "delete" =>
          calls[c].value \in peersPage!Versions)
    BY <1>1, <2>1 DEF IsCall, peersPage!Saves
  <2>3. StreamTypes' /\ PastTypes' /\ DialogTypes'
    BY <1>7 DEF peersPage!saveOrDelete, peersPage!HandledFrame, peersPage!dialogs, StreamTypes,
      PastTypes, DialogTypes
  <2>4. ServerTypes'
    BY <1>7, <2>1, <2>2
    DEF peersPage!saveOrDelete, peersPage!HandledFrame, peersPage!dialogs, ServerTypes
  <2>5. AreCalls(calls')
    <3>1. CASE calls' = [calls EXCEPT ![c].phase = "failed"]
      BY <1>3, <2>1, <3>1, Changing DEF peersPage!Saves
    <3>2. CASE calls' = [calls EXCEPT ![c] = [@ EXCEPT !.phase = "answered",
                  !.ans = [config |-> calls[c].value, status |-> peersPage!peerStateString(p)], !.late = FALSE]]
      <4>1. peersPage!peerStateString(p) \in peersPage!Statuses
        BY <2>1, ListIsTyped DEF peersPage!Statuses
      <4>2. IsCall([calls[c] EXCEPT !.phase = "answered",
                     !.ans = [config |-> calls[c].value, status |-> peersPage!peerStateString(p)], !.late = FALSE])
        BY <1>1, <2>1, <2>2, <4>1 DEF IsCall, Phases, Rows, Answers, peersPage!Saves
      <4> QED BY <3>2, <4>2, Changing
    <3> QED BY <1>7, <3>1, <3>2 DEF peersPage!saveOrDelete, peersPage!Answered
  <2> QED
    BY <1>2, <1>7, <2>3, <2>4, <2>5 DEF peersPage!saveOrDelete, peersPage!CallFails,
      peersPage!HandledFrame, peersPage!cache, CacheTypes
<1>8. CASE peersPage!CallFails(c)
  <2> DEFINE failed == [calls EXCEPT ![c] = [@ EXCEPT !.phase = "failed", !.ans = None, !.late =
        FALSE]]
  <2>1. IsCall([calls[c] EXCEPT !.phase = "failed", !.ans = None, !.late = FALSE])
    BY <1>1, <1>8 DEF peersPage!CallFails, IsCall, Phases
  <2>2. AreCalls(failed)
    BY <2>1 DEF AreCalls
  <2>3. p \in Peers
    BY <1>1, <1>8 DEF peersPage!CallFails, IsCall
  <2>4. \/ calls' = peersPage!passCalls(failed, {p}) /\ fetch' = peersPage!passFetch({p}) /\
              overtaken' = overtaken \cup {p}
        \/ calls' = failed /\ UNCHANGED <<fetch, overtaken>>
    BY <1>8 DEF peersPage!CallFails
  <2>5. AreCalls(calls')
    <3> HIDE DEF failed
    <3> QED BY <2>2, <2>4, Passing
  <2>6. CacheTypes'
    BY <1>8, <2>3, <2>4, PassingFetch DEF peersPage!CallFails, CacheTypes
  <2>7. breaks' \in 0..MaxBreaks
    BY <1>8 DEF peersPage!CallFails, ServerTypes, peersPage!PeersPageBounds
  <2> QED
    BY <1>8, <2>3, <2>4, <2>5, <2>6, <2>7
    DEF peersPage!CallFails, peersPage!server, peersPage!dialogs, ServerTypes, StreamTypes,
       PastTypes, DialogTypes
<1> QED BY <1>5, <1>6, <1>7, <1>8 DEF peersPage!Handler

\* A row written, and the calls and the request it passes over marked.
LEMMA WriteTypes ==
  ASSUME peersPage!PeersPageBounds, PeersTyped, NEW p \in Peers, NEW row \in Rows,
         peersPage!writePeerToCaches(p, row),
         NEW c \in peersPage!Calls, calls' = peersPage!passCalls(peersPage!Done(calls, c), {p}),
         fetch' = peersPage!passFetch({p})
  PROVE  /\ CacheTypes' /\ AreCalls(calls')
         /\ lastStatus' \in [Peers -> Settled \cup {None}] /\ moved' \subseteq Peers
<1> USE DEF PeersTyped
<1>1. AreCalls(calls')
  BY Finishing, Passing
<1>2. CacheTypes'
  BY WritingCaches, PassingFetch DEF CacheTypes
<1> QED BY <1>1, <1>2, WritingCaches

LEMMA ReturnTypes ==
  ASSUME peersPage!PeersPageBounds, PeersTyped, NEW c \in peersPage!Calls, peersPage!Returns(c)
  PROVE  PeersTyped'
<1> USE DEF PeersTyped
<1> DEFINE p == calls[c].peer
<1>1. IsCall(calls[c])
  <2>1. calls[c].phase \in Phases
    BY DEF peersPage!Returns, peersPage!rollback, peersPage!startReturns, peersPage!updateReturns,
      peersPage!createReturns, peersPage!deleteReturns, peersPage!ProbeReturns, Phases
  <2> QED BY <2>1 DEF AreCalls, Phases
<1>2. AreCalls(peersPage!Done(calls, c))
  BY Finishing
<1>3. CASE peersPage!ProbeReturns(c)
  BY <1>2, <1>3 DEF peersPage!ProbeReturns, peersPage!server, peersPage!stream, peersPage!cache,
    peersPage!dialogs, peersPage!past, ServerTypes, StreamTypes,
     CacheTypes, DialogTypes, PastTypes
<1>4. CASE peersPage!rollback(c)
  <2>1. p \in Peers
    BY <1>1, <1>4 DEF peersPage!rollback, IsCall
  <2>2. CASE calls[c].prev # None
    <3>1. calls[c].prev \in Rows
      BY <1>1, <2>2 DEF IsCall
    <3>2. /\ peersPage!writePeerToCaches(p, calls[c].prev) /\
                calls' = peersPage!passCalls(peersPage!Done(calls, c), {p})
          /\ fetch' = peersPage!passFetch({p}) /\ overtaken' \in {overtaken, overtaken \cup {p}}
          /\ UNCHANGED <<peersPage!server, peersPage!stream, missed, peersPage!dialogs, replayed>>
      BY <1>4, <2>2 DEF peersPage!rollback
    <3>3. /\ CacheTypes' /\ AreCalls(calls')
          /\ lastStatus' \in [Peers -> Settled \cup {None}] /\ moved' \subseteq Peers
      BY <2>1, <3>1, <3>2, WriteTypes
    <3> QED
      BY <2>1, <3>2, <3>3 DEF peersPage!server, peersPage!stream, peersPage!dialogs, ServerTypes,
        StreamTypes, DialogTypes, PastTypes
  <2>3. CASE calls[c].prev = None
    BY <1>2, <1>4, <2>3 DEF peersPage!rollback, peersPage!server, peersPage!stream,
      peersPage!dialogs, peersPage!past, ServerTypes, StreamTypes,
       CacheTypes, DialogTypes, PastTypes
  <2> QED BY <2>2, <2>3
<1>5. CASE peersPage!startReturns(c) \/ peersPage!updateReturns(c)
  <2>1. p \in Peers /\ calls[c].ans \in Rows
    BY <1>1, <1>5 DEF peersPage!startReturns, peersPage!updateReturns, IsCall, peersPage!Guessed
  <2>2. /\ peersPage!writePeerToCaches(p, calls[c].ans) /\
              calls' = peersPage!passCalls(peersPage!Done(calls, c), {p})
        /\ fetch' = peersPage!passFetch({p}) /\ peersPage!overtake(p, calls[c].late) /\
              replayed' = replayed \ {p}
        /\ UNCHANGED <<peersPage!server, peersPage!stream, missed, deleteTarget, edits>>
    BY <1>5 DEF peersPage!startReturns, peersPage!updateReturns, peersPage!dialogs
  <2>3. /\ CacheTypes' /\ AreCalls(calls')
        /\ lastStatus' \in [Peers -> Settled \cup {None}] /\ moved' \subseteq Peers
    BY <2>1, <2>2, WriteTypes
  <2>4. DialogTypes'
    <3>1. CASE peersPage!startReturns(c)
      BY <3>1 DEF peersPage!startReturns, peersPage!dialogs, DialogTypes
    <3>2. CASE peersPage!updateReturns(c)
      <4>1. [peer |-> p, restart |-> peersPage!isLivePeer(calls[c].ans.status)] \in [peer : Peers, restart : BOOLEAN]
        BY <2>1 DEF peersPage!isLivePeer
      <4>2. drawer' = peersPage!Closed /\ prompts' = prompts \cup
              {[peer |-> p, restart |-> peersPage!isLivePeer(calls[c].ans.status)]}
        BY <3>2 DEF peersPage!updateReturns
      <4> QED BY <2>2, <4>1, <4>2 DEF DialogTypes
    <3> QED BY <1>5, <3>1, <3>2
  <2> QED
    BY <2>1, <2>2, <2>3, <2>4 DEF peersPage!overtake, peersPage!server, peersPage!stream,
      ServerTypes, StreamTypes, PastTypes
<1>6. CASE peersPage!createReturns(c)
  <2>1. p \in Peers /\ calls[c].ans \in Rows
    BY <1>1, <1>6 DEF peersPage!createReturns, IsCall
  <2>2. fetch' = [phase |-> "asked"] \/ fetch' = peersPage!passFetch({p})
    BY <1>6 DEF peersPage!createReturns, peersPage!Refetched
  <2>3. CacheTypes'
    BY <1>6, <2>1, <2>2, PassingFetch DEF peersPage!createReturns, CacheTypes
  <2>4. DialogTypes'
    <3>1. [peer |-> p, restart |-> FALSE] \in [peer : Peers, restart : BOOLEAN]
      BY <2>1
    <3>2. /\ drawer' = peersPage!Closed /\ prompts' = prompts \cup {[peer |-> p, restart |-> FALSE]}
          /\ UNCHANGED deleteTarget
      BY <1>6 DEF peersPage!createReturns
    <3> QED BY <3>1, <3>2 DEF DialogTypes
  <2> QED
    BY <1>2, <1>6, <2>3, <2>4 DEF peersPage!createReturns, peersPage!server, peersPage!stream,
      ServerTypes, StreamTypes, PastTypes
<1>7. CASE peersPage!deleteReturns(c)
  <2>1. p \in Peers
    BY <1>1, <1>7 DEF peersPage!deleteReturns, IsCall
  <2> DEFINE new == [q \in DOMAIN rows \ {p} |-> rows[q]]
  <2>2. /\ details' = [details EXCEPT ![p] = None] /\ peersPage!setList(new)
        /\ calls' = peersPage!passCalls(peersPage!Done(calls, c), {p}) /\
              fetch' = peersPage!passFetch({p})
        /\ peersPage!overtake(p, FALSE) /\ replayed' = replayed \ {p} /\ deleteTarget' = None
        /\ UNCHANGED <<peersPage!server, peersPage!stream, missed, drawer, prompts, edits>>
    BY <1>7 DEF peersPage!deleteReturns
  <2>3. rows # None => IsList(new)
    BY DEF CacheTypes, IsList
  <2> HIDE DEF new
  <2>4. CacheTypes'
    <3>1. (rows' = None \/ IsList(rows')) /\ listFailed' \in BOOLEAN
      BY <2>2, <2>3, Writing
    <3>2. \/ fetch' = peersPage!Idle \/ fetch' = [phase |-> "asked"]
          \/ /\ fetch' = [phase |-> "answered", ans |-> fetch'.ans, passed |-> fetch'.passed]
             /\ IsList(fetch'.ans) /\ fetch'.passed \subseteq Peers
      BY <2>1, <2>2, PassingFetch
    <3>3. details' \in [Peers -> Rows \cup {None}]
      BY <2>1, <2>2 DEF CacheTypes
    <3> QED BY <3>1, <3>2, <3>3 DEF CacheTypes
  <2>5. PastTypes'
    BY <2>1, <2>2, <2>3, Writing DEF peersPage!overtake, PastTypes
  <2>6. AreCalls(calls')
    BY <1>2, <2>2, Passing
  <2> QED
    BY <2>2, <2>4, <2>5, <2>6
    DEF peersPage!server, peersPage!stream, ServerTypes, StreamTypes, DialogTypes
<1> QED BY <1>3, <1>4, <1>5, <1>6, <1>7 DEF peersPage!Returns

\* What the user does: calls are asked, and dialogs are opened and closed.
LEMMA UserTypes ==
  ASSUME peersPage!PeersPageBounds, PeersTyped, peersPage!User
  PROVE  PeersTyped'
<1> USE DEF PeersTyped
<1>1. ASSUME NEW c \in peersPage!Calls, NEW op \in peersPage!Guessed, NEW p \in Peers,
             NEW status \in peersPage!Transient, NEW from,
             peersPage!Ask(c, op, p, from), peersPage!optimisticStatusPatch(p, status), DialogTypes', UNCHANGED edits
      PROVE  PeersTyped'
  <2>1. AreCalls(calls')
    <3>1. op \in Ops /\ op \notin {"probe", "create", "update", "delete"} /\ p # None
      BY <1>1 DEF Ops, peersPage!Guessed, peersPage!PeersPageBounds
    <3> QED BY <1>1, <3>1, Asking
  <2>2. CacheTypes' /\ lastStatus' \in [Peers -> Settled \cup {None}] /\ moved' \subseteq Peers
    BY <1>1, Guessing DEF peersPage!Ask, peersPage!Statuses, CacheTypes
  <2> QED
    BY <1>1, <2>1, <2>2
    DEF peersPage!Ask, peersPage!server, peersPage!stream, ServerTypes, StreamTypes, PastTypes
<1>2. ASSUME NEW c \in peersPage!Calls, NEW op \in peersPage!Saves \cup {"probe"},
             NEW p \in Peers \cup {None}, NEW value,
             peersPage!Ask(c, op, p, value), op = "probe" <=> p =
               None, DialogTypes', peersPage!Unguessed,
             op \in {"create", "update"} => value \in peersPage!Versions, op = "delete" =>
               value = None,
             edits' = edits \/ (edits' = edits + 1 /\ moves + edits < MaxChanges)
      PROVE  PeersTyped'
  <2>1. AreCalls(calls')
    BY <1>2, Asking DEF Ops
  <2>2. ServerTypes'
    BY <1>2
    DEF peersPage!Ask, peersPage!server, peersPage!stream, ServerTypes, peersPage!PeersPageBounds
  <2> QED
    BY <1>2, <2>1, <2>2
    DEF peersPage!Ask, peersPage!Unguessed, peersPage!stream, StreamTypes, CacheTypes, PastTypes
<1>3. ASSUME peersPage!UserFrame, DialogTypes', UNCHANGED edits
      PROVE  PeersTyped'
  BY <1>3 DEF peersPage!UserFrame, peersPage!server, peersPage!stream, peersPage!cache,
    peersPage!past, ServerTypes, StreamTypes, CacheTypes, PastTypes
<1>4. CASE peersPage!Retry
  BY <1>4, FetchTypes
<1>5. CASE peersPage!Add \/ peersPage!Close \/ peersPage!CloseDelete
  <2>1. DialogTypes'
    BY <1>5 DEF peersPage!Add, peersPage!Close, peersPage!CloseDelete, DialogTypes
  <2> QED BY <1>3, <1>5, <2>1 DEF peersPage!Add, peersPage!Close, peersPage!CloseDelete
<1>6. CASE peersPage!onRequestDelete
  <2>1. DialogTypes'
    BY <1>6 DEF peersPage!onRequestDelete, DialogTypes, peersPage!Closed
  <2> QED BY <1>3, <1>6, <2>1 DEF peersPage!onRequestDelete
<1>7. ASSUME NEW p \in Peers, peersPage!Edit(p) PROVE PeersTyped'
  <2>1. rows[p].config \in peersPage!Versions
    BY <1>7 DEF peersPage!Edit, peersPage!TableShown, peersPage!Listed, CacheTypes, IsList, Rows
  <2>2. DialogTypes'
    BY <1>7, <2>1 DEF peersPage!Edit, DialogTypes
  <2> QED BY <1>3, <1>7, <2>2 DEF peersPage!Edit
<1>8. ASSUME NEW t \in prompts, peersPage!Dismiss(t) PROVE PeersTyped'
  BY <1>3, <1>8 DEF peersPage!Dismiss, DialogTypes
<1>9. ASSUME NEW c \in peersPage!Calls, peersPage!RowMenu(c) PROVE PeersTyped'
  <2>1. PICK p \in Peers : peersPage!handleStart(c, p) \/ peersPage!handleStop(c, p)
    BY <1>9 DEF peersPage!RowMenu
  <2>2. DialogTypes' /\ UNCHANGED edits
    BY <2>1 DEF peersPage!handleStart, peersPage!handleStop, peersPage!dialogs, DialogTypes
  <2>3. CASE peersPage!handleStart(c, p)
    BY <1>1, <2>2, <2>3
    DEF peersPage!handleStart, peersPage!useStartPeer, peersPage!Guessed, peersPage!Transient
  <2>4. CASE peersPage!handleStop(c, p)
    BY <1>1, <2>2, <2>4
    DEF peersPage!handleStop, peersPage!useStopPeer, peersPage!Guessed, peersPage!Transient
  <2> QED BY <2>1, <2>3, <2>4
<1>10. ASSUME NEW c \in peersPage!Calls, peersPage!createPeer(c) PROVE PeersTyped'
  <2>1. PICK p \in Peers, value \in peersPage!Versions : peersPage!typed(value) /\
          peersPage!Ask(c, "create", p, value)
    BY <1>10 DEF peersPage!createPeer
  <2>2. DialogTypes'
    BY <1>10 DEF peersPage!createPeer, DialogTypes
  <2> QED
    BY <1>2, <1>10, <2>1, <2>2
    DEF peersPage!createPeer, peersPage!typed, peersPage!Saves, peersPage!PeersPageBounds
<1>11. ASSUME NEW c \in peersPage!Calls, peersPage!updatePeer(c) PROVE PeersTyped'
  <2>1. drawer.peer \in Peers
    BY <1>11 DEF peersPage!updatePeer, DialogTypes, peersPage!Closed
  <2>2. PICK value \in peersPage!Versions : (peersPage!typed(value) \/
          peersPage!untouched(value)) /\ peersPage!Ask(c, "update", drawer.peer, value)
    BY <1>11 DEF peersPage!updatePeer
  <2>3. DialogTypes'
    BY <1>11 DEF peersPage!updatePeer, DialogTypes, peersPage!Closed
  <2>4. "update" \in peersPage!Saves /\ (edits' = edits \/ (edits' = edits + 1 /\
          moves + edits < MaxChanges))
    BY <2>2 DEF peersPage!typed, peersPage!untouched, peersPage!Saves
  <2> QED
    BY <1>2, <1>11, <2>1, <2>2, <2>3, <2>4 DEF peersPage!updatePeer, peersPage!PeersPageBounds
<1>12. ASSUME NEW c \in peersPage!Calls, peersPage!DeletePeerModal(c) PROVE PeersTyped'
  <2>1. deleteTarget \in Peers
    BY <1>12 DEF peersPage!DeletePeerModal, DialogTypes
  <2>2. DialogTypes' /\ UNCHANGED edits
    BY <1>12 DEF peersPage!DeletePeerModal, peersPage!dialogs, DialogTypes
  <2> QED
    BY <1>2, <1>12, <2>1, <2>2
    DEF peersPage!DeletePeerModal, peersPage!Saves, peersPage!PeersPageBounds
<1>13. ASSUME NEW c \in peersPage!Calls, peersPage!handleTest(c) PROVE PeersTyped'
  <2>1. DialogTypes'
    BY <1>13 DEF peersPage!handleTest, DialogTypes, peersPage!Closed
  <2>2. peersPage!Ask(c, "probe", None, drawer.kind) /\ peersPage!Unguessed /\ UNCHANGED edits
    BY <1>13 DEF peersPage!handleTest
  <2> QED BY <1>2, <2>1, <2>2 DEF peersPage!Saves
<1>14. ASSUME NEW c \in peersPage!Calls, NEW t \in prompts, peersPage!runPrompt(c,
              t) PROVE PeersTyped'
  <2>1. t.peer \in Peers
    BY DEF DialogTypes
  <2>2. DialogTypes' /\ UNCHANGED edits
    BY <1>14 DEF peersPage!runPrompt, DialogTypes
  <2>3. \/ peersPage!Ask(c, "restart", t.peer, None) /\
              peersPage!optimisticStatusPatch(t.peer, "restarting")
        \/ peersPage!Ask(c, "start", t.peer, None) /\
              peersPage!optimisticStatusPatch(t.peer, "connecting")
    BY <1>14 DEF peersPage!runPrompt, peersPage!useRestartPeer, peersPage!useStartPeer
  <2>4. {"restart", "start"} \subseteq peersPage!Guessed /\
          {"restarting", "connecting"} \subseteq peersPage!Transient
    BY DEF peersPage!Guessed, peersPage!Transient
  <2> QED BY <1>1, <2>1, <2>2, <2>3, <2>4
<1> QED
  BY <1>4, <1>5, <1>6, <1>7, <1>8, <1>9, <1>10, <1>11, <1>12, <1>13, <1>14 DEF peersPage!User

LEMMA NextTypes ==
  ASSUME peersPage!PeersPageBounds, PeersTyped, [peersPage!Next]_(peersPage!vars)
  PROVE  PeersTyped'
<1>1. CASE UNCHANGED peersPage!vars
  BY <1>1 DEF peersPage!vars, peersPage!server, peersPage!stream, peersPage!cache,
    peersPage!dialogs, peersPage!past, PeersTyped, ServerTypes, StreamTypes, CacheTypes,
     DialogTypes, PastTypes
<1> QED
  BY <1>1, FetchTypes, StreamStepTypes, EventTypes, HandlerTypes, ReturnTypes, UserTypes
  DEF peersPage!Next

LEMMA TypesGiveTypeOK == PeersTyped => peersPage!TypeOK
<1> SUFFICES ASSUME PeersTyped PROVE peersPage!TypeOK
  OBVIOUS
<1> USE DEF PeersTyped
<1>1. \A c \in peersPage!Calls : calls[c].phase \in {"unused", "asked", "second", "answered", "failed", "done"}
  BY DEF AreCalls, IsCall, Phases
<1>2. drawer.kind \in {"closed", "create", "edit"} /\ fetch.phase \in {"none", "asked", "answered"}
  BY DEF DialogTypes, CacheTypes, peersPage!Closed, peersPage!Idle
<1>3. lastStatus \in [Peers -> peersPage!Statuses \cup {None}]
  BY DEF PastTypes, Settled, peersPage!Statuses, peersPage!Live
<1>4. \A r \in Rows : peersPage!IsRow(r)
  BY DEF Rows, peersPage!IsRow
<1>5. /\ rows = None \/ (DOMAIN rows \subseteq Peers /\
            \A p \in DOMAIN rows : peersPage!IsRow(rows[p]))
      /\ \A p \in Peers : details[p] = None \/ peersPage!IsRow(details[p])
  BY <1>4 DEF CacheTypes, IsList
<1>6. moves + edits \in 0..MaxChanges
  BY DEF ServerTypes
<1> QED
  BY <1>1, <1>2, <1>3, <1>5, <1>6
  DEF peersPage!TypeOK, ServerTypes, StreamTypes, CacheTypes, DialogTypes, PastTypes

-----------------------------------------------------------------------------------
(* The peers page: the server's peers, and the events.                             *)

On(c, p) == peersPage!Out(c) /\ calls[c].peer = p

\* A deleted peer does not come back, a created one is new to the connection manager, and
\* there is one creation at a time.
Identity ==
  /\ \A p \in gone : config[p] = None
  /\ \A p \in Peers \ Managed : live[p] = "stopped"
  /\ \A p \in Peers : live[p] # "stopped" => feeds[p] # {}
  /\ \A c \in peersPage!Calls : peersPage!Out(c) /\ calls[c].op = "create" =>
       /\ calls[c].peer \notin Managed
       /\ calls[c].phase = "asked" => calls[c].peer \notin peersPage!Stored \cup gone
       /\ \A d \in peersPage!Calls : peersPage!Out(d) /\ calls[d].op = "create" => d = c
  /\ \A c \in peersPage!Calls : calls[c].phase = "answered" /\ calls[c].op = "delete" =>
        calls[c].peer \in gone
  /\ known # None => Managed \cap peersPage!Stored \subseteq DOMAIN known
  /\ \A e \in events : e.peer \in DOMAIN known

\* A last event is still to be applied.
HasEvent(p) == \E e \in events : e.peer = p /\ e.last

\* A last event of a peer has its connection's status, and so has every event of a peer
\* whose connection has not changed since its last toast.
EventsEndInState ==
  \A e \in events : e.last => e.row.status = peersPage!peerStateString(e.peer)
StillEvents ==
  \A p \in Peers \ moved :
    /\ live[p] \in Settled
    /\ \A e \in events : e.peer = p => e.row.status = live[p]

ServerInv == PeersTyped /\ Identity /\ EventsEndInState

\* A call that is out afterwards was out before, and is the same but for its marks.
KeptCall(c) ==
  peersPage!Out(c)' =>
    /\ peersPage!Out(c)
    /\ calls'[c].phase = calls[c].phase /\ calls'[c].op = calls[c].op
    /\ calls'[c].peer = calls[c].peer /\ calls'[c].prev = calls[c].prev
    /\ calls'[c].ans = calls[c].ans

LEMMA PassedIsKept ==
  ASSUME NEW cs, AreCalls(cs), AreCalls(calls), NEW ps, calls' = peersPage!passCalls(cs, ps),
         NEW c \in peersPage!Calls,
         cs[c] = calls[c] \/ cs[c].phase \notin Phases
  PROVE  KeptCall(c)
<1>1. calls'[c].phase = cs[c].phase
  BY Passing
<1>2. cs[c].phase \in Phases =>
        /\ calls'[c].op = cs[c].op /\ calls'[c].peer = cs[c].peer
        /\ calls'[c].prev = cs[c].prev /\ calls'[c].ans = cs[c].ans
  BY Passing
<1> QED BY <1>1, <1>2 DEF KeptCall, peersPage!Out, Phases

LEMMA DoneIsKept ==
  ASSUME AreCalls(calls), NEW c \in peersPage!Calls, NEW ps,
         calls' = peersPage!Done(calls, c) \/ calls' = peersPage!passCalls(peersPage!Done(calls,
         c), ps), NEW d \in peersPage!Calls
  PROVE  KeptCall(d)
<1>1. peersPage!Done(calls, c)[d] = calls[d] \/ peersPage!Done(calls, c)[d].phase \notin Phases
  BY DEF peersPage!Done, AreCalls, Phases
<1>2. CASE calls' = peersPage!Done(calls, c)
  BY <1>1, <1>2 DEF KeptCall, peersPage!Out, Phases
<1>3. CASE calls' = peersPage!passCalls(peersPage!Done(calls, c), ps)
  BY <1>1, <1>3, Finishing, PassedIsKept
<1> QED BY <1>2, <1>3

\* The steps that neither ask nor handle a call.
LEMMA CallsKept ==
  ASSUME PeersTyped,
         \/ peersPage!FetchHandled \/ peersPage!FetchReturns \/ peersPage!FetchFails \/
               peersPage!Retry \/ peersPage!StreamOpens \/ peersPage!StreamBreaks
         \/ (\E e \in events : peersPage!applyPeerUpdated(e)) \/ peersPage!Moves \/
               (\E c \in peersPage!Calls : peersPage!Returns(c)) \/ peersPage!UserFrame,
         NEW d \in peersPage!Calls
  PROVE  KeptCall(d)
<1> USE DEF PeersTyped
<1>1. CASE calls' = calls
  BY <1>1 DEF KeptCall, peersPage!Out
<1>2. CASE peersPage!FetchReturns \/ \E e \in events : peersPage!applyPeerUpdated(e)
  BY <1>2, PassedIsKept DEF peersPage!FetchReturns, peersPage!applyPeerUpdated
<1>3. CASE peersPage!FetchFails
  <2>1. calls'[d] = calls[d] \/ (peersPage!Out(d) /\ calls'[d] = [calls[d] EXCEPT !.value = None])
    BY <1>3 DEF peersPage!FetchFails
  <2>2. CASE peersPage!Out(d)
    <3>1. IsCall(calls[d])
      BY <2>2 DEF peersPage!Out, AreCalls
    <3> QED BY <2>1, <3>1 DEF KeptCall, peersPage!Out, IsCall
  <2> QED BY <2>1, <2>2 DEF KeptCall, peersPage!Out
<1>4. ASSUME NEW c \in peersPage!Calls, peersPage!Returns(c) PROVE KeptCall(d)
  <2>1. \E ps : calls' = peersPage!Done(calls, c) \/
          calls' = peersPage!passCalls(peersPage!Done(calls, c), ps)
    BY <1>4 DEF peersPage!Returns, peersPage!rollback, peersPage!startReturns,
      peersPage!updateReturns, peersPage!createReturns, peersPage!deleteReturns,
      peersPage!ProbeReturns
  <2> QED BY <2>1, DoneIsKept
<1> QED
  BY <1>1, <1>2, <1>3, <1>4 DEF peersPage!FetchHandled, peersPage!Retry, peersPage!StreamOpens,
    peersPage!StreamBreaks, peersPage!Moves, peersPage!UserFrame

LEMMA InitServerInv ==
  ASSUME peersPage!PeersPageBounds, peersPage!Init
  PROVE  ServerInv /\ StillEvents
<1>1. PeersTyped
  BY InitTypes
<1>2. 0 # None
  BY DEF peersPage!PeersPageBounds, peersPage!Versions
<1>3. \A c \in peersPage!Calls : calls[c].phase = "unused"
  BY DEF peersPage!Init
<1>4. Identity
  <2>1. known # None => Managed \cap peersPage!Stored \subseteq DOMAIN known
    BY DEF peersPage!Init, peersPage!Loaded, peersPage!NotLoaded
  <2>2. /\ events = {} /\ gone = {} /\ \A p \in Peers \ Managed : live[p] = "stopped"
        /\ \A p \in Peers : live[p] # "stopped" => feeds[p] # {}
    BY DEF peersPage!Init
  <2> QED BY <1>3, <2>1, <2>2 DEF Identity, peersPage!Out
<1>5. EventsEndInState /\ StillEvents
  BY DEF peersPage!Init, EventsEndInState, StillEvents, Settled
<1> QED BY <1>1, <1>4, <1>5 DEF ServerInv

LEMMA IdentityKept ==
  ASSUME Identity, \A d \in peersPage!Calls : KeptCall(d), UNCHANGED <<config, gone, live, feeds>>,
         known' = None \/ UNCHANGED known,
         \A e \in events' : e.peer \in DOMAIN known'
  PROVE  Identity'
BY DEF Identity, KeptCall, peersPage!Out, peersPage!Stored

\* A step that leaves the connections and the events as they are, but may raise toasts.
LEMMA EventsKept ==
  ASSUME PeersTyped, EventsEndInState, StillEvents, UNCHANGED <<live, events>>,
         moved' = moved \/ peersPage!forgetMoves, lastStatus' \in [Peers -> Settled \cup {None}]
  PROVE  EventsEndInState' /\ StillEvents'
<1>1. EventsEndInState'
  BY DEF EventsEndInState, peersPage!peerStateString
<1>2. ASSUME NEW p \in Peers, p \notin moved', p \in moved
      PROVE  live[p] \in Settled /\ \A e \in events : e.peer # p
  <2>1. peersPage!Told(p)
    BY <1>2 DEF peersPage!forgetMoves
  <2> QED BY <2>1 DEF peersPage!Told, peersPage!Toasted
<1> QED BY <1>1, <1>2 DEF StillEvents

\* A connection that changes is published to whoever is told of the peer.
LEMMA EventsPublished ==
  ASSUME peersPage!PeersPageBounds, ServerInv, StillEvents, NEW p \in Managed,
         NEW next \in peersPage!Live, NEW fs, fs # {},
         live' = [live EXCEPT ![p] = next], peersPage!publish(p, next, fs), moved' = moved \cup {p},
         UNCHANGED <<known>>
  PROVE  /\ EventsEndInState' /\ StillEvents'
         /\ \A e \in events' : e.peer \in DOMAIN known'
         /\ known = None \/ p \notin peersPage!Stored \/ HasEvent(p)'
         /\ \A q \in Peers : HasEvent(q) => HasEvent(q)'
         /\ \A q \in Peers \ {p} : peersPage!peerStateString(q)' = peersPage!peerStateString(q)
<1> USE DEF ServerInv
<1>1. p \in Peers
  BY DEF peersPage!PeersPageBounds
<1>2. /\ \A q \in Peers : live'[q] = IF q = p THEN next ELSE live[q]
      /\ \A q \in Peers \ {p} : peersPage!peerStateString(q)' = peersPage!peerStateString(q)
      /\ peersPage!peerStateString(p)' = next
  BY <1>1 DEF PeersTyped, ServerTypes, peersPage!peerStateString
<1>3. \A e \in events : e.peer \in Peers
  BY DEF PeersTyped, StreamTypes, IsEvent
<1>4. CASE known # None /\ p \in DOMAIN known
  <2>1. /\ \A e \in events' : IsEvent(e) /\ (e.peer = p \/ e \in events)
        /\ \A e \in events' : e.peer = p /\ e.last => e.row.status = next
        /\ \A e \in events : e.peer # p => e \in events'
        /\ \E e \in events' : e.peer = p /\ e.last
    BY <1>1, <1>4, Published DEF PeersTyped
  <2>2. EventsEndInState'
    <3> SUFFICES ASSUME NEW e \in events', e.last PROVE e.row.status = peersPage!peerStateString(e.peer)'
      BY DEF EventsEndInState
    <3>1. CASE e.peer = p
      BY <1>2, <2>1, <3>1
    <3>2. CASE e.peer # p
      <4>1. e \in events /\ e.peer \in Peers \ {p}
        BY <1>3, <2>1, <3>2
      <4>2. e.row.status = peersPage!peerStateString(e.peer)
        BY <4>1 DEF EventsEndInState
      <4> QED BY <1>2, <4>1, <4>2
    <3> QED BY <3>1, <3>2
  <2>3. StillEvents'
    <3> SUFFICES ASSUME NEW q \in Peers, q \notin moved'
                 PROVE  live'[q] \in Settled /\ \A e \in events' : e.peer = q => e.row.status = live'[q]
      BY DEF StillEvents
    <3>1. q # p /\ live'[q] = live[q] /\ q \notin moved
      BY <1>2
    <3> QED BY <2>1, <3>1 DEF StillEvents
  <2>4. HasEvent(p)' /\ \A q \in Peers : HasEvent(q) => HasEvent(q)'
    BY <2>1 DEF HasEvent
  <2>5. \A e \in events' : e.peer \in DOMAIN known'
    BY <1>4, <2>1 DEF Identity
  <2> QED BY <1>2, <2>2, <2>3, <2>4, <2>5
<1>5. CASE ~(known # None /\ p \in DOMAIN known)
  <2>1. events' = events
    BY <1>5 DEF peersPage!publish
  <2>2. known = None \/ p \notin peersPage!Stored
    BY <1>5 DEF Identity
  <2>3. \A e \in events : e.peer \in Peers \ {p}
    BY <1>3, <1>5 DEF Identity, PeersTyped, StreamTypes
  <2>4. EventsEndInState'
    <3> SUFFICES ASSUME NEW e \in events', e.last PROVE e.row.status = peersPage!peerStateString(e.peer)'
      BY DEF EventsEndInState
    <3>1. e \in events /\ e.peer \in Peers \ {p}
      BY <2>1, <2>3
    <3>2. e.row.status = peersPage!peerStateString(e.peer)
      BY <3>1 DEF EventsEndInState
    <3> QED BY <1>2, <3>1, <3>2
  <2>5. StillEvents'
    BY <1>1, <1>2, <2>1, <2>3 DEF StillEvents
  <2>6. \A e \in events' : e.peer \in DOMAIN known'
    BY <2>1 DEF Identity
  <2> QED BY <1>2, <2>1, <2>2, <2>4, <2>5, <2>6 DEF HasEvent
<1> QED BY <1>4, <1>5

LEMMA EventServer ==
  ASSUME peersPage!PeersPageBounds, ServerInv, StillEvents, NEW e \in events, peersPage!applyPeerUpdated(e)
  PROVE  ServerInv' /\ StillEvents'
<1> USE DEF ServerInv
<1>1. PeersTyped'
  BY EventTypes
<1>2. /\ UNCHANGED <<config, gone, live, feeds, known>> /\ (moved' = moved \/ peersPage!forgetMoves)
      /\ events' = events \ {e}
  BY DEF peersPage!applyPeerUpdated, peersPage!server, peersPage!setList
<1>3. Identity'
  <2>1. \A d \in events' : d.peer \in DOMAIN known'
    BY <1>2 DEF Identity
  <2> QED
    BY <1>2, <2>1, CallsKept, IdentityKept
<1>4. EventsEndInState'
  BY <1>2 DEF EventsEndInState, peersPage!peerStateString
<1>5. StillEvents'
  <2> SUFFICES ASSUME NEW p \in Peers, p \notin moved'
               PROVE  live'[p] \in Settled /\ \A d \in events' : d.peer = p => d.row.status = live'[p]
    BY DEF StillEvents
  <2>1. CASE p \in moved
    <3>1. peersPage!Told(p)
      BY <1>2, <2>1 DEF peersPage!forgetMoves
    <3>2. lastStatus'[p] \in Settled
      BY <1>1, <3>1 DEF peersPage!Told, peersPage!Toasted, PeersTyped, PastTypes
    <3> QED BY <1>2, <3>1, <3>2 DEF peersPage!Told
  <2>2. CASE p \notin moved
    BY <1>2, <2>2 DEF StillEvents
  <2> QED BY <2>1, <2>2
<1> QED BY <1>1, <1>3, <1>4, <1>5

\* The steps that leave the connections and the events as they are.
LEMMA QuietServer ==
  ASSUME peersPage!PeersPageBounds, ServerInv, StillEvents,
         \/ peersPage!FetchHandled \/ peersPage!FetchReturns \/ peersPage!FetchFails \/
               peersPage!Retry
         \/ (\E c \in peersPage!Calls : peersPage!Returns(c)) \/ peersPage!UserFrame \/
               peersPage!StreamBreaks,
         PeersTyped'
  PROVE  ServerInv' /\ StillEvents'
<1> USE DEF ServerInv
<1>1. CASE ~peersPage!StreamBreaks
  <2>1. UNCHANGED <<config, gone, live, feeds, known, events>>
    BY <1>1 DEF peersPage!FetchHandled, peersPage!FetchReturns, peersPage!FetchFails,
      peersPage!Retry, peersPage!UserFrame, peersPage!Returns, peersPage!rollback,
      peersPage!startReturns,
       peersPage!updateReturns, peersPage!createReturns, peersPage!deleteReturns,
       peersPage!ProbeReturns, peersPage!server, peersPage!stream
  <2>2. moved' = moved \/ peersPage!forgetMoves
    BY <1>1 DEF peersPage!FetchHandled, peersPage!FetchReturns, peersPage!FetchFails,
      peersPage!Retry, peersPage!UserFrame, peersPage!Returns, peersPage!rollback,
      peersPage!startReturns,
       peersPage!updateReturns, peersPage!createReturns, peersPage!deleteReturns,
       peersPage!ProbeReturns, peersPage!past, peersPage!writePeerToCaches, peersPage!setList
  <2>3. Identity'
    BY <1>1, <2>1, CallsKept, IdentityKept DEF Identity
  <2>4. EventsEndInState' /\ StillEvents'
    BY <2>1, <2>2, EventsKept DEF PeersTyped, PastTypes
  <2> QED BY <2>3, <2>4
<1>2. CASE peersPage!StreamBreaks
  <2>1. UNCHANGED <<config, gone, live, feeds>> /\ known' = None /\ events' = {} /\ UNCHANGED moved
    BY <1>2 DEF peersPage!StreamBreaks, peersPage!server, peersPage!past
  <2>2. Identity'
    BY <1>2, <2>1, CallsKept, IdentityKept
  <2> QED
    BY <2>1, <2>2 DEF EventsEndInState, StillEvents
<1> QED BY <1>1, <1>2

LEMMA OpenServer ==
  ASSUME peersPage!PeersPageBounds, ServerInv, StillEvents, peersPage!StreamOpens
  PROVE  /\ ServerInv' /\ StillEvents'
         /\ \A p \in peersPage!Stored : HasEvent(p)'
<1> USE DEF ServerInv
<1>1. PeersTyped'
  BY StreamStepTypes
<1>2. UNCHANGED <<config, gone, live, feeds, moved, calls>> /\
        known' = [p \in peersPage!Stored |-> config[p]]
  BY DEF peersPage!StreamOpens, peersPage!server, peersPage!past
<1>3. events' = {peersPage!Event(p, peersPage!listPeers[p], 0, 0) : p \in peersPage!Stored}
  BY DEF peersPage!StreamOpens
<1>4. /\ \A e \in events' : e.peer \in peersPage!Stored /\ e.row.status = peersPage!peerStateString(e.peer)
      /\ \A p \in peersPage!Stored : \E e \in events' : e.peer = p /\ e.last
  <2>1. \A p \in peersPage!Stored : LET e == peersPage!Event(p, peersPage!listPeers[p], 0, 0) IN
          e.peer = p /\ e.last /\ e.row.status = peersPage!peerStateString(p)
    BY DEF peersPage!Event, peersPage!listPeers, peersPage!toPeerResponse
  <2> QED BY <1>3, <2>1
<1>5. Identity'
  BY <1>2, <1>4 DEF Identity, peersPage!Out, peersPage!Stored
<1>6. EventsEndInState'
  BY <1>2, <1>4 DEF EventsEndInState, peersPage!peerStateString
<1>7. StillEvents'
  <2>1. \A p \in Peers : peersPage!peerStateString(p) = live[p]
    BY DEF peersPage!peerStateString, Identity
  <2>2. peersPage!Stored \subseteq Peers
    BY DEF peersPage!Stored
  <2> QED BY <1>2, <1>4, <2>1, <2>2 DEF StillEvents
<1>8. \A p \in peersPage!Stored : HasEvent(p)'
  BY <1>4 DEF HasEvent
<1> QED BY <1>1, <1>5, <1>6, <1>7, <1>8

LEMMA MoveServer ==
  ASSUME peersPage!PeersPageBounds, ServerInv, StillEvents, peersPage!Moves
  PROVE  /\ ServerInv' /\ StillEvents'
         /\ \A p \in Peers : peersPage!peerStateString(p)' = peersPage!peerStateString(p) \/
               known = None \/ p \notin peersPage!Stored \/ HasEvent(p)'
         /\ \A p \in Peers : HasEvent(p) => HasEvent(p)'
<1> USE DEF ServerInv
<1>1. PeersTyped'
  BY StreamStepTypes
<1>2. PICK p \in Managed, next \in peersPage!Live :
        /\ live' = [live EXCEPT ![p] = next] /\ peersPage!publish(p, next, feeds[p]) /\ moved' = moved \cup {p}
        /\ live[p] # "stopped"
  BY DEF peersPage!Moves
<1>3. UNCHANGED <<config, gone, feeds, known, calls>>
  BY DEF peersPage!Moves
<1>6. p \in Peers /\ feeds[p] # {}
  BY <1>2 DEF Identity, peersPage!PeersPageBounds
<1>4. /\ EventsEndInState' /\ StillEvents'
      /\ \A e \in events' : e.peer \in DOMAIN known'
      /\ known = None \/ p \notin peersPage!Stored \/ HasEvent(p)'
      /\ \A q \in Peers : HasEvent(q) => HasEvent(q)'
      /\ \A q \in Peers \ {p} : peersPage!peerStateString(q)' = peersPage!peerStateString(q)
  BY <1>2, <1>3, <1>6, EventsPublished
<1>5. Identity'
  BY <1>1, <1>2, <1>3, <1>4, <1>6 DEF Identity, peersPage!Out, peersPage!Stored, PeersTyped, ServerTypes
<1> QED BY <1>1, <1>4, <1>5

LEMMA CallIsTyped ==
  ASSUME PeersTyped, NEW c \in peersPage!Calls, calls[c].phase \in Phases
  PROVE  IsCall(calls[c]) /\ DOMAIN calls = peersPage!Calls
BY DEF PeersTyped, AreCalls, Phases

\* A handled call is the same but for its phase and its answer, and no other call changes.
LEMMA Answering ==
  ASSUME PeersTyped, NEW c \in peersPage!Calls, calls[c].phase \in Phases, NEW ans, NEW late,
         peersPage!Answered(c, ans, late)
  PROVE  /\ \A d \in peersPage!Calls : d # c => calls'[d] = calls[d]
         /\ calls'[c].phase = "answered" /\ calls'[c].op = calls[c].op
         /\ calls'[c].peer = calls[c].peer /\ calls'[c].prev = calls[c].prev
         /\ calls'[c].passed = calls[c].passed /\ calls'[c].ans = ans /\ calls'[c].late = late
<1>1. IsCall(calls[c]) /\ DOMAIN calls = peersPage!Calls
  BY CallIsTyped
<1>2. calls' = [calls EXCEPT ![c] = [calls[c] EXCEPT !.phase = "answered", !.ans = ans, !.late =
        late]]
  BY DEF peersPage!Answered
<1>3. calls'[c] = [calls[c] EXCEPT !.phase = "answered", !.ans = ans, !.late = late]
  BY <1>1, <1>2
<1> QED BY <1>1, <1>2, <1>3 DEF IsCall

LEMMA Phasing ==
  ASSUME PeersTyped, NEW c \in peersPage!Calls, calls[c].phase \in Phases, NEW phase,
         calls' = [calls EXCEPT ![c].phase = phase]
  PROVE  /\ \A d \in peersPage!Calls : d # c => calls'[d] = calls[d]
         /\ calls'[c].phase = phase /\ calls'[c].op = calls[c].op
         /\ calls'[c].peer = calls[c].peer /\ calls'[c].prev = calls[c].prev
         /\ calls'[c].passed = calls[c].passed
<1>1. IsCall(calls[c]) /\ DOMAIN calls = peersPage!Calls
  BY CallIsTyped
<1>2. calls'[c] = [calls[c] EXCEPT !.phase = phase]
  BY <1>1
<1> QED BY <1>1, <1>2 DEF IsCall

\* The connection is started or stopped, or nothing happens to it.
LEMMA ConnectionServer ==
  ASSUME peersPage!PeersPageBounds, ServerInv, StillEvents, NEW c \in peersPage!Calls,
         peersPage!startPeer(c) \/ peersPage!stopPeer(c)
  PROVE  /\ ServerInv' /\ StillEvents'
         /\ \A p \in Peers : peersPage!peerStateString(p)' = peersPage!peerStateString(p) \/
               known = None \/ p \notin peersPage!Stored \/ HasEvent(p)'
         /\ \A p \in Peers : HasEvent(p) => HasEvent(p)'
<1> USE DEF ServerInv
<1>1. PeersTyped'
  BY HandlerTypes DEF peersPage!Handler
<1>2. UNCHANGED <<config, gone, known>>
  BY DEF peersPage!startPeer, peersPage!stopPeer, peersPage!HandledFrame
<1>3. IsCall(calls[c]) /\ DOMAIN calls = peersPage!Calls /\
        calls[c].op \in peersPage!Guessed /\ calls[c].phase \in Phases
  <2>1. calls[c].phase \in Phases
    BY DEF peersPage!startPeer, peersPage!stopPeer, Phases
  <2>2. IsCall(calls[c]) /\ DOMAIN calls = peersPage!Calls
    BY <2>1, CallIsTyped
  <2> QED BY <2>1, <2>2 DEF peersPage!startPeer, peersPage!stopPeer, IsCall, peersPage!Guessed
<1>4. \/ \E ans, late : peersPage!Answered(c, ans, late)
      \/ \E phase : calls' = [calls EXCEPT ![c].phase = phase]
  BY DEF peersPage!startPeer, peersPage!stopPeer
<1>5. \A d \in peersPage!Calls : d # c => calls'[d] = calls[d]
  BY <1>3, <1>4, Answering, Phasing
<1>6. calls'[c].op = calls[c].op
  BY <1>3, <1>4, Answering, Phasing
<1>7. ASSUME UNCHANGED live \/ \E p \in Managed, s \in peersPage!Live : live' = [live EXCEPT ![p] = s],
             \A p \in Peers : live'[p] # "stopped" => feeds'[p] # {},
             \A e \in events' : e.peer \in DOMAIN known'
      PROVE  Identity'
  <2>1. \A p \in Peers \ Managed : live'[p] = "stopped"
    BY <1>7 DEF Identity, PeersTyped, ServerTypes
  <2>2. \A d \in peersPage!Calls : peersPage!Out(d)' /\ calls'[d].op = "create" => d # c /\
          calls'[d] = calls[d] /\ peersPage!Out(d) /\ calls[d].op = "create"
    BY <1>3, <1>5, <1>6 DEF peersPage!Guessed, peersPage!Out
  <2>3. \A d \in peersPage!Calls : calls'[d].phase = "answered" /\ calls'[d].op = "delete" =>
          d # c /\ calls'[d] = calls[d]
    BY <1>3, <1>5, <1>6 DEF peersPage!Guessed
  <2>4. peersPage!Stored' = peersPage!Stored
    BY <1>2 DEF peersPage!Stored
  <2> QED BY <1>2, <1>7, <2>1, <2>2, <2>3, <2>4 DEF Identity
<1>8. CASE UNCHANGED <<live, feeds, events, moved>>
  <2>1. /\ \A e \in events' : e.peer \in DOMAIN known'
        /\ \A p \in Peers : live'[p] # "stopped" => feeds'[p] # {}
    BY <1>2, <1>8 DEF Identity
  <2>2. EventsEndInState' /\ StillEvents'
    BY <1>8 DEF EventsEndInState, StillEvents, peersPage!peerStateString
  <2> QED BY <1>1, <1>7, <1>8, <2>1, <2>2 DEF peersPage!peerStateString, HasEvent
<1>9. CASE ~UNCHANGED <<live, feeds, events, moved>>
  <2>1. PICK p, next, fs :
          /\ p \in Managed /\ next \in peersPage!Live
          /\ live' = [live EXCEPT ![p] = next] /\ peersPage!publish(p, next, fs) /\ moved' = moved \cup {p}
          /\ \/ next = "stopped" /\ live[p] # "stopped" /\ fs = feeds[p] /\ feeds' = [feeds EXCEPT ![p] = {}]
             \/ fs = feeds'[p] /\ feeds' = [feeds EXCEPT ![p] = @ \cup {c}]
    BY <1>9 DEF peersPage!startPeer, peersPage!stopPeer, peersPage!Live
  <2>2. /\ p \in Peers /\ \A q \in Peers : live'[q] = IF q = p THEN next ELSE live[q]
        /\ \A q \in Peers \ {p} : feeds'[q] = feeds[q]
        /\ fs # {} /\ (next # "stopped" => feeds'[p] # {})
    <3>1. p \in Peers /\ feeds = [q \in Peers |-> feeds[q]]
      BY <2>1 DEF peersPage!PeersPageBounds, PeersTyped, ServerTypes
    <3>2. \A q \in Peers : live'[q] = IF q = p THEN next ELSE live[q]
      BY <2>1, <3>1 DEF PeersTyped, ServerTypes
    <3>3. \A q \in Peers \ {p} : feeds'[q] = feeds[q]
      BY <2>1, <3>1
    <3>4. fs # {} /\ (next # "stopped" => feeds'[p] # {})
      BY <2>1, <3>1 DEF Identity
    <3> QED BY <3>1, <3>2, <3>3, <3>4
  <2>3. /\ EventsEndInState' /\ StillEvents'
        /\ \A e \in events' : e.peer \in DOMAIN known'
        /\ known = None \/ p \notin peersPage!Stored \/ HasEvent(p)'
        /\ \A q \in Peers : HasEvent(q) => HasEvent(q)'
        /\ \A q \in Peers \ {p} : peersPage!peerStateString(q)' = peersPage!peerStateString(q)
    BY <1>2, <2>1, <2>2, EventsPublished
  <2>4. \A q \in Peers : live'[q] # "stopped" => feeds'[q] # {}
    BY <2>2 DEF Identity
  <2> QED BY <1>1, <1>7, <2>1, <2>3, <2>4
<1> QED BY <1>8, <1>9

LEMMA SaveServer ==
  ASSUME peersPage!PeersPageBounds, ServerInv, StillEvents, NEW c \in peersPage!Calls,
         peersPage!saveOrDelete(c)
  PROVE  ServerInv' /\ StillEvents'
<1> USE DEF ServerInv
<1> DEFINE p == calls[c].peer
<1>1. PeersTyped'
  BY HandlerTypes DEF peersPage!Handler
<1>2. UNCHANGED <<live, feeds, known, events, moved>>
  BY DEF peersPage!saveOrDelete, peersPage!HandledFrame
<1>3. EventsEndInState' /\ StillEvents'
  BY <1>2 DEF EventsEndInState, StillEvents, peersPage!peerStateString
<1>4. /\ IsCall(calls[c]) /\ DOMAIN calls = peersPage!Calls /\
            calls[c].op \in peersPage!Saves /\ calls[c].phase = "asked"
      /\ peersPage!Out(c)
  <2>1. calls[c].phase = "asked" /\ calls[c].op \in peersPage!Saves
    BY DEF peersPage!saveOrDelete
  <2> QED BY <2>1, CallIsTyped DEF Phases, peersPage!Out
<1>5. p \in Peers
  BY <1>4 DEF IsCall, peersPage!Saves
<1>11. \/ \E ans : peersPage!Answered(c, ans, FALSE)
       \/ calls' = [calls EXCEPT ![c].phase = "failed"]
  BY DEF peersPage!saveOrDelete
<1>6. \A d \in peersPage!Calls : d # c => calls'[d] = calls[d]
  BY <1>4, <1>11, Answering, Phasing DEF Phases
<1>7. calls'[c].op = calls[c].op /\ calls'[c].peer = p /\ calls'[c].phase \in {"answered", "failed"}
  <2>1. PeersTyped /\ calls[c].phase \in Phases
    BY <1>4 DEF Phases
  <2>2. ASSUME NEW ans, peersPage!Answered(c, ans, FALSE)
        PROVE  calls'[c].op = calls[c].op /\ calls'[c].peer = p /\ calls'[c].phase = "answered"
    BY <2>1, <2>2, Answering
  <2>3. ASSUME calls' = [calls EXCEPT ![c].phase = "failed"]
        PROVE  calls'[c].op = calls[c].op /\ calls'[c].peer = p /\ calls'[c].phase = "failed"
    BY <2>1, <2>3, Phasing
  <2> QED BY <1>11, <2>2, <2>3
<1>8. \A e \in events' : e.peer \in DOMAIN known'
  BY <1>2 DEF Identity
<1>9. CASE UNCHANGED <<config, gone>> /\ calls'[c].phase = "failed"
  <2>1. peersPage!Stored' = peersPage!Stored
    BY <1>9 DEF peersPage!Stored
  <2> QED
    BY <1>1, <1>2, <1>3, <1>4, <1>6, <1>7, <1>8, <1>9, <2>1 DEF Identity, peersPage!Out
<1>10. CASE /\ config' = [config EXCEPT ![p] = calls[c].value]
            /\ gone' = IF calls[c].op = "delete" THEN gone \cup {p} ELSE gone
            /\ (calls[c].op = "create") # (p \in peersPage!Stored)
  <2>1. calls[c].op # "delete" => calls[c].value # None
    BY <1>4 DEF IsCall, peersPage!PeersPageBounds, peersPage!Saves
  <2>2. calls[c].op = "delete" => calls[c].value = None
    BY <1>4 DEF IsCall
  <2>3. peersPage!Stored' = IF calls[c].op = "delete" THEN peersPage!Stored \ {p} ELSE
          peersPage!Stored \cup {p}
    BY <1>5, <1>10, <2>1, <2>2 DEF peersPage!Stored, PeersTyped, ServerTypes
  <2>4. calls[c].op = "create" => p \notin Managed \cup peersPage!Stored \cup gone
    BY <1>4 DEF Identity
  <2>5. calls[c].op # "create" => p \in peersPage!Stored
    BY <1>10
  <2>6. \A q \in gone' : config'[q] = None
    <3> SUFFICES ASSUME NEW q \in gone' PROVE config'[q] = None
      OBVIOUS
    <3>1. CASE q = p
      <4>1. calls[c].op = "delete" \/ p \in gone
        BY <1>10, <3>1
      <4>2. p \in gone => p \notin peersPage!Stored
        BY DEF Identity, peersPage!Stored
      <4> QED BY <1>5, <1>10, <2>2, <2>4, <2>5, <3>1, <4>1, <4>2 DEF PeersTyped, ServerTypes
    <3>2. CASE q # p
      BY <1>5, <1>10, <3>2 DEF Identity, PeersTyped, ServerTypes
    <3> QED BY <3>1, <3>2
  <2>7. known' # None => Managed \cap peersPage!Stored' \subseteq DOMAIN known'
    BY <1>2, <2>3, <2>4, <2>5 DEF Identity
  <2>8. \A d \in peersPage!Calls : peersPage!Out(d)' /\ calls'[d].op = "create" =>
          /\ calls'[d].peer \notin Managed
          /\ calls'[d].phase = "asked" => calls'[d].peer \notin peersPage!Stored' \cup gone'
          /\ \A e \in peersPage!Calls : peersPage!Out(e)' /\ calls'[e].op = "create" => e = d
    <3>1. \A d \in peersPage!Calls : peersPage!Out(d)' /\ calls'[d].op = "create" =>
            peersPage!Out(d) /\ calls[d].op = "create" /\ calls'[d].peer = calls[d].peer
      BY <1>4, <1>6, <1>7 DEF peersPage!Out
    <3>2. \A d \in peersPage!Calls : calls'[d].phase = "asked" => d # c /\ calls'[d] = calls[d]
      BY <1>6, <1>7
    <3>3. \A d \in peersPage!Calls : calls'[d].phase = "asked" /\ calls'[d].op = "create" =>
            calls[c].op # "create" /\ calls'[d].peer \notin peersPage!Stored' \cup gone'
      BY <1>4, <1>10, <2>3, <2>5, <3>2 DEF Identity, peersPage!Out
    <3> QED BY <3>1, <3>3 DEF Identity
  <2>9. \A d \in peersPage!Calls : calls'[d].phase = "answered" /\ calls'[d].op = "delete" =>
          calls'[d].peer \in gone'
    BY <1>6, <1>7, <1>10 DEF Identity
  <2> QED BY <1>1, <1>2, <1>3, <1>8, <2>6, <2>7, <2>8, <2>9 DEF Identity
<1>12. CASE (calls[c].op = "create") = (p \in peersPage!Stored)
  <2>1. UNCHANGED <<config, gone>> /\ calls' = [calls EXCEPT ![c].phase = "failed"]
    BY <1>12 DEF peersPage!saveOrDelete
  <2> QED BY <1>4, <1>9, <2>1, Phasing DEF Phases
<1>13. CASE (calls[c].op = "create") # (p \in peersPage!Stored)
  BY <1>10, <1>13 DEF peersPage!saveOrDelete
<1> QED
  BY <1>12, <1>13

LEMMA FailServer ==
  ASSUME peersPage!PeersPageBounds, ServerInv, StillEvents, NEW c \in peersPage!Calls,
         peersPage!CallFails(c)
  PROVE  ServerInv' /\ StillEvents'
<1> USE DEF ServerInv
<1>1. PeersTyped'
  BY HandlerTypes DEF peersPage!Handler
<1>2. UNCHANGED <<config, gone, live, feeds, known, events, moved>>
  BY DEF peersPage!CallFails, peersPage!server
<1>3. EventsEndInState' /\ StillEvents'
  BY <1>2 DEF EventsEndInState, StillEvents, peersPage!peerStateString
<1>4. calls[c].phase \in {"asked", "second", "answered"} /\ peersPage!Out(c)
  BY DEF peersPage!CallFails, peersPage!Out
<1>5. IsCall(calls[c]) /\ DOMAIN calls = peersPage!Calls
  BY <1>4, CallIsTyped DEF Phases
<1> DEFINE k == [calls[c] EXCEPT !.phase = "failed", !.ans = None, !.late = FALSE]
           failed == [calls EXCEPT ![c] = k]
<1>6. k.phase = "failed" /\ k.op = calls[c].op /\ k.peer = calls[c].peer /\ IsCall(k)
  BY <1>5 DEF peersPage!CallFails, IsCall, Phases
<1>7. AreCalls(failed)
  BY <1>6 DEF AreCalls, PeersTyped
<1>8. failed[c] = k /\ \A d \in peersPage!Calls : d # c => failed[d] = calls[d]
  BY <1>5
<1>9. \/ calls' = peersPage!passCalls(failed, {calls[c].peer})
      \/ calls' = failed
  BY DEF peersPage!CallFails
<1> HIDE DEF k, failed
<1>10. \A d \in peersPage!Calls : calls'[d].phase = failed[d].phase
                                  /\ (failed[d].phase \in Phases => calls'[d].op =
                                        failed[d].op /\ calls'[d].peer = failed[d].peer)
  BY <1>7, <1>9, Passing
<1>11. \A d \in peersPage!Calls : peersPage!Out(d)' =>
         /\ peersPage!Out(d) /\ calls'[d].op = calls[d].op /\ calls'[d].peer = calls[d].peer
         /\ calls'[d].phase = calls[d].phase \/ calls'[d].phase = "failed"
  BY <1>4, <1>6, <1>8, <1>10 DEF peersPage!Out, Phases
<1>12. peersPage!Stored' = peersPage!Stored
  BY <1>2 DEF peersPage!Stored
<1>13. Identity'
  BY <1>2, <1>11, <1>12 DEF Identity, peersPage!Out
<1> QED BY <1>1, <1>3, <1>13

LEMMA AskServer ==
  ASSUME peersPage!PeersPageBounds, ServerInv, StillEvents, PeersTyped',
         NEW c \in peersPage!Calls, NEW op \in Ops,
         NEW p, NEW value, peersPage!Ask(c, op, p, value), moved' = moved \/ peersPage!forgetMoves,
         op = "create" => /\ p \notin Managed \cup peersPage!Stored \cup gone
                          /\ ~\E d \in peersPage!Calls : peersPage!Out(d) /\ calls[d].op = "create"
  PROVE  ServerInv' /\ StillEvents'
<1> USE DEF ServerInv
<1>1. UNCHANGED <<config, gone, live, feeds, known, events>>
  BY DEF peersPage!Ask, peersPage!server, peersPage!stream
<1>2. EventsEndInState' /\ StillEvents'
  BY <1>1, EventsKept DEF PeersTyped, PastTypes
<1>3. /\ \A d \in peersPage!Calls : d # c => calls'[d] = calls[d]
      /\ calls'[c].phase = "asked" /\ calls'[c].op = op /\ calls'[c].peer = p
  BY DEF peersPage!Ask, PeersTyped, AreCalls
<1>4. peersPage!Stored' = peersPage!Stored
  BY <1>1 DEF peersPage!Stored
<1>5. Identity'
  BY <1>1, <1>3, <1>4 DEF Identity, peersPage!Out
<1> QED BY <1>2, <1>5

-----------------------------------------------------------------------------------
(* The peers page: the rows.                                                       *)

\* A call casts doubt on a peer's row when it has guessed it, or when the server has done what
\* the row does not show yet.
Clouds(c, p) ==
  On(c, p) /\ (calls[c].prev # None \/ (calls[c].phase = "answered" /\
    calls[c].op \in {"update", "delete"}))
Clouded(p)  == \E c \in peersPage!Calls : Clouds(c, p)
Alone(c, p) == \A d \in peersPage!Calls : Clouds(d, p) => d = c

\* A row is good when it is the server's, but for a status that an event will bring.
StatusGood(status, p) == status = peersPage!peerStateString(p) \/ known = None \/ HasEvent(p)
Good(row, p)          == row.config = config[p] /\ StatusGood(row.status, p)

Created(p) == \E c \in peersPage!Calls : On(c, p) /\ calls[c].phase = "answered" /\
  calls[c].op = "create"

Restores(c, p) == On(c, p) /\ calls[c].prev # None /\ ~calls[c].passed
Writes(c, p) ==
  /\ On(c, p) /\ calls[c].phase = "answered" /\ calls[c].op \in peersPage!Guessed \cup {"update"}
  /\ ~calls[c].late

\* What a call will write, if nothing passes it over, is as good as the row it writes; and once
\* the list has been asked for, a stored peer without a row is accounted for.
RowInv(p) ==
  /\ peersPage!Listed(p) /\ p \notin overtaken \cup replayed =>
       /\ ~Clouded(p) => Good(rows[p], p)
       /\ \A c \in peersPage!Calls : Restores(c, p) /\ Alone(c, p) => Good(calls[c].prev, p)
  /\ \A c \in peersPage!Calls : Writes(c, p) /\ Alone(c, p) => Good(calls[c].ans, p)
  /\ rows # None /\ fetch.phase = "none" /\ p \in peersPage!Stored =>
       peersPage!Listed(p) \/ p \in overtaken \cup missed \/ Created(p)
  /\ fetch.phase = "answered" =>
       /\ p \in DOMAIN fetch.ans \ fetch.passed /\ ~Clouded(p) => Good(fetch.ans[p], p)
       /\ p \in peersPage!Stored => p \in DOMAIN fetch.ans \cup fetch.passed \/ Created(p)

RowsInv == \A p \in Peers : RowInv(p)

\* A row that is good is one of a stored peer.
LEMMA GoodIsStored ==
  ASSUME peersPage!PeersPageBounds, PeersTyped, NEW p \in Peers, NEW row \in Rows, Good(row, p)
  PROVE  p \in peersPage!Stored
BY DEF Good, Rows, peersPage!Stored, peersPage!PeersPageBounds

\* A step that leaves a peer's row, its marks and its calls as they are, or adds doubts.
LEMMA RowKept ==
  ASSUME peersPage!PeersPageBounds, PeersTyped, NEW p \in Peers, RowInv(p), config'[p] = config[p],
         p \in peersPage!Stored => \A status : StatusGood(status, p) => StatusGood(status, p)',
         p \in overtaken \cup replayed => p \in (overtaken \cup replayed)',
         peersPage!Listed(p)' => peersPage!Listed(p) /\ rows'[p] = rows[p],
         rows' # None /\ fetch'.phase = "none" =>
           \/ /\ rows # None /\ fetch.phase = "none"
              /\ peersPage!Listed(p) => peersPage!Listed(p)'
              /\ p \in overtaken \cup missed => p \in (overtaken \cup missed)'
           \/ p \in peersPage!Stored => peersPage!Listed(p)' \/ p \in missed',
         fetch'.phase = "answered" => /\ fetch.phase = "answered" /\ fetch'.ans = fetch.ans
                                      /\ p \in fetch.passed => p \in fetch'.passed,
         Created(p) => Created(p)',
         \A c \in peersPage!Calls : /\ Clouds(c, p) => Clouds(c, p)'
                                    /\ Restores(c, p)' => Restores(c, p) /\ calls'[c].prev =
                                          calls[c].prev
                                    /\ Writes(c, p)' => \/ Writes(c, p) /\ calls'[c].ans =
                                                              calls[c].ans
                                                        \/ Good(calls[c].ans, p)'
  PROVE  RowInv(p)'
<1>1. ASSUME NEW row \in Rows, Good(row, p)
      PROVE  Good(row, p)'
  BY <1>1, GoodIsStored DEF Good
<1>2. /\ Clouded(p) => Clouded(p)'
      /\ \A c \in peersPage!Calls : Alone(c, p)' => Alone(c, p)
  BY DEF Clouded, Alone
<1>3. p \in peersPage!Stored' <=> p \in peersPage!Stored
  BY DEF peersPage!Stored
<1>4. \A c \in peersPage!Calls : /\ Restores(c, p) => calls[c].prev \in Rows
                                 /\ Writes(c, p) => calls[c].ans \in Rows
  <2> SUFFICES ASSUME NEW c \in peersPage!Calls, Restores(c, p) \/ Writes(c, p)
               PROVE  /\ Restores(c, p) => calls[c].prev \in Rows
                      /\ Writes(c, p) => calls[c].ans \in Rows
    OBVIOUS
  <2>1. IsCall(calls[c])
    BY CallIsTyped DEF Restores, Writes, On, peersPage!Out, Phases
  <2> QED BY <2>1 DEF Restores, Writes, IsCall, peersPage!Guessed
<1>5. ASSUME p \notin (overtaken \cup replayed)', peersPage!Listed(p)'
      PROVE  /\ ~Clouded(p)' => Good(rows[p], p)'
             /\ \A c \in peersPage!Calls : (Restores(c, p) /\ Alone(c, p))' => Good(calls[c].prev, p)'
  <2>1. p \notin overtaken \cup replayed /\ peersPage!Listed(p) /\ rows'[p] = rows[p]
    BY <1>5
  <2>2. ASSUME ~Clouded(p)' PROVE Good(rows[p], p)'
    <3>1. rows[p] \in Rows /\ Good(rows[p], p)
      BY <1>2, <2>1, <2>2 DEF RowInv, peersPage!Listed, PeersTyped, CacheTypes, IsList
    <3>2. Good(rows[p], p)'
      BY <1>1, <2>1, <3>1 DEF Good, StatusGood
    <3> QED BY <3>2
  <2>3. ASSUME NEW c \in peersPage!Calls, (Restores(c, p) /\ Alone(c, p))'
        PROVE  Good(calls[c].prev, p)'
    <3>1. Restores(c, p) /\ Alone(c, p) /\ calls'[c].prev = calls[c].prev
      BY <1>2, <2>3
    <3>2. Good(calls[c].prev, p) /\ calls[c].prev \in Rows
      BY <1>4, <2>1, <3>1 DEF RowInv
    <3> QED BY <1>1, <3>1, <3>2 DEF Good, StatusGood
  <2> QED BY <2>2, <2>3
<1>6. ASSUME NEW c \in peersPage!Calls, (Writes(c, p) /\ Alone(c, p))'
      PROVE  Good(calls[c].ans, p)'
  <2> SUFFICES ASSUME ~Good(calls[c].ans, p)' PROVE FALSE
    OBVIOUS
  <2>1. Writes(c, p) /\ Alone(c, p) /\ calls'[c].ans = calls[c].ans
    BY <1>2, <1>6
  <2>2. Good(calls[c].ans, p) /\ calls[c].ans \in Rows
    BY <1>4, <1>6, <2>1 DEF RowInv
  <2> QED BY <1>1, <2>1, <2>2 DEF Good, StatusGood
<1>7. ASSUME rows' # None, fetch'.phase = "none", p \in peersPage!Stored'
      PROVE  peersPage!Listed(p)' \/ p \in (overtaken \cup missed)' \/ Created(p)'
  BY <1>3, <1>7 DEF RowInv
<1>8. ASSUME fetch'.phase = "answered"
      PROVE  /\ p \in DOMAIN fetch'.ans \ fetch'.passed /\ ~Clouded(p)' => Good(fetch.ans[p], p)'
             /\ p \in peersPage!Stored' => p \in DOMAIN fetch'.ans \cup fetch'.passed \/ Created(p)'
  <2>1. fetch.phase = "answered" /\ fetch'.ans = fetch.ans /\ IsList(fetch.ans)
    BY <1>8 DEF PeersTyped, CacheTypes, peersPage!Idle
  <2>2. ASSUME p \in DOMAIN fetch'.ans \ fetch'.passed, ~Clouded(p)' PROVE Good(fetch.ans[p], p)'
    <3>1. Good(fetch.ans[p], p) /\ fetch.ans[p] \in Rows
      BY <1>2, <1>8, <2>1, <2>2 DEF RowInv, IsList
    <3> QED BY <1>1, <2>1, <3>1 DEF Good, StatusGood
  <2>3. p \in peersPage!Stored' => p \in DOMAIN fetch'.ans \cup fetch'.passed \/ Created(p)'
    BY <1>3, <1>8, <2>1 DEF RowInv
  <2> QED BY <2>2, <2>3
<1> QED BY <1>5, <1>6, <1>7, <1>8 DEF RowInv

\* A call that stays, or becomes one that writes nothing by itself, adds no claim.
Stays(c, p) ==
  \/ calls'[c] = calls[c]
  \/ ~On(c, p) /\ (On(c, p)' => calls'[c].phase # "answered" /\ calls'[c].prev = None)

LEMMA CallsStay ==
  ASSUME NEW p, \A c \in peersPage!Calls : Stays(c, p)
  PROVE  /\ Created(p) => Created(p)'
         /\ \A c \in peersPage!Calls : /\ Clouds(c, p) => Clouds(c, p)'
                                       /\ Restores(c, p)' => Restores(c, p) /\ calls'[c].prev =
                                             calls[c].prev
                                       /\ Writes(c, p)' => Writes(c, p) /\ calls'[c].ans =
                                             calls[c].ans
<1> USE DEF Stays, On, peersPage!Out
<1>1. Created(p) => Created(p)'
  BY DEF Created
<1>2. ASSUME NEW c \in peersPage!Calls
      PROVE  /\ Clouds(c, p) => Clouds(c, p)'
             /\ Restores(c, p)' => Restores(c, p) /\ calls'[c].prev = calls[c].prev
             /\ Writes(c, p)' => Writes(c, p) /\ calls'[c].ans = calls[c].ans
  BY <1>2 DEF Clouds, Restores, Writes
<1> QED BY <1>1, <1>2

\* The calls that are passed over restore nothing, and write what is marked late.
LEMMA PassedClaim ==
  ASSUME NEW cs, AreCalls(cs), NEW ps, NEW p \in ps, calls' = peersPage!passCalls(cs, ps),
         NEW c \in peersPage!Calls
  PROVE  ~Restores(c, p)' /\ ~Writes(c, p)'
<1>1. CASE peersPage!Out(c)'
  <2>1. calls'[c].phase = cs[c].phase /\ cs[c].phase \in Phases
    BY <1>1, Passing DEF peersPage!Out, Phases
  <2>2. /\ calls'[c].op = cs[c].op /\ calls'[c].peer = cs[c].peer /\ calls'[c].prev = cs[c].prev
        /\ cs[c].peer \in ps => /\ calls'[c].passed = (cs[c].prev # None)
                                /\ calls'[c].late = (cs[c].late \/ (cs[c].phase = "answered" /\
                                      cs[c].op # "delete"))
    BY <2>1, Passing
  <2> QED
    BY <1>1, <2>1, <2>2 DEF Restores, Writes, On, peersPage!Guessed
<1>2. CASE ~peersPage!Out(c)'
  BY <1>2 DEF Restores, Writes, On
<1> QED BY <1>1, <1>2

\* A kept call is in doubt only if it was.
LEMMA KeptClouds ==
  ASSUME NEW c \in peersPage!Calls, NEW p, KeptCall(c)
  PROVE  Clouds(c, p)' => Clouds(c, p)
BY DEF KeptCall, Clouds, On

LEMMA FetchRows ==
  ASSUME peersPage!PeersPageBounds, ServerInv, RowsInv,
         peersPage!FetchHandled \/ peersPage!FetchReturns \/ peersPage!FetchFails \/
           peersPage!Retry \/ peersPage!StreamBreaks
  PROVE  RowsInv'
<1> SUFFICES ASSUME NEW p \in Peers PROVE RowInv(p)'
  BY DEF RowsInv
<1>0. RowInv(p) /\ PeersTyped
  BY DEF RowsInv, ServerInv
<1>1. CASE peersPage!FetchFails
  <2>1. /\ fetch'.phase = "none" /\ UNCHANGED <<config, live, known, rows, overtaken, replayed>>
        /\ events' = events /\ missed' = IF rows = None THEN {} ELSE peersPage!Stored \ DOMAIN rows
    BY <1>1 DEF peersPage!FetchFails, peersPage!Idle, peersPage!server
  <2>2. ASSUME NEW c \in peersPage!Calls
        PROVE  /\ peersPage!Out(c)' <=> peersPage!Out(c)
               /\ peersPage!Out(c) =>
                    /\ calls'[c].phase = calls[c].phase /\ calls'[c].op = calls[c].op
                    /\ calls'[c].peer = calls[c].peer /\ calls'[c].prev = calls[c].prev
                    /\ calls'[c].ans = calls[c].ans /\ calls'[c].passed = calls[c].passed
                    /\ calls'[c].late = calls[c].late
    <3>1. calls'[c] = calls[c] \/ (peersPage!Out(c) /\ calls'[c] = [calls[c] EXCEPT !.value = None])
      BY <1>1 DEF peersPage!FetchFails
    <3>2. CASE peersPage!Out(c)
      <4>1. IsCall(calls[c])
        BY <1>0, <3>2 DEF peersPage!Out, PeersTyped, AreCalls
      <4> QED BY <3>1, <3>2, <4>1 DEF peersPage!Out, IsCall
    <3> QED BY <3>1, <3>2 DEF peersPage!Out
  <2>3. /\ Created(p) => Created(p)'
        /\ \A c \in peersPage!Calls : /\ Clouds(c, p) => Clouds(c, p)'
                                      /\ Restores(c, p)' => Restores(c, p) /\ calls'[c].prev =
                                            calls[c].prev
                                      /\ Writes(c, p)' => Writes(c, p) /\ calls'[c].ans =
                                            calls[c].ans
    <3>1. Created(p) => Created(p)'
      BY <2>2 DEF Created, On
    <3>2. ASSUME NEW c \in peersPage!Calls
          PROVE  /\ Clouds(c, p) => Clouds(c, p)'
                 /\ Restores(c, p)' => Restores(c, p) /\ calls'[c].prev = calls[c].prev
                 /\ Writes(c, p)' => Writes(c, p) /\ calls'[c].ans = calls[c].ans
      BY <2>2 DEF Clouds, Restores, Writes, On
    <3> QED BY <3>1, <3>2
  <2>4. \A status : StatusGood(status, p) => StatusGood(status, p)'
    BY <2>1 DEF StatusGood, peersPage!peerStateString, HasEvent
  <2>5. /\ peersPage!Listed(p)' <=> peersPage!Listed(p)
        /\ rows' # None => (p \in peersPage!Stored => peersPage!Listed(p)' \/ p \in missed')
    BY <2>1 DEF peersPage!Listed
  <2> QED BY <1>0, <2>1, <2>3, <2>4, <2>5, RowKept
<1>2. CASE peersPage!FetchHandled
  <2>1. /\ fetch'.phase = "answered" /\ fetch'.ans = peersPage!listPeers /\ fetch'.passed = {}
        /\ UNCHANGED <<config, live, known, events, rows, calls, overtaken, replayed, missed>>
    BY <1>2 DEF peersPage!FetchHandled, peersPage!server, peersPage!stream, peersPage!past
  <2>2. /\ DOMAIN peersPage!listPeers = peersPage!Stored
        /\ p \in peersPage!Stored => Good(peersPage!listPeers[p], p)
    BY DEF peersPage!listPeers, Good, StatusGood, peersPage!toPeerResponse, peersPage!Stored
  <2>3. p \in DOMAIN fetch'.ans => Good(fetch.ans[p], p)'
    BY <2>1, <2>2 DEF Good, StatusGood, peersPage!peerStateString, HasEvent
  <2>4. p \in peersPage!Stored' => p \in DOMAIN fetch'.ans
    BY <2>1, <2>2 DEF peersPage!Stored
  <2>5. /\ \A row : Good(row, p)' <=> Good(row, p)
        /\ peersPage!Listed(p)' <=> peersPage!Listed(p)
        /\ Clouded(p)' <=> Clouded(p)
        /\ \A c \in peersPage!Calls : /\ Restores(c, p)' <=> Restores(c, p)
                                      /\ Alone(c, p)' <=> Alone(c, p)
                                      /\ Writes(c, p)' <=> Writes(c, p)
    <3>1. \A c \in peersPage!Calls : On(c, p)' <=> On(c, p)
      BY <2>1 DEF On, peersPage!Out
    <3>2. \A c \in peersPage!Calls : Clouds(c, p)' <=> Clouds(c, p)
      BY <2>1, <3>1 DEF Clouds
    <3> QED
      BY <2>1, <3>1, <3>2 DEF Good, StatusGood, peersPage!peerStateString, HasEvent, peersPage!Listed,
        Clouded, Restores, Alone, Writes
  <2>6. /\ p \notin (overtaken \cup replayed)' /\ peersPage!Listed(p)' =>
             /\ ~Clouded(p)' => Good(rows[p], p)'
             /\ \A c \in peersPage!Calls : (Restores(c, p) /\ Alone(c, p))' => Good(calls[c].prev, p)'
        /\ \A c \in peersPage!Calls : (Writes(c, p) /\ Alone(c, p))' => Good(calls[c].ans, p)'
    BY <1>0, <2>1, <2>5 DEF RowInv, Good, StatusGood
  <2> QED BY <2>1, <2>3, <2>4, <2>6 DEF RowInv
<1>3. CASE peersPage!FetchReturns
  <2>1. /\ fetch.phase = "answered" /\ fetch' = peersPage!Idle /\ rows' = fetch.ans
        /\ overtaken' = fetch.passed /\ replayed' = {} /\ calls' = peersPage!passCalls(calls, Peers)
        /\ UNCHANGED <<config, live, known, events>>
    BY <1>3 DEF peersPage!FetchReturns, peersPage!server, peersPage!stream
  <2>2. \A c \in peersPage!Calls : ~Restores(c, p)' /\ ~Writes(c, p)'
    BY <2>1, PassedClaim DEF ServerInv, PeersTyped
  <2>3. \A c \in peersPage!Calls : calls'[c].phase = calls[c].phase
                                   /\ (peersPage!Out(c) => calls'[c].op = calls[c].op /\
                                         calls'[c].peer = calls[c].peer /\ calls'[c].prev =
                                           calls[c].prev)
    BY <2>1, Passing DEF ServerInv, PeersTyped, peersPage!Out, Phases
  <2>4. /\ Clouded(p) => Clouded(p)'
        /\ Created(p) => Created(p)'
    BY <2>3 DEF Clouded, Clouds, On, peersPage!Out, Created
  <2>6. p \notin overtaken' /\ ~Clouded(p)' /\ peersPage!Listed(p)' => Good(rows[p], p)'
    BY <1>0, <2>1, <2>4 DEF RowInv, Good, StatusGood, peersPage!peerStateString, HasEvent, peersPage!Listed
  <2>7. rows' # None /\ p \in peersPage!Stored' => peersPage!Listed(p)' \/ p \in overtaken' \/ Created(p)'
    BY <1>0, <2>1, <2>4 DEF RowInv, peersPage!Stored, peersPage!Listed
  <2> QED BY <2>1, <2>2, <2>6, <2>7 DEF RowInv, peersPage!Idle
<1>4. CASE peersPage!StreamBreaks \/ peersPage!Retry
  <2>1. /\ fetch' = fetch \/ fetch' = [phase |-> "asked"]
        /\ UNCHANGED <<config, live, rows, calls, overtaken, replayed, missed>>
        /\ known' = None \/ UNCHANGED <<known, events>>
    BY <1>4 DEF peersPage!StreamBreaks, peersPage!Retry, peersPage!Refetched, peersPage!server,
      peersPage!stream, peersPage!past
  <2>2. \A status : StatusGood(status, p) => StatusGood(status, p)'
    BY <2>1 DEF StatusGood, peersPage!peerStateString, HasEvent
  <2>3. \A c \in peersPage!Calls : Stays(c, p)
    BY <2>1 DEF Stays
  <2>4. peersPage!Listed(p)' <=> peersPage!Listed(p)
    BY <2>1 DEF peersPage!Listed
  <2>5. /\ peersPage!Listed(p)' => peersPage!Listed(p) /\ rows'[p] = rows[p]
        /\ p \in overtaken \cup replayed => p \in (overtaken \cup replayed)'
        /\ rows' # None /\ fetch'.phase = "none" =>
             /\ rows # None /\ fetch.phase = "none"
             /\ peersPage!Listed(p) => peersPage!Listed(p)'
             /\ p \in overtaken \cup missed => p \in (overtaken \cup missed)'
        /\ fetch'.phase = "answered" => /\ fetch.phase = "answered" /\ fetch'.ans = fetch.ans
                                        /\ p \in fetch.passed => p \in fetch'.passed
    BY <2>1, <2>4
  <2> QED
    BY <1>0, <2>1, <2>2, <2>3, <2>5, CallsStay, RowKept
<1> QED BY <1>1, <1>2, <1>3, <1>4

\* A step that writes no row and asks for no list.
LEMMA RowStays ==
  ASSUME peersPage!PeersPageBounds, PeersTyped, NEW p \in Peers, RowInv(p), config'[p] = config[p],
         UNCHANGED <<rows, fetch, overtaken, replayed, missed>>,
         p \in peersPage!Stored => \A status : StatusGood(status, p) => StatusGood(status, p)',
         Created(p) => Created(p)',
         \A c \in peersPage!Calls : /\ Clouds(c, p) => Clouds(c, p)'
                                    /\ Restores(c, p)' => Restores(c, p) /\ calls'[c].prev =
                                          calls[c].prev
                                    /\ Writes(c, p)' => \/ Writes(c, p) /\ calls'[c].ans =
                                                              calls[c].ans
                                                        \/ Good(calls[c].ans, p)'
  PROVE  RowInv(p)'
<1>1. peersPage!Listed(p)' <=> peersPage!Listed(p)
  BY DEF peersPage!Listed
<1> QED BY <1>1, RowKept

\* The stream opens, or a connection changes: what changes is told by an event.
LEMMA StreamRows ==
  ASSUME peersPage!PeersPageBounds, ServerInv, StillEvents, RowsInv,
         peersPage!StreamOpens \/ peersPage!Moves
  PROVE  RowsInv'
<1> SUFFICES ASSUME NEW p \in Peers PROVE RowInv(p)'
  BY DEF RowsInv
<1>1. UNCHANGED <<config, rows, fetch, calls, overtaken, replayed, missed>>
  BY DEF peersPage!StreamOpens, peersPage!Moves, peersPage!server, peersPage!cache, peersPage!past
<1>2. p \in peersPage!Stored => \A status : StatusGood(status, p) => StatusGood(status, p)'
  <2>1. CASE peersPage!StreamOpens
    BY <2>1, OpenServer DEF StatusGood
  <2>2. CASE peersPage!Moves
    <3>1. known' = known
      BY <2>2 DEF peersPage!Moves
    <3> QED BY <2>2, <3>1, MoveServer DEF StatusGood
  <2> QED BY <2>1, <2>2
<1>3. \A c \in peersPage!Calls : Stays(c, p)
  BY <1>1 DEF Stays
<1>4. RowInv(p)
  BY DEF RowsInv
<1> QED
  BY <1>1, <1>2, <1>3, <1>4, CallsStay, RowStays DEF ServerInv

LEMMA ConnectionRows ==
  ASSUME peersPage!PeersPageBounds, ServerInv, StillEvents, RowsInv, NEW c \in peersPage!Calls,
         peersPage!startPeer(c) \/ peersPage!stopPeer(c)
  PROVE  RowsInv'
<1> SUFFICES ASSUME NEW p \in Peers PROVE RowInv(p)'
  BY DEF RowsInv
<1>1. UNCHANGED <<config, known, rows, fetch, overtaken, replayed, missed>>
  BY DEF peersPage!startPeer, peersPage!stopPeer, peersPage!HandledFrame, peersPage!cache
<1>2. p \in peersPage!Stored => \A status : StatusGood(status, p) => StatusGood(status, p)'
  BY <1>1, ConnectionServer DEF StatusGood
<1>3. /\ RowInv(p) /\ PeersTyped
      /\ calls[c].phase \in Phases /\ calls[c].op \in peersPage!Guessed
  <2>1. calls[c].phase \in Phases
    BY DEF peersPage!startPeer, peersPage!stopPeer, Phases
  <2>2. IsCall(calls[c])
    BY <2>1, CallIsTyped DEF ServerInv
  <2>3. calls[c].op \in peersPage!Guessed
    BY <2>2 DEF peersPage!startPeer, peersPage!stopPeer, IsCall, peersPage!Guessed
  <2> QED BY <1>1, <2>1, <2>3 DEF RowsInv, ServerInv
<1>4. CASE \E phase \in {"second", "failed"} : calls' = [calls EXCEPT ![c].phase = phase]
  <2>1. PICK phase \in {"second", "failed"} : calls' = [calls EXCEPT ![c].phase = phase]
    BY <1>4
  <2>2. /\ \A d \in peersPage!Calls : d # c => calls'[d] = calls[d]
        /\ calls'[c].phase = phase /\ calls'[c].op = calls[c].op
        /\ calls'[c].peer = calls[c].peer /\ calls'[c].prev = calls[c].prev
        /\ calls'[c].passed = calls[c].passed
    BY <1>3, <2>1, Phasing
  <2>3. calls[c].phase # "answered"
    BY DEF peersPage!startPeer, peersPage!stopPeer
  <2>4. /\ Created(p) => Created(p)'
        /\ \A d \in peersPage!Calls : /\ Clouds(d, p) => Clouds(d, p)'
                                      /\ Restores(d, p)' => Restores(d, p) /\ calls'[d].prev =
                                            calls[d].prev
                                      /\ Writes(d, p)' => Writes(d, p) /\ calls'[d].ans =
                                            calls[d].ans
    BY <1>3, <2>2, <2>3
    DEF Created, Clouds, Restores, Writes, On, peersPage!Out, Phases, peersPage!Guessed
  <2> QED
    BY <1>1, <1>2, <1>3, <2>4, RowStays
<1>5. CASE \E ans, late : peersPage!Answered(c, ans, late)
  <2>1. PICK ans, late : peersPage!Answered(c, ans, late)
    BY <1>5
  <2>2. /\ \A d \in peersPage!Calls : d # c => calls'[d] = calls[d]
        /\ calls'[c].phase = "answered" /\ calls'[c].op = calls[c].op
        /\ calls'[c].peer = calls[c].peer /\ calls'[c].prev = calls[c].prev
        /\ calls'[c].passed = calls[c].passed /\ calls'[c].ans = ans /\ calls'[c].late = late
    BY <1>3, <2>1, Answering
  <2>3. calls[c].phase # "answered"
    BY DEF peersPage!startPeer, peersPage!stopPeer
  <2>4. calls[c].peer = p /\ ~calls'[c].late => Good(calls[c].ans, p)'
    <3> SUFFICES ASSUME calls[c].peer = p, ~calls'[c].late
                 PROVE  Good(calls[c].ans, p)'
      OBVIOUS
    <3>1. \E status \in {"connecting", "stopped"} :
            /\ calls' = [calls EXCEPT ![c] = [@ EXCEPT !.phase = "answered",
                                 !.ans = peersPage!toPeerResponse(p, status), !.late =
                                   calls'[c].late]]
            /\ p \in Managed /\ live'[p] = status
      <4>1. DOMAIN live = Peers
        BY <1>3 DEF PeersTyped, ServerTypes
      <4>2. CASE peersPage!startPeer(c)
        <5>1. /\ p \in Managed
              /\ peersPage!Answered(c, peersPage!toPeerResponse(p, "connecting"), live[p] # "stopped")
              /\ live[p] = "stopped" => live' = [live EXCEPT ![p] = "connecting"]
          <6>1. calls'[c].phase # "failed"
            BY <2>2
          <6>2. ~(calls' = [calls EXCEPT ![c].phase = "failed"])
            BY <1>3, <6>1, Phasing
          <6> QED BY <4>2, <6>2 DEF peersPage!startPeer
        <5>2. calls'[c].late = (live[p] # "stopped")
          BY <1>3, <5>1, Answering
        <5> QED BY <4>1, <5>1, <5>2 DEF peersPage!Answered
      <4>3. CASE peersPage!stopPeer(c)
        <5>1. calls'[c].phase \notin {"failed", "second"}
          BY <2>2
        <5>2. /\ ~(calls' = [calls EXCEPT ![c].phase = "failed"])
              /\ ~(calls' = [calls EXCEPT ![c].phase = "second"])
          BY <1>3, <5>1, Phasing
        <5>3. /\ p \in Managed
              /\ peersPage!Answered(c, peersPage!toPeerResponse(p, "stopped"), FALSE)
              /\ live[p] = "stopped" \/ live' = [live EXCEPT ![p] = "stopped"]
              /\ live[p] # "stopped" \/ live' = live
          BY <4>3, <5>2 DEF peersPage!stopPeer
        <5>4. calls'[c].late = FALSE
          BY <1>3, <5>3, Answering
        <5> QED BY <4>1, <5>3, <5>4 DEF peersPage!Answered
      <4> QED BY <4>2, <4>3
    <3>2. PICK status : /\ peersPage!Answered(c, peersPage!toPeerResponse(p, status), calls'[c].late)
                        /\ p \in Managed /\ live'[p] = status
      BY <3>1 DEF peersPage!Answered
    <3>3. calls'[c].ans = peersPage!toPeerResponse(p, status)
      BY <1>3, <3>2, Answering
    <3> QED
      BY <1>1, <3>2, <3>3 DEF Good, peersPage!toPeerResponse, StatusGood, peersPage!peerStateString
  <2>5. /\ Created(p) => Created(p)'
        /\ \A d \in peersPage!Calls : /\ Clouds(d, p) => Clouds(d, p)'
                                      /\ Restores(d, p)' => Restores(d, p) /\ calls'[d].prev =
                                            calls[d].prev
                                      /\ d # c /\ Writes(d, p)' => Writes(d, p) /\
                                            calls'[d].ans = calls[d].ans
                                      /\ Writes(c, p)' => calls[c].peer = p /\ ~calls'[c].late
    BY <1>3, <2>2, <2>3
    DEF Created, Clouds, Restores, Writes, On, peersPage!Out, Phases, peersPage!Guessed
  <2>6. Writes(c, p)' => Good(calls[c].ans, p)'
    BY <2>4, <2>5
  <2> QED
    BY <1>1, <1>2, <1>3, <2>5, <2>6, RowStays
<1> QED BY <1>4, <1>5 DEF peersPage!startPeer, peersPage!stopPeer

LEMMA SaveRows ==
  ASSUME peersPage!PeersPageBounds, ServerInv, RowsInv, NEW c \in peersPage!Calls,
         peersPage!saveOrDelete(c)
  PROVE  RowsInv'
<1> SUFFICES ASSUME NEW p \in Peers PROVE RowInv(p)'
  BY DEF RowsInv
<1>1. UNCHANGED <<live, known, events, rows, fetch, overtaken, replayed, missed>>
  BY DEF peersPage!saveOrDelete, peersPage!HandledFrame, peersPage!cache
<1>2. \A status : StatusGood(status, p)' <=> StatusGood(status, p)
  BY <1>1 DEF StatusGood, peersPage!peerStateString, HasEvent
<1>3. /\ RowInv(p) /\ PeersTyped
      /\ calls[c].phase = "asked" /\ calls[c].op \in peersPage!Saves /\ calls[c].prev = None
      /\ DOMAIN calls = peersPage!Calls /\ calls[c].phase \in Phases
      /\ calls[c].op # "delete" => calls[c].value # None
      /\ calls[c].op = "delete" => calls[c].value = None
      /\ calls[c].peer \in Peers
  <2>1. calls[c].phase = "asked" /\ calls[c].op \in peersPage!Saves /\ calls[c].phase \in Phases
    BY DEF peersPage!saveOrDelete, Phases
  <2>2. IsCall(calls[c]) /\ DOMAIN calls = peersPage!Calls
    BY <2>1, CallIsTyped DEF ServerInv
  <2>3. calls[c].prev = None
    BY <2>1, <2>2 DEF IsCall, peersPage!Guessed, peersPage!Saves
  <2>4. /\ calls[c].op # "delete" => calls[c].value # None
        /\ calls[c].op = "delete" => calls[c].value = None
        /\ calls[c].peer \in Peers
    BY <2>1, <2>2 DEF IsCall, peersPage!Saves, peersPage!PeersPageBounds
  <2> QED BY <1>1, <2>1, <2>2, <2>3, <2>4 DEF RowsInv, ServerInv
<1>4. CASE UNCHANGED config /\ calls' = [calls EXCEPT ![c].phase = "failed"]
  <2>1. /\ \A d \in peersPage!Calls : d # c => calls'[d] = calls[d]
        /\ calls'[c].phase = "failed" /\ calls'[c].op = calls[c].op
        /\ calls'[c].peer = calls[c].peer /\ calls'[c].prev = calls[c].prev
        /\ calls'[c].passed = calls[c].passed
    BY <1>3, <1>4, Phasing
  <2>2. /\ Created(p) => Created(p)'
        /\ \A d \in peersPage!Calls : /\ Clouds(d, p) => Clouds(d, p)'
                                      /\ Restores(d, p)' => Restores(d, p) /\ calls'[d].prev =
                                            calls[d].prev
                                      /\ Writes(d, p)' => Writes(d, p) /\ calls'[d].ans =
                                            calls[d].ans
    BY <1>3, <2>1 DEF Created, Clouds, Restores, Writes, On, peersPage!Out
  <2> QED
    BY <1>1, <1>2, <1>3, <1>4, <2>2, RowStays
<1>5. CASE /\ config' = [config EXCEPT ![calls[c].peer] = calls[c].value]
           /\ (calls[c].op = "create") # (calls[c].peer \in peersPage!Stored)
           /\ peersPage!Answered(c, [config |-> calls[c].value, status |-> peersPage!peerStateString(calls[c].peer)], FALSE)
  <2> DEFINE ans == [config |-> calls[c].value, status |-> peersPage!peerStateString(calls[c].peer)]
  <2>0. peersPage!Answered(c, ans, FALSE)
    BY <1>5
  <2> HIDE DEF ans
  <2>1. /\ \A d \in peersPage!Calls : d # c => calls'[d] = calls[d]
        /\ calls'[c].phase = "answered" /\ calls'[c].op = calls[c].op
        /\ calls'[c].peer = calls[c].peer /\ calls'[c].prev = None
        /\ calls'[c].ans = ans
    BY <1>3, <2>0, Answering
  <2>2. CASE calls[c].peer # p
    <3>1. \A d \in peersPage!Calls : Stays(d, p)
      BY <2>1, <2>2 DEF Stays, On
    <3>2. config'[p] = config[p]
      BY <1>5, <2>2
    <3> QED
      BY <1>1, <1>2, <1>3, <3>1, <3>2, CallsStay, RowStays
  <2>3. CASE calls[c].peer = p
    <3>1. CASE calls[c].op = "create"
      <4>1. p \notin peersPage!Stored
        BY <1>5, <2>3, <3>1
      <4>2. \A row \in Rows : ~Good(row, p)
        BY <1>3, <4>1, GoodIsStored
      <4>3. Created(p)'
        BY <2>1, <2>3, <3>1 DEF Created, On, peersPage!Out
      <4>4. /\ \A d \in peersPage!Calls : Clouds(d, p)' <=> Clouds(d, p)
            /\ \A d \in peersPage!Calls : /\ Restores(d, p)' => Restores(d, p)
                                          /\ Writes(d, p)' => Writes(d, p)
        BY <1>3, <2>1, <3>1 DEF Clouds, Restores, Writes, On, peersPage!Out, peersPage!Guessed
      <4>5. (Clouded(p)' <=> Clouded(p)) /\ \A d \in peersPage!Calls : Alone(d, p)' => Alone(d, p)
        BY <4>4 DEF Clouded, Alone
      <4>6. \A d \in peersPage!Calls : ~(Writes(d, p) /\ Alone(d, p))
        <5> SUFFICES ASSUME NEW d \in peersPage!Calls, Writes(d, p), Alone(d, p) PROVE FALSE
          OBVIOUS
        <5>1. IsCall(calls[d]) /\ calls[d].op # "delete" /\ calls[d].phase = "answered"
          BY <1>3, CallIsTyped DEF Writes, On, peersPage!Out, Phases, peersPage!Guessed
        <5>2. calls[d].ans \in Rows /\ Good(calls[d].ans, p)
          BY <1>3, <5>1 DEF IsCall, RowInv
        <5> QED BY <4>2, <5>2
      <4>7. peersPage!Listed(p) /\ p \notin overtaken \cup replayed =>
              Clouded(p) /\ \A d \in peersPage!Calls : ~(Restores(d, p) /\ Alone(d, p))
        <5> SUFFICES ASSUME peersPage!Listed(p), p \notin overtaken \cup replayed
                     PROVE  Clouded(p) /\ \A d \in peersPage!Calls : ~(Restores(d, p) /\ Alone(d, p))
          OBVIOUS
        <5>1. rows[p] \in Rows
          BY <1>3 DEF peersPage!Listed, PeersTyped, CacheTypes, IsList
        <5>2. Clouded(p)
          BY <1>3, <4>2, <5>1 DEF RowInv
        <5>3. ASSUME NEW d \in peersPage!Calls, Restores(d, p), Alone(d, p) PROVE FALSE
          <6>1. calls[d].prev \in Rows
            BY <1>3, <5>3, CallIsTyped DEF Restores, On, peersPage!Out, Phases, IsCall
          <6> QED BY <1>3, <4>2, <5>3, <6>1 DEF RowInv
        <5> QED BY <5>2, <5>3
      <4>8. fetch.phase = "answered" /\ p \in DOMAIN fetch.ans \ fetch.passed => Clouded(p)
        <5> SUFFICES ASSUME fetch.phase = "answered", p \in DOMAIN fetch.ans \ fetch.passed
                     PROVE  Clouded(p)
          OBVIOUS
        <5>1. fetch.ans[p] \in Rows
          BY <1>3 DEF PeersTyped, CacheTypes, peersPage!Idle, IsList
        <5> QED BY <1>3, <4>2, <5>1 DEF RowInv
      <4>9. peersPage!Listed(p)' <=> peersPage!Listed(p)
        BY <1>1 DEF peersPage!Listed
      <4> QED BY <1>1, <4>3, <4>4, <4>5, <4>6, <4>7, <4>8, <4>9 DEF RowInv
    <3>2. CASE calls[c].op # "create"
      <4>1. Clouds(c, p)'
        BY <1>3, <2>1, <2>3, <3>2 DEF Clouds, On, peersPage!Out, peersPage!Saves
      <4>2. Clouded(p)' /\ \A d \in peersPage!Calls : Alone(d, p)' => d = c
        BY <4>1 DEF Clouded, Alone
      <4>3. ~Restores(c, p)'
        BY <2>1 DEF Restores
      <4>4. Writes(c, p)' => Good(calls[c].ans, p)'
        <5>1. config'[p] = calls[c].value /\ ans.config = calls[c].value /\ ans.status =
                peersPage!peerStateString(p)
          BY <1>3, <1>5, <2>3 DEF PeersTyped, ServerTypes, ans
        <5> QED
          BY <1>1, <2>1, <5>1 DEF Good, StatusGood, peersPage!peerStateString
      <4>5. p \in peersPage!Stored
        BY <1>5, <2>3, <3>2
      <4>6. Created(p) => Created(p)'
        BY <1>3, <2>1 DEF Created, On, peersPage!Out
      <4>7. peersPage!Listed(p)' <=> peersPage!Listed(p)
        BY <1>1 DEF peersPage!Listed
      <4> QED
        BY <1>1, <1>3, <4>2, <4>3, <4>4, <4>5, <4>6, <4>7 DEF RowInv
    <3> QED BY <3>1, <3>2
  <2> QED BY <2>2, <2>3
<1>6. CASE (calls[c].op = "create") = (calls[c].peer \in peersPage!Stored)
  BY <1>4, <1>6 DEF peersPage!saveOrDelete
<1>7. CASE (calls[c].op = "create") # (calls[c].peer \in peersPage!Stored)
  BY <1>5, <1>7 DEF peersPage!saveOrDelete
<1> QED BY <1>6, <1>7

\* A row the server is not told of, or that the page has lost sight of.
LEMMA OvertakenRow ==
  ASSUME NEW p \in Peers, p \in overtaken', \A d \in peersPage!Calls : ~Writes(d, p)',
         fetch'.phase = "answered" => p \in fetch'.passed
  PROVE  RowInv(p)'
BY DEF RowInv

\* A row that is written: what is out for it is passed over.
LEMMA WrittenRow ==
  ASSUME CacheTypes, NEW p \in Peers, NEW cs, AreCalls(cs), calls' = peersPage!passCalls(cs, {p}),
         fetch' = peersPage!passFetch({p}),
         p \notin (overtaken \cup replayed)' /\ ~Clouded(p)' /\ peersPage!Listed(p)' => Good(rows[p], p)',
         rows' # None /\ fetch'.phase = "none" /\ p \in peersPage!Stored' =>
           peersPage!Listed(p)' \/ p \in (overtaken \cup missed)' \/ Created(p)'
  PROVE  RowInv(p)'
<1>1. \A d \in peersPage!Calls : ~Restores(d, p)' /\ ~Writes(d, p)'
  BY PassedClaim
<1>2. fetch'.phase = "answered" => p \in fetch'.passed
  BY PassingFetch
<1> QED BY <1>1, <1>2 DEF RowInv

\* The calls of the other peers stay as they are.
LEMMA OthersStay ==
  ASSUME NEW p, NEW q, q # p, NEW cs, AreCalls(cs), calls' = peersPage!passCalls(cs, {p}),
         \A d \in peersPage!Calls : \/ cs[d] = calls[d]
                                    \/ calls[d].peer = p /\ (cs[d].phase \in Phases =>
                                          cs[d].peer = p)
  PROVE  \A d \in peersPage!Calls : Stays(d, q)
<1> SUFFICES ASSUME NEW d \in peersPage!Calls PROVE Stays(d, q)
  OBVIOUS
<1>1. /\ calls'[d].phase = cs[d].phase
      /\ cs[d].phase \in Phases => calls'[d].peer = cs[d].peer
      /\ (cs[d].phase \notin Phases \/ cs[d].peer # p) => calls'[d] = cs[d]
  BY Passing
<1>2. CASE cs[d] = calls[d] /\ ~(cs[d].phase \in Phases /\ cs[d].peer = p)
  BY <1>1, <1>2 DEF Stays
<1>3. CASE cs[d].phase \in Phases => cs[d].peer = p
  BY <1>1, <1>3 DEF Stays, On, peersPage!Out, Phases
<1> QED BY <1>2, <1>3

\* The rows of the other peers.
LEMMA OtherRow ==
  ASSUME peersPage!PeersPageBounds, PeersTyped, NEW p, NEW q \in Peers, q # p, RowInv(q),
         UNCHANGED <<config>>,
         \A status : StatusGood(status, q) => StatusGood(status, q)',
         NEW cs, AreCalls(cs), calls' = peersPage!passCalls(cs, {p}),
         \A d \in peersPage!Calls : \/ cs[d] = calls[d]
                                    \/ calls[d].peer = p /\ (cs[d].phase \in Phases =>
                                          cs[d].peer = p),
         fetch' = peersPage!passFetch({p}),
         rows' # None => /\ rows # None /\ (q \in DOMAIN rows' <=> q \in DOMAIN rows)
                         /\ q \in DOMAIN rows => rows'[q] = rows[q],
         q \in overtaken \cup replayed => q \in (overtaken \cup replayed)',
         q \in overtaken \cup missed => q \in (overtaken \cup missed)'
  PROVE  RowInv(q)'
<1>1. \A d \in peersPage!Calls : Stays(d, q)
  BY OthersStay
<1>2. /\ fetch'.phase = fetch.phase
      /\ fetch.phase = "answered" => fetch'.ans = fetch.ans /\ fetch'.passed = fetch.passed \cup {p}
  BY DEF peersPage!passFetch, PeersTyped, CacheTypes, peersPage!Idle
<1>3. /\ peersPage!Listed(q)' => peersPage!Listed(q) /\ rows'[q] = rows[q]
      /\ rows' # None => rows # None /\ (peersPage!Listed(q) => peersPage!Listed(q)')
  BY DEF peersPage!Listed
<1> QED
  BY <1>1, <1>2, <1>3, CallsStay, RowKept

\* A row goes back to what it was, or is what an answer says.
LEMMA WriteRow ==
  ASSUME CacheTypes, NEW p \in Peers, NEW row \in Rows, peersPage!writePeerToCaches(p, row)
  PROVE  rows' # None =>
           /\ rows # None
           /\ (peersPage!Listed(p)' <=> peersPage!Listed(p)) /\ (peersPage!Listed(p) =>
                 rows'[p] = row)
           /\ \A q : q # p => /\ q \in DOMAIN rows' <=> q \in DOMAIN rows
                              /\ q \in DOMAIN rows => rows'[q] = rows[q]
<1>1. CASE rows = None
  BY <1>1 DEF peersPage!writePeerToCaches, peersPage!setList
<1>2. CASE rows # None
  <2>1. rows' = peersPage!patch(p, row)
    BY <1>2 DEF peersPage!writePeerToCaches, peersPage!setList
  <2> QED BY <1>2, <2>1 DEF peersPage!patch, peersPage!Listed
<1> QED BY <1>1, <1>2

LEMMA FailRows ==
  ASSUME peersPage!PeersPageBounds, ServerInv, RowsInv, NEW c \in peersPage!Calls,
         peersPage!CallFails(c)
  PROVE  RowsInv'
<1> SUFFICES ASSUME NEW q \in Peers PROVE RowInv(q)'
  BY DEF RowsInv
<1> DEFINE p == calls[c].peer
           k == [calls[c] EXCEPT !.phase = "failed", !.ans = None, !.late = FALSE]
           failed == [calls EXCEPT ![c] = k]
<1>1. /\ UNCHANGED <<config, live, known, events, rows, replayed, missed>>
      /\ calls[c].phase \in {"asked", "second", "answered"} /\ calls[c].op # "probe"
  BY DEF peersPage!CallFails, peersPage!server
<1>2. RowInv(q) /\ PeersTyped /\ IsCall(calls[c]) /\ DOMAIN calls = peersPage!Calls
  BY <1>1, CallIsTyped DEF ServerInv, RowsInv, Phases
<1>3. /\ k.phase = "failed" /\ k.op = calls[c].op /\ k.peer = p /\ k.prev = calls[c].prev
      /\ k.passed = calls[c].passed /\ IsCall(k) /\ p \in Peers
  BY <1>1, <1>2 DEF IsCall, Phases
<1>4. AreCalls(failed)
  BY <1>2, <1>3 DEF AreCalls, PeersTyped
<1>5. failed[c] = k /\ \A d \in peersPage!Calls : d # c => failed[d] = calls[d]
  BY <1>2
<1>6. \A status : StatusGood(status, q) => StatusGood(status, q)'
  BY <1>1 DEF StatusGood, peersPage!peerStateString, HasEvent
<1>7. CASE calls[c].phase = "answered" /\ calls[c].op \in peersPage!Saves
  <2>1. calls' = peersPage!passCalls(failed, {p}) /\ fetch' = peersPage!passFetch({p}) /\
          overtaken' = overtaken \cup {p}
    BY <1>7 DEF peersPage!CallFails
  <2> HIDE DEF failed, k
  <2>2. CASE q = p
    <3>1. calls' = peersPage!passCalls(failed, {q}) /\ fetch' = peersPage!passFetch({q}) /\
            q \in overtaken'
      BY <2>1, <2>2
    <3>2. \A d \in peersPage!Calls : ~Writes(d, q)'
      BY <1>4, <3>1, PassedClaim
    <3>3. fetch'.phase = "answered" => q \in fetch'.passed
      BY <1>2, <3>1, PassingFetch DEF PeersTyped
    <3> QED BY <3>1, <3>2, <3>3, OvertakenRow
  <2>3. CASE q # p
    <3>1. \A d \in peersPage!Calls : \/ failed[d] = calls[d]
                                     \/ calls[d].peer = p /\ (failed[d].phase \in Phases =>
                                           failed[d].peer = p)
      BY <1>3, <1>5
    <3> QED
      BY <1>1, <1>2, <1>4, <1>6, <2>1, <2>3, <3>1, OtherRow
  <2> QED BY <2>2, <2>3
<1>8. CASE ~(calls[c].phase = "answered" /\ calls[c].op \in peersPage!Saves)
  <2>1. calls' = failed /\ UNCHANGED <<fetch, overtaken>>
    BY <1>8 DEF peersPage!CallFails
  <2> HIDE DEF failed, k
  <2>2. /\ Created(q) => Created(q)'
        /\ \A d \in peersPage!Calls : /\ Clouds(d, q) => Clouds(d, q)'
                                      /\ Restores(d, q)' => Restores(d, q) /\ calls'[d].prev =
                                            calls[d].prev
                                      /\ Writes(d, q)' => Writes(d, q) /\ calls'[d].ans =
                                            calls[d].ans
    BY <1>1, <1>3, <1>5, <1>8, <2>1
    DEF Created, Clouds, Restores, Writes, On, peersPage!Out, peersPage!Saves
  <2> QED
    BY <1>1, <1>2, <1>6, <2>1, <2>2, RowStays
<1> QED BY <1>7, <1>8

\* What is true of the other calls once a call is done.
LEMMA DoneCalls ==
  ASSUME PeersTyped, NEW c \in peersPage!Calls, calls[c].phase \in Phases, NEW q,
         calls' = peersPage!Done(calls, c) \/ \E ps : calls' =
           peersPage!passCalls(peersPage!Done(calls, c), ps)
  PROVE  /\ \A d \in peersPage!Calls \ {c} : Clouds(d, q) => Clouds(d, q)'
         /\ ~(calls[c].phase = "answered" /\ calls[c].op = "create") => (Created(q) => Created(q)')
         /\ ~peersPage!Out(c)'
<1>1. DOMAIN calls = peersPage!Calls /\ AreCalls(peersPage!Done(calls, c))
  BY CallIsTyped, Finishing DEF PeersTyped
<1>2. peersPage!Done(calls, c)[c] = [phase |-> "done"] /\
        \A d \in peersPage!Calls \ {c} : peersPage!Done(calls, c)[d] = calls[d]
  BY <1>1 DEF peersPage!Done
<1>3. \A d \in peersPage!Calls : /\ calls'[d].phase = peersPage!Done(calls, c)[d].phase
                                 /\ calls'[d].phase \in Phases =>
                                      /\ calls'[d].op = peersPage!Done(calls, c)[d].op /\
                                            calls'[d].peer = peersPage!Done(calls, c)[d].peer
                                      /\ calls'[d].prev = peersPage!Done(calls, c)[d].prev
  <2>1. CASE calls' = peersPage!Done(calls, c)
    BY <2>1
  <2>2. CASE \E ps : calls' = peersPage!passCalls(peersPage!Done(calls, c), ps)
    BY <1>1, <2>2, Passing
  <2> QED BY <2>1, <2>2
<1>4. \A d \in peersPage!Calls \ {c} : /\ calls'[d].phase = calls[d].phase
                                       /\ calls[d].phase \in Phases =>
                                            /\ calls'[d].op = calls[d].op /\ calls'[d].peer =
                                                  calls[d].peer
                                            /\ calls'[d].prev = calls[d].prev
  BY <1>2, <1>3
<1>5. calls'[c].phase = "done"
  BY <1>2, <1>3
<1> QED
  BY <1>4, <1>5 DEF Clouds, Created, On, peersPage!Out, Phases

\* The row of the peer itself: it is good when nothing has passed the call over, and no other
\* call puts it in doubt.
LEMMA ReturnedRow ==
  ASSUME peersPage!PeersPageBounds, ServerInv, NEW p \in Peers, RowInv(p),
         NEW c \in peersPage!Calls, On(c, p), calls[c].op # "create",
         NEW row \in Rows, peersPage!writePeerToCaches(p, row),
         calls' = peersPage!passCalls(peersPage!Done(calls, c), {p}), fetch' =
           peersPage!passFetch({p}),
         UNCHANGED <<config, live, known, events, missed>>,
         p \notin overtaken' => (p \in overtaken => peersPage!Listed(p)),
         p \notin (overtaken \cup replayed)' /\ Alone(c, p) /\ peersPage!Listed(p) =>
           Good(row, p)
  PROVE  RowInv(p)'
<1>1. PeersTyped /\ CacheTypes /\ AreCalls(peersPage!Done(calls, c)) /\ calls[c].phase \in Phases
  BY Finishing DEF ServerInv, PeersTyped, On, peersPage!Out, Phases
<1>2. rows' # None => /\ rows # None /\ (peersPage!Listed(p)' <=> peersPage!Listed(p))
                      /\ peersPage!Listed(p) => rows'[p] = row
  BY <1>1, WriteRow
<1>3. /\ \A d \in peersPage!Calls \ {c} : Clouds(d, p) => Clouds(d, p)'
      /\ Created(p) => Created(p)'
  BY <1>1, DoneCalls
<1>4. (peersPage!Stored' = peersPage!Stored) /\ \A status : StatusGood(status, p) =>
        StatusGood(status, p)'
  BY DEF peersPage!Stored, StatusGood, peersPage!peerStateString, HasEvent
<1>5. ASSUME p \notin (overtaken \cup replayed)', ~Clouded(p)', peersPage!Listed(p)'
      PROVE  Good(rows[p], p)'
  <2>1. Alone(c, p)
    BY <1>3, <1>5 DEF Alone, Clouded
  <2>2. peersPage!Listed(p) /\ rows'[p] = row
    BY <1>2, <1>5 DEF peersPage!Listed
  <2>3. Good(row, p)
    BY <1>5, <2>1, <2>2
  <2> QED BY <1>4, <2>2, <2>3 DEF Good, StatusGood
<1>6. fetch'.phase = fetch.phase
  BY <1>1, PassingFetch
<1>7. rows' # None /\ fetch'.phase = "none" /\ p \in peersPage!Stored' =>
        peersPage!Listed(p)' \/ p \in (overtaken \cup missed)' \/ Created(p)'
  BY <1>2, <1>3, <1>4, <1>6 DEF RowInv
<1> QED
  BY <1>1, <1>5, <1>7, WrittenRow

\* The rows of the other peers.
LEMMA OtherReturned ==
  ASSUME peersPage!PeersPageBounds, ServerInv, NEW p, NEW q \in Peers, q # p, RowInv(q),
         UNCHANGED <<config, live, known, events>>,
         NEW c \in peersPage!Calls, On(c, p), calls' = peersPage!passCalls(peersPage!Done(calls,
         c), {p}), fetch' = peersPage!passFetch({p}),
         rows' # None => /\ rows # None /\ (q \in DOMAIN rows' <=> q \in DOMAIN rows)
                         /\ q \in DOMAIN rows => rows'[q] = rows[q],
         q \in overtaken \cup replayed => q \in (overtaken \cup replayed)',
         q \in overtaken \cup missed => q \in (overtaken \cup missed)'
  PROVE  RowInv(q)'
<1>1. PeersTyped /\ AreCalls(peersPage!Done(calls, c)) /\ DOMAIN calls = peersPage!Calls
  BY CallIsTyped, Finishing DEF ServerInv, PeersTyped, On, peersPage!Out, Phases
<1>2. \A d \in peersPage!Calls : \/ peersPage!Done(calls, c)[d] = calls[d]
                                 \/ calls[d].peer = p /\ (peersPage!Done(calls, c)[d].phase \in Phases => peersPage!Done(calls, c)[d].peer = p)
  BY <1>1 DEF peersPage!Done, On, Phases
<1>3. \A status : StatusGood(status, q) => StatusGood(status, q)'
  BY DEF StatusGood, peersPage!peerStateString, HasEvent
<1> QED BY <1>1, <1>2, <1>3, OtherRow

\* A call that is done and writes no row.  The list may be asked for again.
LEMMA DroppedRow ==
  ASSUME peersPage!PeersPageBounds, ServerInv, NEW q \in Peers, RowInv(q),
         NEW c \in peersPage!Calls, ~Clouds(c, q), peersPage!Out(c),
         calls' = peersPage!Done(calls, c), UNCHANGED <<config, live, known, events, rows, overtaken, replayed, missed>>,
         Created(q) => Created(q)' \/ fetch'.phase = "asked" \/ rows = None,
         fetch'.phase \in {fetch.phase, "asked"},
         fetch'.phase = "answered" => /\ fetch'.ans = fetch.ans /\ fetch.passed \subseteq fetch'.passed
                                      /\ Created(q) => Created(q)' \/ q \in fetch'.passed
  PROVE  RowInv(q)'
<1>1. PeersTyped /\ calls[c].phase \in Phases /\ DOMAIN calls = peersPage!Calls
  BY CallIsTyped DEF ServerInv, peersPage!Out, Phases
<1>2. calls'[c] = [phase |-> "done"] /\ \A d \in peersPage!Calls \ {c} : calls'[d] = calls[d]
  BY <1>1 DEF peersPage!Done
<1>3. \A d \in peersPage!Calls : /\ Clouds(d, q)' <=> Clouds(d, q)
                                 /\ Restores(d, q)' => Restores(d, q) /\ calls'[d] = calls[d]
                                 /\ Writes(d, q)' => Writes(d, q) /\ calls'[d] = calls[d]
  BY <1>2 DEF Clouds, Restores, Writes, On, peersPage!Out
<1>4. (Clouded(q)' <=> Clouded(q)) /\ \A d \in peersPage!Calls : Alone(d, q)' <=> Alone(d, q)
  BY <1>3 DEF Clouded, Alone
<1>5. /\ \A row : Good(row, q)' <=> Good(row, q)
      /\ peersPage!Listed(q)' <=> peersPage!Listed(q)
      /\ peersPage!Stored' = peersPage!Stored
  BY DEF Good, StatusGood, peersPage!peerStateString, HasEvent, peersPage!Listed, peersPage!Stored
<1>6. peersPage!Listed(q)' /\ q \notin (overtaken \cup replayed)' =>
        /\ ~Clouded(q)' => Good(rows[q], q)'
        /\ \A d \in peersPage!Calls : (Restores(d, q) /\ Alone(d, q))' => Good(calls[d].prev, q)'
  BY <1>3, <1>4, <1>5 DEF RowInv, Good, StatusGood
<1>7. \A d \in peersPage!Calls : (Writes(d, q) /\ Alone(d, q))' => Good(calls[d].ans, q)'
  BY <1>3, <1>4, <1>5 DEF RowInv, Good, StatusGood
<1>8. rows' # None /\ fetch'.phase = "none" /\ q \in peersPage!Stored' =>
        peersPage!Listed(q)' \/ q \in (overtaken \cup missed)' \/ Created(q)'
  BY <1>5 DEF RowInv
<1>9. fetch'.phase = "answered" =>
        /\ q \in DOMAIN fetch'.ans \ fetch'.passed /\ ~Clouded(q)' => Good(fetch.ans[q], q)'
        /\ q \in peersPage!Stored' => q \in DOMAIN fetch'.ans \cup fetch'.passed \/ Created(q)'
  BY <1>4, <1>5 DEF RowInv, Good, StatusGood
<1> QED
  BY <1>6, <1>7, <1>8, <1>9 DEF RowInv

LEMMA RollbackRows ==
  ASSUME peersPage!PeersPageBounds, ServerInv, RowsInv, NEW c \in peersPage!Calls,
         peersPage!rollback(c)
  PROVE  RowsInv'
<1> SUFFICES ASSUME NEW q \in Peers PROVE RowInv(q)'
  BY DEF RowsInv
<1>1. /\ UNCHANGED <<config, live, known, events, missed>>
      /\ calls[c].phase = "failed" /\ peersPage!Out(c)
  BY DEF peersPage!rollback, peersPage!server, peersPage!stream, peersPage!Out
<1>2. RowInv(q) /\ PeersTyped /\ IsCall(calls[c]) /\ DOMAIN calls = peersPage!Calls /\ CacheTypes
  BY <1>1, CallIsTyped DEF ServerInv, RowsInv, Phases, PeersTyped
<1>3. CASE calls[c].prev = None
  <2>1. calls' = peersPage!Done(calls, c) /\ UNCHANGED <<rows, fetch, overtaken, replayed>>
    BY <1>3 DEF peersPage!rollback, peersPage!past
  <2>2. ~Clouds(c, q) /\ (Created(q) => Created(q)')
    BY <1>1, <1>2, <1>3, <2>1, DoneCalls DEF Clouds, Phases
  <2> QED BY <1>1, <1>2, <2>1, <2>2, DroppedRow
<1>4. CASE calls[c].prev # None
  <2> DEFINE row == calls[c].prev
  <2>1. /\ peersPage!writePeerToCaches(calls[c].peer, row)
        /\ overtaken' = IF calls[c].passed THEN overtaken \cup {calls[c].peer} ELSE overtaken
        /\ calls' = peersPage!passCalls(peersPage!Done(calls, c), {calls[c].peer}) /\
              fetch' = peersPage!passFetch({calls[c].peer})
        /\ replayed' = replayed
    BY <1>4 DEF peersPage!rollback
  <2>2. calls[c].peer \in Peers /\ row \in Rows /\ calls[c].op \in peersPage!Guessed /\
          calls[c].op # "create"
    BY <1>2, <1>4 DEF IsCall, peersPage!Guessed
  <2>3. CASE calls[c].peer = q
    <3>1. On(c, q) /\ (~calls[c].passed => Restores(c, q))
      BY <1>1, <1>4, <2>3 DEF On, Restores
    <3>2. q \notin (overtaken \cup replayed)' /\ Alone(c, q) /\
            peersPage!Listed(q) => Good(row, q)
      BY <1>2, <2>1, <2>3, <3>1 DEF RowInv
    <3>3. q \notin overtaken' => q \notin overtaken
      BY <2>1
    <3> HIDE DEF row
    <3> QED
      BY <1>1, <1>2, <2>1, <2>2, <2>3, <3>1, <3>2, <3>3, ReturnedRow
  <2>4. CASE calls[c].peer # q
    <3>1. On(c, calls[c].peer)
      BY <1>1 DEF On
    <3>2. rows' # None => /\ rows # None /\ (q \in DOMAIN rows' <=> q \in DOMAIN rows)
                          /\ q \in DOMAIN rows => rows'[q] = rows[q]
      BY <1>2, <2>1, <2>2, <2>4, WriteRow
    <3> QED
      BY <1>1, <1>2, <2>1, <2>4, <3>1, <3>2, OtherReturned
  <2> QED BY <2>3, <2>4
<1> QED BY <1>3, <1>4

LEMMA AnswerRows ==
  ASSUME peersPage!PeersPageBounds, ServerInv, RowsInv, NEW c \in peersPage!Calls,
         peersPage!startReturns(c) \/ peersPage!updateReturns(c)
  PROVE  RowsInv'
<1> SUFFICES ASSUME NEW q \in Peers PROVE RowInv(q)'
  BY DEF RowsInv
<1> DEFINE row == calls[c].ans
<1>1. /\ UNCHANGED <<config, live, known, events, missed>>
      /\ calls[c].phase = "answered" /\ peersPage!Out(c)
      /\ calls[c].op \in peersPage!Guessed \cup {"update"}
      /\ peersPage!writePeerToCaches(calls[c].peer, row) /\
            peersPage!overtake(calls[c].peer, calls[c].late)
      /\ replayed' = replayed \ {calls[c].peer}
      /\ calls' = peersPage!passCalls(peersPage!Done(calls, c), {calls[c].peer}) /\
            fetch' = peersPage!passFetch({calls[c].peer})
  BY DEF peersPage!startReturns, peersPage!updateReturns, peersPage!server, peersPage!stream,
    peersPage!Out
<1>2. RowInv(q) /\ PeersTyped /\ IsCall(calls[c]) /\ CacheTypes
  BY <1>1, CallIsTyped DEF ServerInv, RowsInv, Phases, PeersTyped
<1>3. calls[c].peer \in Peers /\ row \in Rows /\ calls[c].op # "create"
  BY <1>1, <1>2 DEF IsCall, peersPage!Guessed
<1>4. CASE calls[c].peer = q
  <2>1. On(c, q) /\ (~calls[c].late => Writes(c, q))
    BY <1>1, <1>4 DEF On, Writes
  <2>2. q \notin overtaken' => ~calls[c].late /\ (q \in overtaken => peersPage!Listed(q))
    BY <1>1, <1>4 DEF peersPage!overtake
  <2>3. q \notin (overtaken \cup replayed)' /\ Alone(c, q) /\ peersPage!Listed(q) =>
          Good(row, q)
    BY <1>2, <2>1, <2>2 DEF RowInv
  <2> HIDE DEF row
  <2> QED
    BY <1>1, <1>2, <1>3, <1>4, <2>1, <2>2, <2>3, ReturnedRow
<1>5. CASE calls[c].peer # q
  <2>1. On(c, calls[c].peer)
    BY <1>1 DEF On
  <2>2. rows' # None => /\ rows # None /\ (q \in DOMAIN rows' <=> q \in DOMAIN rows)
                        /\ q \in DOMAIN rows => rows'[q] = rows[q]
    BY <1>1, <1>2, <1>3, <1>5, WriteRow
  <2>3. /\ q \in overtaken \cup replayed => q \in (overtaken \cup replayed)'
        /\ q \in overtaken \cup missed => q \in (overtaken \cup missed)'
    BY <1>1, <1>5 DEF peersPage!overtake
  <2> QED
    BY <1>1, <1>2, <1>5, <2>1, <2>2, <2>3, OtherReturned
<1> QED BY <1>4, <1>5

LEMMA CreatedRows ==
  ASSUME peersPage!PeersPageBounds, ServerInv, RowsInv, NEW c \in peersPage!Calls,
         peersPage!createReturns(c)
  PROVE  RowsInv'
<1> SUFFICES ASSUME NEW q \in Peers PROVE RowInv(q)'
  BY DEF RowsInv
<1>1. /\ UNCHANGED <<config, live, known, events, rows, overtaken, replayed, missed>>
      /\ calls[c].phase = "answered" /\ peersPage!Out(c) /\ calls[c].op = "create"
      /\ fetch' = IF peersPage!Refetched = fetch THEN
            peersPage!passFetch({calls[c].peer}) ELSE peersPage!Refetched
      /\ calls' = peersPage!Done(calls, c)
  BY DEF peersPage!createReturns, peersPage!server, peersPage!stream, peersPage!Out
<1>2. RowInv(q) /\ PeersTyped /\ CacheTypes /\ IsCall(calls[c]) /\ calls[c].peer \in Peers
      /\ DOMAIN calls = peersPage!Calls
  <2>1. IsCall(calls[c]) /\ DOMAIN calls = peersPage!Calls
    BY <1>1, CallIsTyped DEF ServerInv, Phases
  <2> QED BY <1>1, <2>1 DEF ServerInv, PeersTyped, RowsInv, IsCall
<1>3. ~Clouds(c, q) /\ (calls[c].peer # q => (Created(q) => Created(q)'))
  <2>1. ~Clouds(c, q)
    BY <1>1, <1>2 DEF Clouds, IsCall, peersPage!Guessed
  <2>2. \A d \in peersPage!Calls \ {c} : calls'[d] = calls[d]
    BY <1>1, <1>2 DEF peersPage!Done
  <2>3. calls[c].peer # q => (Created(q) => Created(q)')
    BY <2>2 DEF Created, On, peersPage!Out
  <2> QED BY <2>1, <2>3
<1>4. CASE fetch' = [phase |-> "asked"]
  BY <1>1, <1>2, <1>3, <1>4, DroppedRow
<1>5. CASE fetch' # [phase |-> "asked"]
  <2>1. rows = None /\ fetch' = peersPage!passFetch({calls[c].peer})
    <3>1. peersPage!Refetched = fetch
      BY <1>1, <1>5 DEF peersPage!Refetched
    <3>2. fetch # [phase |-> "asked"]
      BY <1>1, <1>5, <3>1 DEF peersPage!passFetch
    <3> QED BY <1>1, <3>1, <3>2 DEF peersPage!Refetched
  <2>2. /\ fetch'.phase = fetch.phase
        /\ fetch.phase = "answered" => fetch'.ans = fetch.ans /\ fetch'.passed =
              fetch.passed \cup {calls[c].peer}
    BY <1>2, <2>1, PassingFetch
  <2> QED
    BY <1>1, <1>2, <1>3, <2>1, <2>2, DroppedRow
<1> QED BY <1>4, <1>5

LEMMA DeletedRows ==
  ASSUME peersPage!PeersPageBounds, ServerInv, RowsInv, NEW c \in peersPage!Calls,
         peersPage!deleteReturns(c)
  PROVE  RowsInv'
<1> SUFFICES ASSUME NEW q \in Peers PROVE RowInv(q)'
  BY DEF RowsInv
<1>1. /\ UNCHANGED <<config, live, known, events, missed>>
      /\ calls[c].phase = "answered" /\ peersPage!Out(c) /\ calls[c].op = "delete"
      /\ peersPage!setList([r \in DOMAIN rows \ {calls[c].peer} |-> rows[r]])
      /\ peersPage!overtake(calls[c].peer, FALSE) /\ replayed' = replayed \ {calls[c].peer}
      /\ calls' = peersPage!passCalls(peersPage!Done(calls, c), {calls[c].peer}) /\
            fetch' = peersPage!passFetch({calls[c].peer})
  BY DEF peersPage!deleteReturns, peersPage!server, peersPage!stream, peersPage!Out
<1>2. RowInv(q) /\ PeersTyped /\ CacheTypes /\ AreCalls(peersPage!Done(calls, c))
  BY Finishing DEF ServerInv, PeersTyped, RowsInv
<1>3. rows' # None => rows # None /\ rows' = [r \in DOMAIN rows \ {calls[c].peer} |-> rows[r]]
  BY <1>1 DEF peersPage!setList
<1>4. CASE calls[c].peer = q
  <2>1. config'[q] = None
    BY <1>1, <1>4 DEF ServerInv, Identity
  <2>2. q \notin peersPage!Stored' /\ ~peersPage!Listed(q)'
    BY <1>3, <1>4, <2>1 DEF peersPage!Stored, peersPage!Listed
  <2> QED
    BY <1>1, <1>2, <1>4, <2>2, WrittenRow
<1>5. CASE calls[c].peer # q
  <2>1. On(c, calls[c].peer)
    BY <1>1 DEF On
  <2>2. rows' # None => /\ rows # None /\ (q \in DOMAIN rows' <=> q \in DOMAIN rows)
                        /\ q \in DOMAIN rows => rows'[q] = rows[q]
    BY <1>3, <1>5
  <2>3. /\ q \in overtaken \cup replayed => q \in (overtaken \cup replayed)'
        /\ q \in overtaken \cup missed => q \in (overtaken \cup missed)'
    BY <1>1, <1>5 DEF peersPage!overtake
  <2> QED
    BY <1>1, <1>2, <1>5, <2>1, <2>2, <2>3, OtherReturned
<1> QED BY <1>4, <1>5

LEMMA ReturnRows ==
  ASSUME peersPage!PeersPageBounds, ServerInv, RowsInv, NEW c \in peersPage!Calls,
         peersPage!Returns(c)
  PROVE  RowsInv'
<1>1. CASE peersPage!ProbeReturns(c)
  <2>1. /\ peersPage!Out(c) /\ calls[c].phase = "asked" /\ calls[c].op = "probe" /\
              calls' = peersPage!Done(calls, c)
        /\ UNCHANGED <<config, live, known, events, rows, fetch, overtaken, replayed, missed>>
    BY <1>1 DEF peersPage!ProbeReturns, peersPage!Out, peersPage!server, peersPage!stream,
      peersPage!cache, peersPage!past
  <2>2. calls[c].prev = None
    BY <2>1, CallIsTyped DEF ServerInv, Phases, IsCall, peersPage!Guessed
  <2>3. ASSUME NEW q \in Peers PROVE RowInv(q)'
    <3>1. ~Clouds(c, q) /\ RowInv(q) /\ (Created(q) => Created(q)')
      BY <2>1, <2>2, DoneCalls DEF Clouds, RowsInv, ServerInv, Phases
    <3> QED BY <2>1, <3>1, DroppedRow
  <2> QED BY <2>3 DEF RowsInv
<1> QED
  BY <1>1, RollbackRows, AnswerRows, CreatedRows, DeletedRows DEF peersPage!Returns

\* An event writes the status of its time: it is the peer's, or a last event is left, or the row
\* is marked.
LEMMA EventRows ==
  ASSUME peersPage!PeersPageBounds, ServerInv, RowsInv, NEW e \in events, peersPage!applyPeerUpdated(e)
  PROVE  RowsInv'
<1> SUFFICES ASSUME NEW q \in Peers PROVE RowInv(q)'
  BY DEF RowsInv
<1> DEFINE p == e.peer
           row == e.row
           old == row.config # config[p] \/ ~\E d \in peersPage!EventsOf(p) : d.last
<1>1. RowInv(q) /\ PeersTyped /\ CacheTypes /\ AreCalls(calls) /\ EventsEndInState
  BY DEF ServerInv, PeersTyped, RowsInv
<1>2. /\ UNCHANGED <<config, live, known>> /\ events' = events \ {e}
      /\ peersPage!setList([r \in DOMAIN rows \cup {p} |-> IF r = p THEN row ELSE rows[r]])
      /\ overtaken' = overtaken \ {p} /\ missed' = missed \ {p}
      /\ replayed' = IF old THEN replayed \cup {p} ELSE replayed \ {p}
      /\ fetch' = peersPage!passFetch({p}) /\ calls' = peersPage!passCalls(calls, {p})
  BY DEF peersPage!applyPeerUpdated, peersPage!server
<1>3. rows' # None => rows # None /\ rows' = [r \in DOMAIN rows \cup {p} |-> IF r = p THEN
        row ELSE rows[r]]
  BY <1>2 DEF peersPage!setList
<1>4. CASE p = q
  <2>1. q \notin replayed' => ~old
    BY <1>2, <1>4
  <2>2. ~old => row.config = config'[q] /\ (row.status = peersPage!peerStateString(q) \/ HasEvent(q)')
    <3> SUFFICES ASSUME ~old
                 PROVE  row.config = config'[q] /\ (row.status = peersPage!peerStateString(q) \/ HasEvent(q)')
      OBVIOUS
    <3>1. PICK d \in events : d.peer = q /\ d.last
      BY <1>4 DEF peersPage!EventsOf
    <3>2. row.config = config'[q]
      BY <1>2, <1>4
    <3>3. CASE d = e
      BY <1>1, <1>4, <3>1, <3>2, <3>3 DEF EventsEndInState
    <3>4. CASE d # e
      BY <1>2, <3>1, <3>2, <3>4 DEF HasEvent
    <3> QED BY <3>3, <3>4
  <2>3. rows' # None => peersPage!Listed(q)' /\ rows'[q] = row
    BY <1>3, <1>4 DEF peersPage!Listed
  <2> HIDE DEF row, old
  <2>4. q \notin (overtaken \cup replayed)' /\ peersPage!Listed(q)' => Good(rows[q], q)'
    BY <1>2, <2>1, <2>2, <2>3 DEF Good, StatusGood, peersPage!Listed, peersPage!peerStateString
  <2>5. calls' = peersPage!passCalls(calls, {q}) /\ fetch' = peersPage!passFetch({q})
    BY <1>2, <1>4
  <2> QED
    BY <1>1, <2>3, <2>4, <2>5, WrittenRow
<1>5. CASE p # q
  <2>1. rows' # None => /\ rows # None /\ (q \in DOMAIN rows' <=> q \in DOMAIN rows)
                        /\ q \in DOMAIN rows => rows'[q] = rows[q]
    BY <1>3, <1>5
  <2>2. /\ q \in overtaken \cup replayed => q \in (overtaken \cup replayed)'
        /\ q \in overtaken \cup missed => q \in (overtaken \cup missed)'
    BY <1>2, <1>5
  <2>3. HasEvent(q) => HasEvent(q)'
    BY <1>2, <1>5 DEF HasEvent
  <2>4. \A status : StatusGood(status, q) => StatusGood(status, q)'
    BY <1>2, <2>3 DEF StatusGood, peersPage!peerStateString
  <2>5. \A d \in peersPage!Calls : \/ calls[d] = calls[d]
                                   \/ calls[d].peer = p /\ (calls[d].phase \in Phases =>
                                         calls[d].peer = p)
    OBVIOUS
  <2> HIDE DEF p, row
  <2> QED
    BY <1>1, <1>2, <1>5, <2>1, <2>2, <2>4, <2>5, OtherRow
<1> QED BY <1>4, <1>5

\* A guess is written over the row it was made from, unless the detail is another.
LEMMA AskRows ==
  ASSUME peersPage!PeersPageBounds, ServerInv, RowsInv, NEW c \in peersPage!Calls, NEW op \in Ops,
         NEW p, NEW value,
         peersPage!Ask(c, op, p, value),
         \/ op \notin peersPage!Guessed /\ UNCHANGED rows
         \/ /\ op \in peersPage!Guessed /\ p \in Peers
            /\ \E status \in peersPage!Statuses : peersPage!optimisticStatusPatch(p, status)
  PROVE  RowsInv'
<1> SUFFICES ASSUME NEW q \in Peers PROVE RowInv(q)'
  BY DEF RowsInv
<1> DEFINE prev == IF op \in peersPage!Guessed THEN peersPage!Cached(p) ELSE None
<1>1. /\ UNCHANGED <<config, live, known, events, fetch, overtaken, replayed, missed>>
      /\ calls[c].phase = "unused"
      /\ calls' = [calls EXCEPT ![c] =
           [phase |-> "asked", op |-> op, peer |-> p, value |-> value, prev |-> prev, ans |-> None,
            passed |-> prev # None /\ peersPage!Listed(p) /\ prev # rows[p], late |-> FALSE]]
  BY DEF peersPage!Ask, peersPage!server, peersPage!stream
<1>2. RowInv(q) /\ PeersTyped /\ CacheTypes /\ DOMAIN calls = peersPage!Calls
  BY DEF ServerInv, PeersTyped, RowsInv, AreCalls
<1> HIDE DEF prev
<1>3. /\ calls'[c].phase = "asked" /\ calls'[c].peer = p /\ calls'[c].prev = prev
      /\ calls'[c].passed = (prev # None /\ peersPage!Listed(p) /\ prev # rows[p])
      /\ \A d \in peersPage!Calls \ {c} : calls'[d] = calls[d]
  BY <1>1, <1>2
<1>4. \A status : StatusGood(status, q) => StatusGood(status, q)'
  BY <1>1 DEF StatusGood, peersPage!peerStateString, HasEvent
<1>5. ~peersPage!Out(c)
  BY <1>1 DEF peersPage!Out
<1>6. rows' # None => rows # None /\ (peersPage!Listed(q)' <=> peersPage!Listed(q)) /\
        (q # p \/ prev = None => (peersPage!Listed(q) => rows'[q] = rows[q]))
  <2>1. CASE op \notin peersPage!Guessed \/ peersPage!Cached(p) = None
    BY <2>1 DEF peersPage!optimisticStatusPatch, peersPage!Listed
  <2>2. CASE op \in peersPage!Guessed /\ peersPage!Cached(p) # None
    <3>1. PICK status \in peersPage!Statuses : peersPage!writePeerToCaches(p, [peersPage!Cached(p) EXCEPT !.status = status])
      BY <2>2 DEF peersPage!optimisticStatusPatch
    <3>2. [peersPage!Cached(p) EXCEPT !.status = status] \in Rows /\ p \in Peers /\ prev # None
      BY <1>2, <2>2, CachedIsRow DEF Rows, prev
    <3> QED BY <1>2, <3>1, <3>2, WriteRow DEF peersPage!Listed
  <2> QED BY <2>1, <2>2
<1>7. peersPage!Listed(q)' => rows' # None /\ rows # None /\ peersPage!Listed(q)
  BY <1>6 DEF peersPage!Listed
<1>8. CASE q # p \/ prev = None
  <2>1. \A d \in peersPage!Calls : Stays(d, q)
    BY <1>3, <1>5, <1>8 DEF Stays, On
  <2>2. /\ peersPage!Listed(q)' => peersPage!Listed(q) /\ rows'[q] = rows[q]
        /\ rows' # None => rows # None /\ (peersPage!Listed(q) => peersPage!Listed(q)')
    BY <1>6, <1>7, <1>8
  <2> QED
    BY <1>1, <1>2, <1>4, <2>1, <2>2, CallsStay, RowKept
<1>9. CASE q = p /\ prev # None
  <2>1. Clouds(c, q)' /\ Clouded(q)' /\ ~Clouds(c, q)
    BY <1>3, <1>5, <1>9 DEF Clouds, Clouded, On, peersPage!Out
  <2>2. \A d \in peersPage!Calls \ {c} : Clouds(d, q)' <=> Clouds(d, q)
    BY <1>3 DEF Clouds, On, peersPage!Out
  <2>3. \A d \in peersPage!Calls : Alone(d, q)' => d = c /\ ~Clouded(q)
    BY <2>1, <2>2 DEF Alone, Clouded
  <2>4. ~Writes(c, q)'
    BY <1>3 DEF Writes
  <2>5. ASSUME q \notin (overtaken \cup replayed)', peersPage!Listed(q)', (Restores(c, q) /\ Alone(c, q))'
        PROVE  Good(calls[c].prev, q)'
    <3>1. peersPage!Listed(q) /\ prev = rows[q]
      BY <1>3, <1>7, <1>9, <2>5 DEF Restores
    <3>2. Good(rows[q], q)
      BY <1>1, <1>2, <2>3, <2>5, <3>1 DEF RowInv
    <3> QED BY <1>1, <1>3, <1>4, <3>1, <3>2 DEF Good, StatusGood
  <2>6. Created(q) => Created(q)'
    BY <1>3, <1>5 DEF Created, On, peersPage!Out
  <2>7. rows' # None /\ fetch'.phase = "none" /\ q \in peersPage!Stored' =>
          peersPage!Listed(q)' \/ q \in (overtaken \cup missed)' \/ Created(q)'
    BY <1>1, <1>2, <1>6, <2>6 DEF RowInv, peersPage!Stored
  <2>8. fetch'.phase = "answered" /\ q \in peersPage!Stored' => q \in DOMAIN fetch'.ans \cup
          fetch'.passed \/ Created(q)'
    BY <1>1, <1>2, <2>6 DEF RowInv, peersPage!Stored
  <2>9. \A d \in peersPage!Calls : (Restores(d, q) /\ Alone(d, q))' => d = c
    BY <2>3
  <2> QED
    BY <2>1, <2>3, <2>4, <2>5, <2>7, <2>8, <2>9 DEF RowInv
<1> QED BY <1>8, <1>9

\* A step of the page that touches neither the server nor the cache.
LEMMA FrameRows ==
  ASSUME peersPage!PeersPageBounds, ServerInv, RowsInv,
         UNCHANGED <<config, live, known, events, rows, fetch, calls, overtaken, replayed, missed>>
  PROVE  RowsInv'
BY DEF RowsInv, RowInv, Good, StatusGood, peersPage!peerStateString, HasEvent,
  peersPage!Listed, peersPage!Stored,
   Clouded, Clouds, Alone, Restores, Writes, Created, On, peersPage!Out

LEMMA UserRows ==
  ASSUME peersPage!PeersPageBounds, ServerInv, RowsInv, peersPage!User
  PROVE  RowsInv'
<1>1. CASE peersPage!Retry
  BY <1>1, FetchRows
<1>2. CASE \/ peersPage!Add \/ peersPage!Close \/ peersPage!onRequestDelete \/ peersPage!CloseDelete
           \/ \E p \in Peers : peersPage!Edit(p)
           \/ \E t \in prompts : peersPage!Dismiss(t)
  <2>1. peersPage!UserFrame
    BY <1>2 DEF peersPage!Add, peersPage!Close, peersPage!onRequestDelete, peersPage!CloseDelete,
      peersPage!Edit, peersPage!Dismiss
  <2> QED BY <2>1, FrameRows DEF peersPage!UserFrame, peersPage!server, peersPage!stream,
  peersPage!cache, peersPage!past
<1> USE DEF peersPage!Guessed, peersPage!Saves, Ops, peersPage!Statuses, peersPage!Transient
<1>3. ASSUME NEW c \in peersPage!Calls, peersPage!RowMenu(c)
      PROVE  RowsInv'
  BY <1>3, AskRows DEF peersPage!RowMenu, peersPage!handleStart, peersPage!handleStop,
    peersPage!useStartPeer, peersPage!useStopPeer
<1>4. ASSUME NEW c \in peersPage!Calls,
             peersPage!createPeer(c) \/ peersPage!updatePeer(c) \/
               peersPage!DeletePeerModal(c) \/ peersPage!handleTest(c)
      PROVE  RowsInv'
  BY <1>4, AskRows DEF peersPage!createPeer, peersPage!updatePeer, peersPage!DeletePeerModal,
    peersPage!handleTest, peersPage!Unguessed
<1>5. ASSUME NEW c \in peersPage!Calls, NEW t \in prompts, peersPage!runPrompt(c, t)
      PROVE  RowsInv'
  <2>1. t.peer \in Peers
    BY <1>5 DEF ServerInv, PeersTyped, DialogTypes
  <2> QED BY <1>5, <2>1, AskRows DEF peersPage!runPrompt, peersPage!useStartPeer,
  peersPage!useRestartPeer
<1> QED BY <1>1, <1>2, <1>3, <1>4, <1>5 DEF peersPage!User

LEMMA InitRows ==
  ASSUME peersPage!PeersPageBounds, peersPage!Init
  PROVE  RowsInv
<1> SUFFICES ASSUME NEW p \in Peers PROVE RowInv(p)
  BY DEF RowsInv
<1>1. \A c \in peersPage!Calls : ~peersPage!Out(c)
  BY DEF peersPage!Init, peersPage!Out
<1>2. \A c \in peersPage!Calls : ~Restores(c, p) /\ ~Writes(c, p)
  BY <1>1 DEF Restores, Writes, On
<1>3. CASE peersPage!Loaded
  <2>1. /\ rows = peersPage!listPeers /\ fetch = peersPage!Idle
        /\ DOMAIN peersPage!listPeers = peersPage!Stored
    BY <1>3 DEF peersPage!Loaded, peersPage!listPeers
  <2>2. p \in DOMAIN rows => Good(rows[p], p)
    BY <2>1
    DEF peersPage!listPeers, Good, StatusGood, peersPage!toPeerResponse, peersPage!Stored
  <2> QED BY <1>2, <2>1, <2>2 DEF RowInv, peersPage!Idle, peersPage!Listed
<1>4. CASE peersPage!NotLoaded
  BY <1>2, <1>4 DEF peersPage!NotLoaded, RowInv, peersPage!Listed
<1> QED BY <1>3, <1>4 DEF peersPage!Init

-----------------------------------------------------------------------------------
PeersInv == ServerInv /\ StillEvents /\ RowsInv

LEMMA UserServer ==
  ASSUME peersPage!PeersPageBounds, ServerInv, StillEvents, peersPage!User
  PROVE  ServerInv' /\ StillEvents'
<1>0. PeersTyped'
  BY UserTypes DEF ServerInv
<1>1. CASE peersPage!Retry
  BY <1>0, <1>1, QuietServer
<1>2. CASE \/ peersPage!Add \/ peersPage!Close \/ peersPage!onRequestDelete \/ peersPage!CloseDelete
           \/ \E p \in Peers : peersPage!Edit(p)
           \/ \E t \in prompts : peersPage!Dismiss(t)
  <2>1. peersPage!UserFrame
    BY <1>2 DEF peersPage!Add, peersPage!Close, peersPage!onRequestDelete, peersPage!CloseDelete,
      peersPage!Edit, peersPage!Dismiss
  <2> QED BY <1>0, <2>1, QuietServer
<1> USE DEF peersPage!Guessed, peersPage!Saves, Ops
<1>3. ASSUME NEW p, NEW status, peersPage!optimisticStatusPatch(p, status)
      PROVE  moved' = moved \/ peersPage!forgetMoves
  BY <1>3 DEF peersPage!optimisticStatusPatch, peersPage!writePeerToCaches, peersPage!setList
<1>4. ASSUME NEW c \in peersPage!Calls, peersPage!RowMenu(c)
      PROVE  ServerInv' /\ StillEvents'
  BY <1>0, <1>3, <1>4, AskServer DEF peersPage!RowMenu, peersPage!handleStart,
    peersPage!handleStop, peersPage!useStartPeer, peersPage!useStopPeer
<1>5. ASSUME NEW c \in peersPage!Calls,
             peersPage!updatePeer(c) \/ peersPage!DeletePeerModal(c) \/ peersPage!handleTest(c)
      PROVE  ServerInv' /\ StillEvents'
  BY <1>0, <1>5, AskServer
  DEF peersPage!updatePeer, peersPage!DeletePeerModal, peersPage!handleTest, peersPage!Unguessed
<1>6. ASSUME NEW c \in peersPage!Calls, peersPage!createPeer(c)
      PROVE  ServerInv' /\ StillEvents'
  <2>1. PICK p \in Peers \ (Managed \cup peersPage!Stored \cup
          gone), value \in peersPage!Versions : peersPage!Ask(c, "create", p, value)
    BY <1>6 DEF peersPage!createPeer
  <2>2. ~\E d \in peersPage!Calls : peersPage!Out(d) /\ calls[d].op = "create"
    BY <1>6 DEF peersPage!createPeer, peersPage!submitting
  <2>3. moved' = moved
    BY <1>6 DEF peersPage!createPeer, peersPage!Unguessed
  <2> QED BY <1>0, <2>1, <2>2, <2>3, AskServer
<1>7. ASSUME NEW c \in peersPage!Calls, NEW t \in prompts, peersPage!runPrompt(c, t)
      PROVE  ServerInv' /\ StillEvents'
  BY <1>0, <1>3, <1>7, AskServer
  DEF peersPage!runPrompt, peersPage!useStartPeer, peersPage!useRestartPeer
<1> QED BY <1>1, <1>2, <1>4, <1>5, <1>6, <1>7 DEF peersPage!User

LEMMA InitPeersInv == peersPage!PeersPageBounds /\ peersPage!Init => PeersInv
BY InitServerInv, InitRows DEF PeersInv

LEMMA NextPeersInv ==
  ASSUME peersPage!PeersPageBounds, PeersInv, [peersPage!Next]_(peersPage!vars)
  PROVE  PeersInv'
<1> USE DEF PeersInv
<1>0. PeersTyped'
  BY NextTypes DEF ServerInv
<1>1. CASE UNCHANGED peersPage!vars
  <2>1. RowsInv'
    BY <1>1, FrameRows
    DEF peersPage!vars, peersPage!server, peersPage!stream, peersPage!cache, peersPage!past
  <2>2. peersPage!UserFrame
    BY <1>1 DEF peersPage!vars, peersPage!UserFrame
  <2> QED BY <1>0, <2>1, <2>2, QuietServer
<1>2. CASE peersPage!FetchHandled \/ peersPage!FetchReturns \/ peersPage!FetchFails \/
        peersPage!StreamBreaks
  BY <1>0, <1>2, FetchRows, QuietServer
<1>3. CASE peersPage!StreamOpens \/ peersPage!Moves
  BY <1>3, StreamRows, OpenServer, MoveServer
<1>4. CASE \E e \in events : peersPage!applyPeerUpdated(e)
  BY <1>4, EventRows, EventServer
<1>5. CASE \E c \in peersPage!Calls : peersPage!Handler(c)
  BY <1>5, ConnectionRows, SaveRows, FailRows, ConnectionServer, SaveServer, FailServer
  DEF peersPage!Handler
<1>6. CASE \E c \in peersPage!Calls : peersPage!Returns(c)
  BY <1>0, <1>6, ReturnRows, QuietServer
<1>7. CASE peersPage!User
  BY <1>7, UserRows, UserServer
<1> QED BY <1>1, <1>2, <1>3, <1>4, <1>5, <1>6, <1>7 DEF peersPage!Next

\* The cache, the calls, the dialogs and what the toasts compare with keep their types: no answer,
\* event or rollback leaves half a row (peers.ts, applyEventToCache.ts, usePeerStatusToasts.ts).
THEOREM PeersTypes == peersPage!PeersPageBounds => (peersPage!Spec => []peersPage!TypeOK)
<1> SUFFICES ASSUME peersPage!PeersPageBounds PROVE peersPage!Spec => []peersPage!TypeOK
  OBVIOUS
<1>1. peersPage!Init => PeersTyped
  BY InitTypes
<1>2. PeersTyped /\ [peersPage!Next]_(peersPage!vars) => PeersTyped'
  BY NextTypes
<1>3. PeersTyped => peersPage!TypeOK
  BY TypesGiveTypeOK
<1> QED BY <1>1, <1>2, <1>3, PTL DEF peersPage!Spec

\* Once all is quiet nothing is in doubt.
LEMMA QuietTable ==
  ASSUME peersPage!PeersPageBounds, PeersInv
  PROVE  peersPage!TableIsServers
<1> SUFFICES ASSUME peersPage!Quiet, peersPage!TableShown,
                    NEW p \in Peers \ (overtaken \cup replayed \cup missed)
             PROVE  /\ p \in DOMAIN rows <=> p \in peersPage!Stored
                    /\ p \in peersPage!Stored => rows[p] = peersPage!listPeers[p]
  BY DEF peersPage!TableIsServers
<1>1. rows # None /\ fetch.phase = "none" /\ ~Clouded(p) /\ ~HasEvent(p) /\ ~Created(p) /\ RowInv(p)
  BY DEF peersPage!Quiet, peersPage!TableShown, Clouded, Clouds, On, HasEvent, Created,
    peersPage!Idle, PeersInv, RowsInv
<1>2. IsList(rows) /\ (peersPage!Listed(p) <=> p \in DOMAIN rows)
  BY <1>1 DEF PeersInv, ServerInv, PeersTyped, CacheTypes, peersPage!Listed
<1>3. CASE p \in DOMAIN rows
  <2>1. Good(rows[p], p) /\ rows[p] \in Rows
    BY <1>1, <1>2, <1>3 DEF RowInv, IsList
  <2>2. p \in peersPage!Stored
    BY <2>1, GoodIsStored DEF PeersInv, ServerInv
  <2>3. rows[p].config = config[p] /\ rows[p].status = peersPage!peerStateString(p)
    BY <1>1, <2>1 DEF Good, StatusGood, peersPage!Quiet
  <2> QED
    BY <1>3, <2>1, <2>2, <2>3 DEF peersPage!listPeers, peersPage!toPeerResponse, Rows
<1>4. CASE p \notin DOMAIN rows
  BY <1>1, <1>2, <1>4 DEF RowInv
<1> QED BY <1>3, <1>4

\* Whatever guesses, answers, events, rollbacks and list answers wrote the cache, and in whatever
\* order, the table that is shown is the server's once nothing is out and the stream is read; but
\* for the rows an older answer or an old event was written over, and for the peers that had no
\* row when a reload failed, whose failure any write of the list ends (peers.ts,
\* applyEventToCache.ts, PeersPage.tsx, sse.go, manager.go).
THEOREM PeersTableSettles ==
  peersPage!PeersPageBounds => (peersPage!Spec => []peersPage!TableIsServers)
<1> SUFFICES ASSUME peersPage!PeersPageBounds PROVE peersPage!Spec => []peersPage!TableIsServers
  OBVIOUS
<1>1. peersPage!Init => PeersInv
  BY InitPeersInv
<1>2. PeersInv /\ [peersPage!Next]_(peersPage!vars) => PeersInv'
  BY NextPeersInv
<1>3. PeersInv => peersPage!TableIsServers
  BY QuietTable
<1> QED BY <1>1, <1>2, <1>3, PTL DEF peersPage!Spec

-----------------------------------------------------------------------------------
(* The peers page: the toasts.                                                     *)

\* A call that will write its answer as the newest word on the peer.
Tells(c, p) ==
  On(c, p) /\ calls[c].phase = "answered" /\ calls[c].op # "delete" /\ ~calls[c].late

\* While a peer's connection has not changed since its last toast, what the toasts compare with
\* is its status, and so is all that is on its way to the row.
LastIsRow(p) ==
  IF peersPage!Listed(p) THEN rows[p].status \in Settled => lastStatus[p] = rows[p].status
  ELSE lastStatus[p] = None
StillLast(p) == p \notin moved \cup overtaken => lastStatus[p] \in {None, live[p]}
StillFetch(p) ==
  fetch.phase = "answered" /\ p \in DOMAIN fetch.ans /\ p \notin moved \cup fetch.passed =>
    fetch.ans[p].status = live[p]
StillAnswer(c, p) == Tells(c, p) /\ p \notin moved => calls[c].ans.status = live[p]
StillPrev(c, p) ==
  Restores(c, p) /\ peersPage!Listed(p) /\ calls[c].prev.status \in Settled => lastStatus[p] =
    calls[c].prev.status

ToastInv(p) ==
  /\ LastIsRow(p) /\ StillLast(p) /\ StillFetch(p)
  /\ \A c \in peersPage!Calls : StillAnswer(c, p) /\ StillPrev(c, p)

ToastsInv == \A p \in Peers : ToastInv(p)

StepTells(p) == p \notin moved \cup overtaken \cup overtaken' => lastStatus'[p] \in {None, live[p]}

\* A step that leaves a peer's row and its record as they are.
LEMMA ToastKept ==
  ASSUME NEW p \in Peers, ToastInv(p),
         live'[p] = live[p] \/ p \in moved', p \in moved => p \in moved', p \in overtaken =>
           p \in overtaken',
         lastStatus'[p] = lastStatus[p], peersPage!Listed(p)' <=> peersPage!Listed(p),
         peersPage!Listed(p) => rows'[p].status = rows[p].status \/ rows'[p].status \notin Settled,
         StillFetch(p)' \/ fetch'.phase # "answered"
           \/ /\ fetch.phase = "answered" /\ fetch'.ans = fetch.ans
              /\ p \in fetch.passed => p \in fetch'.passed,
         \A c \in peersPage!Calls : /\ \/ Restores(c, p)' => Restores(c, p) /\ calls'[c].prev =
                                             calls[c].prev
                                       \/ StillPrev(c, p)'
                                    /\ \/ Tells(c, p)' => Tells(c, p) /\ calls'[c].ans =
                                             calls[c].ans
                                       \/ StillAnswer(c, p)'
  PROVE  ToastInv(p)' /\ StepTells(p)
<1>1. LastIsRow(p)' /\ StillLast(p)' /\ StepTells(p)
  BY DEF ToastInv, LastIsRow, StillLast, StepTells
<1>2. StillFetch(p)'
  BY DEF ToastInv, StillFetch
<1>3. ASSUME NEW c \in peersPage!Calls PROVE StillAnswer(c, p)' /\ StillPrev(c, p)'
  BY <1>3 DEF ToastInv, StillAnswer, StillPrev
<1> QED BY <1>1, <1>2, <1>3 DEF ToastInv

LEMMA ListIsNotNone ==
  ASSUME peersPage!PeersPageBounds, NEW list, IsList(list)
  PROVE  list # None
<1>1. DOMAIN list \in SUBSET Peers /\ list \in [DOMAIN list -> Rows]
  BY DEF IsList
<1>2. None \notin [DOMAIN list -> Rows]
  BY <1>1 DEF peersPage!PeersPageBounds, Rows
<1> QED BY <1>1, <1>2

LEMMA SettledOrTransient == peersPage!Statuses = Settled \cup peersPage!Transient /\
  Settled \cap peersPage!Transient = {}
BY DEF peersPage!Statuses, Settled, peersPage!Transient, peersPage!Live

\* What a write of the list leaves in the record.
LEMMA Observed ==
  ASSUME peersPage!PeersPageBounds, PeersTyped, NEW p \in Peers, NEW new, IsList(new),
         rows' = new, peersPage!observe(new), peersPage!forgetMoves
  PROVE  /\ peersPage!Listed(p)' <=> p \in DOMAIN new
         /\ p \notin DOMAIN new => lastStatus'[p] = None
         /\ p \in DOMAIN new => /\ new[p].status \in Settled => lastStatus'[p] = new[p].status
                                /\ new[p].status \notin Settled => lastStatus'[p] = lastStatus[p]
         /\ LastIsRow(p)'
         /\ p \in moved /\ p \notin moved' => lastStatus'[p] = live[p]
         /\ lastStatus'[p] = lastStatus[p] => (p \in moved => p \in moved')
<1>1. peersPage!Listed(p)' <=> p \in DOMAIN new
  BY ListIsNotNone DEF peersPage!Listed
<1>2. p \in DOMAIN new => new[p].status \in peersPage!Statuses
  BY DEF IsList, Rows
<1>3. /\ p \notin DOMAIN new => lastStatus'[p] = None
      /\ p \in DOMAIN new => /\ new[p].status \in Settled => lastStatus'[p] = new[p].status
                             /\ new[p].status \notin Settled => lastStatus'[p] = lastStatus[p]
  BY <1>2, SettledOrTransient DEF peersPage!observe
<1>4. LastIsRow(p)'
  BY <1>1, <1>3 DEF LastIsRow
<1>5. /\ p \in moved /\ p \notin moved' => lastStatus'[p] = live[p]
      /\ lastStatus'[p] = lastStatus[p] => (p \in moved => p \in moved')
  BY DEF peersPage!forgetMoves, peersPage!Told, peersPage!Toasted
<1> QED BY <1>1, <1>3, <1>4, <1>5

\* The peers a write is not about have the rows they had, and none of them is told of.
LEMMA OthersUntold ==
  ASSUME peersPage!PeersPageBounds, PeersTyped, NEW q \in Peers, ToastInv(q), NEW new,
         peersPage!setList(new),
         rows # None => /\ IsList(new) /\ (q \in DOMAIN new <=> q \in DOMAIN rows)
                        /\ q \in DOMAIN new => new[q].status = rows[q].status \/
                              new[q].status \notin Settled
  PROVE  /\ lastStatus'[q] = lastStatus[q] /\ (q \in moved => q \in moved')
         /\ peersPage!Listed(q)' <=> peersPage!Listed(q)
         /\ peersPage!Listed(q) => rows'[q].status = rows[q].status \/
               rows'[q].status \notin Settled
<1>1. CASE rows = None
  BY <1>1 DEF peersPage!setList, peersPage!Listed
<1>2. CASE rows # None
  <2>1. rows' = new /\ listFailed' = FALSE /\ peersPage!observe(new) /\ peersPage!forgetMoves /\ IsList(new)
    BY <1>2 DEF peersPage!setList
  <2>2. lastStatus'[q] = lastStatus[q] /\ (peersPage!Listed(q)' <=> peersPage!Listed(q))
    BY <1>2, <2>1, Observed DEF ToastInv, LastIsRow, peersPage!Listed
  <2> QED BY <1>2, <2>1, <2>2, Observed DEF peersPage!Listed
<1> QED BY <1>1, <1>2

\* What is passed over tells nothing.
LEMMA PassedTells ==
  ASSUME NEW cs, AreCalls(cs), NEW ps, NEW p \in ps, calls' = peersPage!passCalls(cs, ps),
         NEW c \in peersPage!Calls
  PROVE  ~Restores(c, p)' /\ ~Tells(c, p)'
<1>1. CASE peersPage!Out(c)'
  <2>1. calls'[c].phase = cs[c].phase /\ cs[c].phase \in Phases
    BY <1>1, Passing DEF peersPage!Out, Phases
  <2>2. /\ calls'[c].op = cs[c].op /\ calls'[c].peer = cs[c].peer
        /\ cs[c].peer \in ps => calls'[c].late = (cs[c].late \/ (cs[c].phase = "answered" /\
              cs[c].op # "delete"))
    BY <2>1, Passing
  <2> QED
    BY <1>1, <2>1, <2>2, PassedClaim DEF Tells, On
<1>2. CASE ~peersPage!Out(c)'
  BY <1>2 DEF Restores, Tells, On
<1> QED BY <1>1, <1>2

\* A row that is written: with its connection's status, or with the status it had settled in.
LEMMA ToastWritten ==
  ASSUME peersPage!PeersPageBounds, PeersTyped, NEW p \in Peers, ToastInv(p), UNCHANGED live,
         p \in moved \/ live[p] \in Settled,
         NEW cs, AreCalls(cs), NEW ps, p \in ps, calls' = peersPage!passCalls(cs, ps),
         fetch'.phase = "answered" => p \in fetch'.passed,
         NEW new, rows' = new, peersPage!observe(new), peersPage!forgetMoves, IsList(new),
         p \in DOMAIN new /\ p \notin moved \cup overtaken' =>
           \/ new[p].status = live[p]
           \/ p \notin overtaken /\ (new[p].status \in Settled => new[p].status = lastStatus[p])
  PROVE  ToastInv(p)' /\ StepTells(p)
<1>1. p \notin moved \cup overtaken' => lastStatus'[p] \in {None, live[p]}
  BY Observed DEF ToastInv, StillLast
<1>2. LastIsRow(p)' /\ StillLast(p)' /\ StepTells(p)
  BY <1>1, Observed DEF StillLast, StepTells
<1>3. StillFetch(p)'
  BY DEF StillFetch
<1>4. ASSUME NEW c \in peersPage!Calls PROVE StillAnswer(c, p)' /\ StillPrev(c, p)'
  BY <1>4, PassedTells DEF StillAnswer, StillPrev
<1> QED BY <1>2, <1>3, <1>4 DEF ToastInv

\* The same through the cache, which is not written before it has been loaded.
LEMMA ToastSet ==
  ASSUME peersPage!PeersPageBounds, PeersTyped, NEW p \in Peers, ToastInv(p), UNCHANGED live,
         p \in moved \/ live[p] \in Settled,
         NEW cs, AreCalls(cs), calls' = peersPage!passCalls(cs, {p}),
         fetch' = peersPage!passFetch({p}),
         NEW new, peersPage!setList(new), rows # None => IsList(new),
         rows # None /\ p \in DOMAIN new /\ p \notin moved \cup overtaken' =>
           \/ new[p].status = live[p]
           \/ p \notin overtaken /\ (new[p].status \in Settled => new[p].status = lastStatus[p])
  PROVE  ToastInv(p)' /\ StepTells(p)
<1>1. fetch'.phase = "answered" => p \in fetch'.passed
  BY PassingFetch DEF PeersTyped
<1>2. CASE rows = None
  <2>1. rows' = None /\ lastStatus' = lastStatus /\ lastStatus[p] = None
    BY <1>2 DEF peersPage!setList, ToastInv, LastIsRow, peersPage!Listed
  <2>2. LastIsRow(p)' /\ StillLast(p)' /\ StepTells(p)
    BY <2>1 DEF LastIsRow, peersPage!Listed, StillLast, StepTells
  <2>3. ASSUME NEW c \in peersPage!Calls PROVE StillAnswer(c, p)' /\ StillPrev(c, p)'
    BY <2>3, PassedTells DEF StillAnswer, StillPrev
  <2> QED BY <1>1, <2>2, <2>3 DEF ToastInv, StillFetch
<1>3. CASE rows # None
  <2>1. rows' = new /\ listFailed' = FALSE /\ peersPage!observe(new) /\ peersPage!forgetMoves /\ IsList(new)
    BY <1>3 DEF peersPage!setList
  <2> QED BY <1>1, <1>3, <2>1, ToastWritten
<1> QED BY <1>2, <1>3

LEMMA StaysTells ==
  ASSUME NEW p, NEW c \in peersPage!Calls, Stays(c, p)
  PROVE  /\ Restores(c, p)' => Restores(c, p) /\ calls'[c].prev = calls[c].prev
         /\ Tells(c, p)' => Tells(c, p) /\ calls'[c].ans = calls[c].ans
BY DEF Stays, Restores, Tells, On, peersPage!Out

\* The status the server answers with is the connection's, whoever manages it.
LEMMA LiveIsShown == Identity => \A p \in Peers : peersPage!peerStateString(p) = live[p]
BY DEF Identity, peersPage!peerStateString

\* A step that leaves a peer's row, its record and its connection as they are.
LEMMA ToastFrame ==
  ASSUME NEW p \in Peers, ToastInv(p), UNCHANGED <<rows, lastStatus, moved>>, live'[p] = live[p],
         p \in overtaken => p \in overtaken',
         \/ fetch'.phase # "answered"
         \/ /\ fetch.phase = "answered" /\ fetch'.ans = fetch.ans
            /\ p \in fetch.passed => p \in fetch'.passed,
         \A c \in peersPage!Calls : /\ Restores(c, p)' => Restores(c, p) /\ calls'[c].prev =
                                          calls[c].prev
                                    /\ \/ Tells(c, p)' => Tells(c, p) /\ calls'[c].ans =
                                             calls[c].ans
                                       \/ StillAnswer(c, p)'
  PROVE  ToastInv(p)' /\ StepTells(p)
<1>1. peersPage!Listed(p)' <=> peersPage!Listed(p)
  BY DEF peersPage!Listed
<1> QED BY <1>1, ToastKept

LEMMA ToastQueries ==
  ASSUME peersPage!PeersPageBounds, ServerInv, StillEvents, ToastsInv, NEW p \in Peers,
         peersPage!FetchHandled \/ peersPage!FetchReturns \/ peersPage!FetchFails \/
           peersPage!Retry \/ peersPage!StreamOpens \/ peersPage!StreamBreaks
  PROVE  ToastInv(p)' /\ StepTells(p)
<1>1. ToastInv(p) /\ PeersTyped /\ Identity
  BY DEF ToastsInv, ServerInv
<1>2. CASE peersPage!FetchHandled
  <2>1. /\ UNCHANGED <<rows, lastStatus, moved, live, overtaken, calls>>
        /\ fetch' = [phase |-> "answered", ans |-> peersPage!listPeers, passed |-> {}]
    BY <1>2 DEF peersPage!FetchHandled, peersPage!server, peersPage!past
  <2>2. StillFetch(p)'
    BY <1>1, <2>1, LiveIsShown DEF StillFetch, peersPage!listPeers, peersPage!toPeerResponse
  <2>3. /\ peersPage!Listed(p)' <=> peersPage!Listed(p)
        /\ \A c \in peersPage!Calls : Stays(c, p)
    BY <2>1 DEF peersPage!Listed, Stays
  <2> QED BY <1>1, <2>1, <2>2, <2>3, StaysTells, ToastKept
<1>3. CASE peersPage!FetchReturns
  <2>1. /\ fetch.phase = "answered" /\ fetch' = peersPage!Idle /\ rows' = fetch.ans /\ live' = live
        /\ overtaken' = fetch.passed /\ calls' = peersPage!passCalls(calls, Peers)
        /\ peersPage!observe(fetch.ans) /\ peersPage!forgetMoves
    BY <1>3 DEF peersPage!FetchReturns, peersPage!server, peersPage!stream
  <2>2. IsList(fetch.ans) /\ AreCalls(calls)
    BY <1>1, <2>1 DEF PeersTyped, CacheTypes, peersPage!Idle
  <2>3. p \in DOMAIN fetch.ans /\ p \notin moved \cup overtaken' => fetch.ans[p].status = live[p]
    BY <1>1, <2>1 DEF ToastInv, StillFetch
  <2>4. fetch'.phase # "answered" /\ (p \in moved \/ live[p] \in Settled)
    BY <2>1 DEF peersPage!Idle, StillEvents
  <2> QED BY <1>1, <2>1, <2>2, <2>3, <2>4, ToastWritten
<1>4. CASE peersPage!FetchFails
  <2>1. /\ UNCHANGED <<rows, lastStatus, moved, live, overtaken>> /\ fetch' = peersPage!Idle
        /\ calls' = [c \in peersPage!Calls |-> IF peersPage!Out(c) /\
              calls[c].op \in peersPage!Guessed
                                               THEN [calls[c] EXCEPT !.value = None] ELSE calls[c]]
    BY <1>4 DEF peersPage!FetchFails, peersPage!server, peersPage!past
  <2>2. fetch'.phase # "answered"
    BY <2>1 DEF peersPage!Idle
  <2>3. ASSUME NEW c \in peersPage!Calls
        PROVE  /\ Restores(c, p)' => Restores(c, p) /\ calls'[c].prev = calls[c].prev
               /\ Tells(c, p)' => Tells(c, p) /\ calls'[c].ans = calls[c].ans
    <3>1. CASE peersPage!Out(c)
      <4>1. IsCall(calls[c])
        BY <1>1, <3>1, CallIsTyped DEF peersPage!Out, Phases
      <4>2. /\ calls'[c].phase = calls[c].phase /\ calls'[c].op = calls[c].op
            /\ calls'[c].peer = calls[c].peer /\ calls'[c].prev = calls[c].prev
            /\ calls'[c].ans = calls[c].ans /\ calls'[c].passed = calls[c].passed
            /\ calls'[c].late = calls[c].late
        BY <2>1, <4>1 DEF IsCall
      <4> QED BY <4>2 DEF Restores, Tells, On, peersPage!Out
    <3>2. CASE ~peersPage!Out(c)
      BY <2>1, <3>2 DEF Restores, Tells, On, peersPage!Out
    <3> QED BY <3>1, <3>2
  <2> QED BY <1>1, <2>1, <2>2, <2>3, ToastFrame
<1>5. CASE peersPage!Retry \/ peersPage!StreamOpens \/ peersPage!StreamBreaks
  <2>1. /\ UNCHANGED <<rows, lastStatus, moved, live, overtaken, calls>>
        /\ fetch' = fetch \/ fetch' = [phase |-> "asked"]
    BY <1>5 DEF peersPage!Retry, peersPage!StreamOpens, peersPage!StreamBreaks,
      peersPage!Refetched, peersPage!server, peersPage!stream, peersPage!cache, peersPage!past
  <2>2. \A c \in peersPage!Calls : Stays(c, p)
    BY <2>1 DEF Stays
  <2> QED BY <1>1, <2>1, <2>2, StaysTells, ToastFrame
<1> QED BY <1>2, <1>3, <1>4, <1>5

LEMMA ToastMoves ==
  ASSUME peersPage!PeersPageBounds, ServerInv, ToastsInv, NEW p \in Peers,
         peersPage!Moves \/ \E c \in peersPage!Calls : peersPage!startPeer(c) \/
           peersPage!stopPeer(c)
  PROVE  ToastInv(p)' /\ StepTells(p)
<1>1. ToastInv(p) /\ PeersTyped /\ Identity
  BY DEF ToastsInv, ServerInv
<1>2. /\ UNCHANGED <<rows, lastStatus, overtaken, fetch>>
      /\ (moved' = moved /\ live' = live)
         \/ \E q \in Peers : \E next : moved' = moved \cup {q} /\ live' = [live EXCEPT ![q] = next]
  BY DEF peersPage!Moves, peersPage!startPeer, peersPage!stopPeer, peersPage!HandledFrame,
    peersPage!cache, peersPage!PeersPageBounds
<1>3. /\ p \in moved => p \in moved'
      /\ live'[p] = live[p] \/ p \in moved'
      /\ peersPage!Listed(p)' <=> peersPage!Listed(p)
  BY <1>1, <1>2 DEF PeersTyped, ServerTypes, peersPage!Listed
<1>4. ASSUME NEW c \in peersPage!Calls
      PROVE  /\ Restores(c, p)' => Restores(c, p) /\ calls'[c].prev = calls[c].prev
             /\ \/ Tells(c, p)' => Tells(c, p) /\ calls'[c].ans = calls[c].ans
                \/ StillAnswer(c, p)'
  <2>1. CASE peersPage!Moves
    BY <2>1, StaysTells DEF peersPage!Moves, Stays
  <2>2. ASSUME NEW d \in peersPage!Calls, peersPage!startPeer(d) \/ peersPage!stopPeer(d)
        PROVE  /\ Restores(c, p)' => Restores(c, p) /\ calls'[c].prev = calls[c].prev
               /\ \/ Tells(c, p)' => Tells(c, p) /\ calls'[c].ans = calls[c].ans
                  \/ StillAnswer(c, p)'
    <3>1. calls[d].phase \in Phases
      BY <2>2 DEF peersPage!startPeer, peersPage!stopPeer, Phases
    <3>2. CASE \E phase \in {"second", "failed"} : calls' = [calls EXCEPT ![d].phase = phase]
      <4>1. PICK phase \in {"second", "failed"} : calls' = [calls EXCEPT ![d].phase = phase]
        BY <3>2
      <4>2. /\ c # d => calls'[c] = calls[c]
            /\ calls'[d].phase = phase /\ calls'[d].peer = calls[d].peer
            /\ calls'[d].prev = calls[d].prev /\ calls'[d].passed = calls[d].passed
        BY <1>1, <3>1, <4>1, Phasing
      <4> QED BY <3>1, <4>2 DEF Restores, Tells, On, peersPage!Out, Phases
    <3>3. CASE \E ans, late : peersPage!Answered(d, ans, late)
      <4>1. PICK ans, late : peersPage!Answered(d, ans, late)
        BY <3>3
      <4>2. /\ c # d => calls'[c] = calls[c]
            /\ calls'[d].phase = "answered" /\ calls'[d].op = calls[d].op
            /\ calls'[d].peer = calls[d].peer /\ calls'[d].prev = calls[d].prev
            /\ calls'[d].passed = calls[d].passed /\ calls'[d].ans = ans /\ calls'[d].late = late
        BY <1>1, <3>1, <4>1, Answering
      <4>3. calls[d].peer = p /\ ~late /\ p \notin moved' => ans.status = live'[p]
        <5>1. CASE peersPage!startPeer(d)
          <6>1. /\ calls[d].peer \in Managed
                /\ peersPage!Answered(d, peersPage!toPeerResponse(calls[d].peer, "connecting"), live[calls[d].peer] # "stopped")
                /\ live[calls[d].peer] = "stopped" => moved' = moved \cup {calls[d].peer}
            <7>1. ASSUME calls' = [calls EXCEPT ![d].phase = "failed"]
                  PROVE  FALSE
              <8>1. calls'[d].phase = "failed"
                BY <1>1, <3>1, <7>1, Phasing
              <8> QED BY <4>2, <8>1
            <7> QED BY <5>1, <7>1 DEF peersPage!startPeer
          <6>2. late = (live[calls[d].peer] # "stopped")
            BY <1>1, <3>1, <4>2, <6>1, Answering
          <6> QED BY <6>1, <6>2
        <5>2. CASE peersPage!stopPeer(d)
          <6>1. /\ peersPage!Answered(d, peersPage!toPeerResponse(calls[d].peer, "stopped"), FALSE)
                /\ live[calls[d].peer] = "stopped" => live' = live
                /\ live[calls[d].peer] # "stopped" => moved' = moved \cup {calls[d].peer}
            <7>1. ASSUME NEW phase \in {"second", "failed"}, calls' = [calls EXCEPT ![d].phase = phase]
                  PROVE  FALSE
              <8>1. calls'[d].phase = phase
                BY <1>1, <3>1, <7>1, Phasing
              <8> QED BY <4>2, <7>1, <8>1
            <7> QED BY <5>2, <7>1 DEF peersPage!stopPeer
          <6>2. ans = peersPage!toPeerResponse(calls[d].peer, "stopped")
            BY <1>1, <3>1, <4>2, <6>1, Answering
          <6> QED BY <6>1, <6>2 DEF peersPage!toPeerResponse
        <5> QED BY <2>2, <5>1, <5>2
      <4>4. c = d => StillAnswer(c, p)'
        BY <4>2, <4>3 DEF StillAnswer, Tells, On
      <4> QED BY <3>1, <4>2, <4>4 DEF Restores, Tells, On, peersPage!Out, Phases
    <3> QED BY <2>2, <3>2, <3>3 DEF peersPage!startPeer, peersPage!stopPeer
  <2> QED BY <2>1, <2>2
<1>5. \/ fetch'.phase # "answered"
      \/ /\ fetch.phase = "answered" /\ fetch'.ans = fetch.ans
         /\ p \in fetch.passed => p \in fetch'.passed
  BY <1>2
<1>6. peersPage!Listed(p) => rows'[p].status = rows[p].status
  BY <1>2
<1> QED BY <1>1, <1>2, <1>3, <1>4, <1>5, <1>6, ToastKept

LEMMA ToastSaves ==
  ASSUME peersPage!PeersPageBounds, ServerInv, ToastsInv, NEW p \in Peers,
         NEW c \in peersPage!Calls, peersPage!saveOrDelete(c)
  PROVE  ToastInv(p)' /\ StepTells(p)
<1>1. ToastInv(p) /\ PeersTyped /\ Identity
  BY DEF ToastsInv, ServerInv
<1>2. /\ UNCHANGED <<rows, lastStatus, moved, live, overtaken, fetch>>
      /\ calls[c].phase = "asked" /\ calls[c].op \in peersPage!Saves /\ calls[c].phase \in Phases
  BY DEF peersPage!saveOrDelete, peersPage!HandledFrame, peersPage!cache, Phases
<1>3. ASSUME NEW d \in peersPage!Calls
      PROVE  /\ Restores(d, p)' => Restores(d, p) /\ calls'[d].prev = calls[d].prev
             /\ \/ Tells(d, p)' => Tells(d, p) /\ calls'[d].ans = calls[d].ans
                \/ StillAnswer(d, p)'
  <2>1. CASE calls' = [calls EXCEPT ![c].phase = "failed"]
    <3>1. /\ d # c => calls'[d] = calls[d]
          /\ calls'[c].phase = "failed" /\ calls'[c].peer = calls[c].peer
          /\ calls'[c].prev = calls[c].prev /\ calls'[c].passed = calls[c].passed
      BY <1>1, <1>2, <2>1, Phasing
    <3> QED BY <1>2, <3>1 DEF Restores, Tells, On, peersPage!Out
  <2>2. CASE calls' # [calls EXCEPT ![c].phase = "failed"]
    <3> DEFINE ans == [config |-> calls[c].value, status |-> peersPage!peerStateString(calls[c].peer)]
    <3>1. peersPage!Answered(c, ans, FALSE)
      BY <2>2 DEF peersPage!saveOrDelete
    <3>2. ans.status = peersPage!peerStateString(calls[c].peer)
      OBVIOUS
    <3> HIDE DEF ans
    <3>3. /\ d # c => calls'[d] = calls[d]
          /\ calls'[c].phase = "answered" /\ calls'[c].peer = calls[c].peer
          /\ calls'[c].prev = calls[c].prev /\ calls'[c].passed = calls[c].passed /\
                calls'[c].ans = ans
      BY <1>1, <1>2, <3>1, Answering
    <3>4. calls[c].peer = p => ans.status = live'[p]
      BY <1>1, <1>2, <3>2, LiveIsShown
    <3>5. d = c => StillAnswer(d, p)'
      BY <3>3, <3>4 DEF StillAnswer, Tells, On
    <3> QED BY <1>2, <3>3, <3>5 DEF Restores, Tells, On, peersPage!Out
  <2> QED BY <2>1, <2>2
<1>4. \/ fetch'.phase # "answered"
      \/ /\ fetch.phase = "answered" /\ fetch'.ans = fetch.ans
         /\ p \in fetch.passed => p \in fetch'.passed
  BY <1>2
<1> QED BY <1>1, <1>2, <1>3, <1>4, ToastFrame

LEMMA ToastFails ==
  ASSUME peersPage!PeersPageBounds, ServerInv, ToastsInv, NEW q \in Peers,
         NEW c \in peersPage!Calls, peersPage!CallFails(c)
  PROVE  ToastInv(q)' /\ StepTells(q)
<1> DEFINE p == calls[c].peer
           k == [calls[c] EXCEPT !.phase = "failed", !.ans = None, !.late = FALSE]
           failed == [calls EXCEPT ![c] = k]
<1>1. /\ UNCHANGED <<rows, lastStatus, moved, live>> /\ (q \in overtaken => q \in overtaken')
      /\ calls[c].phase \in {"asked", "second", "answered"} /\ calls[c].op # "probe"
  BY DEF peersPage!CallFails, peersPage!server
<1>2. ToastInv(q) /\ PeersTyped /\ IsCall(calls[c]) /\ DOMAIN calls = peersPage!Calls
  BY <1>1, CallIsTyped DEF ServerInv, ToastsInv, Phases
<1>3. /\ k.phase = "failed" /\ k.op = calls[c].op /\ k.peer = p /\ k.prev = calls[c].prev
      /\ k.passed = calls[c].passed /\ IsCall(k) /\ p \in Peers
  BY <1>1, <1>2 DEF IsCall, Phases
<1>4. AreCalls(failed)
  BY <1>2, <1>3 DEF AreCalls, PeersTyped
<1>5. failed[c] = k /\ \A d \in peersPage!Calls : d # c => failed[d] = calls[d]
  BY <1>2
<1>6. \/ calls' = peersPage!passCalls(failed, {p}) /\ fetch' = peersPage!passFetch({p})
      \/ calls' = failed /\ fetch' = fetch
  BY DEF peersPage!CallFails
<1> HIDE DEF failed, k
<1>7. \/ fetch'.phase # "answered"
      \/ /\ fetch.phase = "answered" /\ fetch'.ans = fetch.ans
         /\ q \in fetch.passed => q \in fetch'.passed
  BY <1>2, <1>3, <1>6, PassingFetch DEF PeersTyped
<1>8. ASSUME NEW d \in peersPage!Calls
      PROVE  /\ Restores(d, q)' => Restores(d, q) /\ calls'[d].prev = calls[d].prev
             /\ Tells(d, q)' => Tells(d, q) /\ calls'[d].ans = calls[d].ans
  <2>1. CASE calls' = failed
    BY <1>1, <1>3, <1>5, <2>1 DEF Restores, Tells, On, peersPage!Out
  <2>2. CASE calls' = peersPage!passCalls(failed, {p}) /\ p = q
    <3>1. calls' = peersPage!passCalls(failed, {q})
      BY <2>2
    <3> QED BY <1>4, <3>1, PassedTells
  <2>3. CASE calls' = peersPage!passCalls(failed, {p}) /\ p # q
    <3>1. \A e \in peersPage!Calls : \/ failed[e] = calls[e]
                                     \/ calls[e].peer = p /\ (failed[e].phase \in Phases =>
                                           failed[e].peer = p)
      BY <1>3, <1>5
    <3> QED BY <1>4, <2>3, <3>1, OthersStay, StaysTells
  <2> QED BY <1>6, <2>1, <2>2, <2>3
<1> QED BY <1>1, <1>2, <1>7, <1>8, ToastFrame

\* A call that is done writes its row and no other.
LEMMA ToastReturned ==
  ASSUME peersPage!PeersPageBounds, ServerInv, StillEvents, ToastsInv, NEW q \in Peers,
         NEW c \in peersPage!Calls, peersPage!Out(c), NEW p \in Peers,
         calls[c].peer = p, UNCHANGED live,
         calls' = peersPage!passCalls(peersPage!Done(calls, c), {p}), fetch' =
           peersPage!passFetch({p}),
         q # p => (q \in overtaken => q \in overtaken'),
         NEW new, peersPage!setList(new),
         rows # None => /\ IsList(new)
                        /\ q # p => (q \in DOMAIN new <=> q \in DOMAIN rows)
                                    /\ (q \in DOMAIN new => new[q] = rows[q])
                        /\ p \in DOMAIN new /\ p \notin moved \cup overtaken' =>
                             \/ new[p].status = live[p]
                             \/ p \notin overtaken /\ (new[p].status \in Settled =>
                                   new[p].status = lastStatus[p])
  PROVE  ToastInv(q)' /\ StepTells(q)
<1>1. ToastInv(q) /\ PeersTyped /\ AreCalls(peersPage!Done(calls, c)) /\ DOMAIN calls =
        peersPage!Calls
  BY CallIsTyped, Finishing DEF ServerInv, ToastsInv, PeersTyped, peersPage!Out, Phases
<1>2. CASE q = p
  <2>1. p \in moved \/ live[p] \in Settled
    BY DEF StillEvents
  <2> QED BY <1>1, <1>2, <2>1, ToastSet
<1>3. CASE q # p
  <2>1. /\ lastStatus'[q] = lastStatus[q] /\ (q \in moved => q \in moved')
        /\ peersPage!Listed(q)' <=> peersPage!Listed(q)
        /\ peersPage!Listed(q) => rows'[q].status = rows[q].status \/ rows'[q].status \notin Settled
    BY <1>1, <1>3, OthersUntold
  <2>2. \A d \in peersPage!Calls : \/ peersPage!Done(calls, c)[d] = calls[d]
                                   \/ calls[d].peer = p /\ (peersPage!Done(calls, c)[d].phase \in Phases => peersPage!Done(calls, c)[d].peer = p)
    BY <1>1 DEF peersPage!Done, Phases
  <2>3. \A d \in peersPage!Calls : Stays(d, q)
    BY <1>1, <1>3, <2>2, OthersStay
  <2>4. \/ fetch'.phase # "answered"
        \/ /\ fetch.phase = "answered" /\ fetch'.ans = fetch.ans
           /\ q \in fetch.passed => q \in fetch'.passed
    BY <1>1, PassingFetch DEF PeersTyped
  <2>5. live'[q] = live[q] \/ q \in moved'
    OBVIOUS
  <2>6. ASSUME NEW d \in peersPage!Calls
        PROVE  /\ Restores(d, q)' => Restores(d, q) /\ calls'[d].prev = calls[d].prev
               /\ Tells(d, q)' => Tells(d, q) /\ calls'[d].ans = calls[d].ans
    BY <2>3, StaysTells
  <2> QED BY <1>1, <1>3, <2>1, <2>4, <2>5, <2>6, ToastKept
<1> QED BY <1>2, <1>3

\* A call that is done and writes no row.
LEMMA ToastDropped ==
  ASSUME peersPage!PeersPageBounds, ServerInv, ToastsInv, NEW q \in Peers,
         NEW c \in peersPage!Calls, peersPage!Out(c),
         UNCHANGED <<rows, lastStatus, moved, live, overtaken>>, calls' = peersPage!Done(calls, c),
         \/ fetch'.phase # "answered"
         \/ /\ fetch.phase = "answered" /\ fetch'.ans = fetch.ans
            /\ q \in fetch.passed => q \in fetch'.passed
  PROVE  ToastInv(q)' /\ StepTells(q)
<1>1. ToastInv(q) /\ DOMAIN calls = peersPage!Calls
  BY CallIsTyped DEF ServerInv, ToastsInv, peersPage!Out, Phases
<1>2. calls'[c] = [phase |-> "done"] /\ \A d \in peersPage!Calls \ {c} : calls'[d] = calls[d]
  BY <1>1 DEF peersPage!Done
<1>3. \A d \in peersPage!Calls : /\ Restores(d, q)' => Restores(d, q) /\ calls'[d].prev =
                                       calls[d].prev
                                 /\ Tells(d, q)' => Tells(d, q) /\ calls'[d].ans = calls[d].ans
  BY <1>2 DEF Restores, Tells, On, peersPage!Out
<1> QED BY <1>1, <1>3, ToastFrame

LEMMA PatchedList ==
  ASSUME CacheTypes, NEW p \in Peers, NEW row \in Rows, rows # None
  PROVE  /\ IsList(peersPage!patch(p, row)) /\ DOMAIN peersPage!patch(p, row) = DOMAIN rows
         /\ p \in DOMAIN rows => peersPage!patch(p, row)[p] = row
         /\ \A q : q # p /\ q \in DOMAIN rows => peersPage!patch(p, row)[q] = rows[q]
<1>1. IsList(peersPage!patch(p, row))
  BY Patching
<1> QED BY <1>1 DEF peersPage!patch, peersPage!Listed, CacheTypes

LEMMA ToastReturns ==
  ASSUME peersPage!PeersPageBounds, ServerInv, StillEvents, ToastsInv, NEW q \in Peers,
         NEW c \in peersPage!Calls, peersPage!Returns(c)
  PROVE  ToastInv(q)' /\ StepTells(q)
<1> DEFINE p == calls[c].peer
<1>1. live' = live /\ calls[c].phase \in {"asked", "answered", "failed"} /\ peersPage!Out(c) /\
        calls[c].phase \in Phases
  BY DEF peersPage!Returns, peersPage!rollback, peersPage!startReturns, peersPage!updateReturns,
    peersPage!createReturns, peersPage!deleteReturns, peersPage!ProbeReturns,
     peersPage!server, peersPage!Out, Phases
<1>2. ToastInv(q) /\ PeersTyped /\ CacheTypes /\ IsCall(calls[c])
  BY <1>1, CallIsTyped DEF ServerInv, ToastsInv, PeersTyped
<1>3. calls[c].op # "probe" => p \in Peers /\ ToastInv(p)
  BY <1>2 DEF IsCall, ToastsInv
<1>4. CASE peersPage!ProbeReturns(c) \/ peersPage!createReturns(c) \/ (peersPage!rollback(c) /\
        calls[c].prev = None)
  <2>1. UNCHANGED <<rows, lastStatus, moved, overtaken>> /\ calls' = peersPage!Done(calls, c)
    BY <1>4 DEF peersPage!ProbeReturns, peersPage!createReturns, peersPage!rollback,
      peersPage!cache, peersPage!past
  <2>2. fetch' = fetch \/ fetch' = [phase |-> "asked"] \/ (p \in Peers /\
          fetch' = peersPage!passFetch({p}))
    BY <1>3, <1>4 DEF peersPage!ProbeReturns, peersPage!createReturns, peersPage!rollback,
      peersPage!cache, peersPage!past, peersPage!Refetched
  <2>3. \/ fetch'.phase # "answered"
        \/ /\ fetch.phase = "answered" /\ fetch'.ans = fetch.ans
           /\ q \in fetch.passed => q \in fetch'.passed
    BY <1>2, <2>2, PassingFetch
  <2> QED BY <1>1, <2>1, <2>3, ToastDropped
<1>5. CASE \/ peersPage!rollback(c) /\ calls[c].prev # None
           \/ peersPage!startReturns(c) \/ peersPage!updateReturns(c)
  <2> DEFINE row == IF calls[c].phase = "failed" THEN calls[c].prev ELSE calls[c].ans
  <2>1. p \in Peers /\ row \in Rows /\ calls[c].op # "probe"
    BY <1>1, <1>2, <1>5 DEF peersPage!rollback, peersPage!startReturns, peersPage!updateReturns,
      IsCall, peersPage!Guessed
  <2>2. /\ peersPage!setList(peersPage!patch(p, row))
        /\ calls' = peersPage!passCalls(peersPage!Done(calls, c), {p}) /\
              fetch' = peersPage!passFetch({p})
        /\ q # p => (q \in overtaken => q \in overtaken')
    BY <1>5 DEF peersPage!rollback, peersPage!startReturns, peersPage!updateReturns,
      peersPage!writePeerToCaches, peersPage!overtake
  <2>3. ASSUME rows # None, p \in DOMAIN rows, p \notin moved \cup overtaken'
        PROVE  \/ row.status = live[p]
               \/ p \notin overtaken /\ (row.status \in Settled => row.status = lastStatus[p])
    <3>1. CASE peersPage!rollback(c)
      <4>1. Restores(c, p) /\ p \notin overtaken /\ row = calls[c].prev
        BY <1>1, <1>5, <2>3, <3>1
        DEF peersPage!rollback, peersPage!startReturns, peersPage!updateReturns, Restores, On
      <4>2. peersPage!Listed(p)
        BY <2>3 DEF peersPage!Listed
      <4> QED BY <1>3, <2>1, <4>1, <4>2 DEF ToastInv, StillPrev
    <3>2. CASE peersPage!startReturns(c) \/ peersPage!updateReturns(c)
      <4>1. Tells(c, p) /\ row = calls[c].ans
        BY <1>1, <2>3, <3>2 DEF peersPage!startReturns, peersPage!updateReturns,
          peersPage!overtake, Tells, On, peersPage!Guessed
      <4> QED BY <1>3, <2>1, <2>3, <4>1 DEF ToastInv, StillAnswer
    <3> QED BY <1>5, <3>1, <3>2
  <2> HIDE DEF row, p
  <2>4. rows # None => /\ IsList(peersPage!patch(p, row))
                       /\ q # p => (q \in DOMAIN peersPage!patch(p, row) <=> q \in DOMAIN rows)
                                   /\ (q \in DOMAIN peersPage!patch(p, row) =>
                                         peersPage!patch(p, row)[q] = rows[q])
                       /\ p \in DOMAIN peersPage!patch(p, row) /\ p \notin moved \cup overtaken' =>
                            \/ peersPage!patch(p, row)[p].status = live[p]
                            \/ p \notin overtaken
                               /\ (peersPage!patch(p, row)[p].status \in Settled =>
                                     peersPage!patch(p, row)[p].status = lastStatus[p])
    BY <1>2, <2>1, <2>3, PatchedList
  <2>5. calls[c].peer = p
    BY DEF p
  <2> QED BY <1>1, <2>1, <2>2, <2>4, <2>5, ToastReturned
<1>6. CASE peersPage!deleteReturns(c)
  <2> DEFINE new == [r \in DOMAIN rows \ {p} |-> rows[r]]
  <2>1. /\ peersPage!setList(new) /\ p \in Peers
        /\ calls' = peersPage!passCalls(peersPage!Done(calls, c), {p}) /\
              fetch' = peersPage!passFetch({p})
        /\ q # p => (q \in overtaken => q \in overtaken')
    BY <1>3, <1>6 DEF peersPage!deleteReturns, peersPage!overtake
  <2>2. rows # None => IsList(new)
    BY <1>2 DEF CacheTypes, IsList
  <2>3. p \notin DOMAIN new /\ (q # p => (q \in DOMAIN new <=> q \in DOMAIN rows) /\
          (q \in DOMAIN new => new[q] = rows[q]))
    OBVIOUS
  <2>4. calls[c].peer = p
    OBVIOUS
  <2> HIDE DEF new, p
  <2> QED BY <1>1, <2>1, <2>2, <2>3, <2>4, ToastReturned
<1> QED BY <1>4, <1>5, <1>6 DEF peersPage!Returns

LEMMA ToastEvent ==
  ASSUME peersPage!PeersPageBounds, ServerInv, StillEvents, ToastsInv, NEW q \in Peers,
         NEW e \in events, peersPage!applyPeerUpdated(e)
  PROVE  ToastInv(q)' /\ StepTells(q)
<1> DEFINE p == e.peer
           row == e.row
           new == [r \in DOMAIN rows \cup {p} |-> IF r = p THEN row ELSE rows[r]]
<1>1. ToastInv(q) /\ PeersTyped /\ CacheTypes /\ AreCalls(calls)
  BY DEF ServerInv, PeersTyped, ToastsInv
<1>2. /\ live' = live /\ peersPage!setList(new) /\ overtaken' = overtaken \ {p}
      /\ fetch' = peersPage!passFetch({p}) /\ calls' = peersPage!passCalls(calls, {p})
      /\ p \in Peers /\ row \in Rows
  <2>1. p \in Peers /\ row \in Rows
    BY <1>1 DEF PeersTyped, StreamTypes, IsEvent
  <2> QED BY <2>1 DEF peersPage!applyPeerUpdated, peersPage!server
<1>3. rows # None => IsList(new)
  BY <1>1, <1>2 DEF CacheTypes, IsList
<1>4. p \notin moved => row.status = live[p]
  BY <1>2 DEF StillEvents
<1>5. /\ p \in DOMAIN new /\ new[p] = row
      /\ q # p => (q \in DOMAIN new <=> q \in DOMAIN rows) /\ (q \in DOMAIN new => new[q] = rows[q])
  OBVIOUS
<1> HIDE DEF new, p, row
<1>6. CASE q = p
  <2>1. calls' = peersPage!passCalls(calls, {q}) /\ fetch' = peersPage!passFetch({q})
    BY <1>2, <1>6
  <2>2. q \in moved \/ live[q] \in Settled
    BY DEF StillEvents
  <2>3. q \notin moved => new[q].status = live[q]
    BY <1>4, <1>5, <1>6
  <2> QED BY <1>1, <1>2, <1>3, <2>1, <2>2, <2>3, ToastSet
<1>7. CASE q # p
  <2>1. /\ lastStatus'[q] = lastStatus[q] /\ (q \in moved => q \in moved')
        /\ peersPage!Listed(q)' <=> peersPage!Listed(q)
        /\ peersPage!Listed(q) => rows'[q].status = rows[q].status \/ rows'[q].status \notin Settled
    BY <1>1, <1>2, <1>3, <1>5, <1>7, OthersUntold
  <2>2. \A d \in peersPage!Calls : \/ calls[d] = calls[d]
                                   \/ calls[d].peer = p /\ (calls[d].phase \in Phases =>
                                         calls[d].peer = p)
    OBVIOUS
  <2>3. \A d \in peersPage!Calls : Stays(d, q)
    BY <1>1, <1>2, <1>7, <2>2, OthersStay
  <2>4. \/ fetch'.phase # "answered"
        \/ /\ fetch.phase = "answered" /\ fetch'.ans = fetch.ans
           /\ q \in fetch.passed => q \in fetch'.passed
    BY <1>1, <1>2, PassingFetch
  <2>5. (live'[q] = live[q] \/ q \in moved') /\ (q \in overtaken => q \in overtaken')
    BY <1>2, <1>7
  <2>6. ASSUME NEW d \in peersPage!Calls
        PROVE  /\ Restores(d, q)' => Restores(d, q) /\ calls'[d].prev = calls[d].prev
               /\ Tells(d, q)' => Tells(d, q) /\ calls'[d].ans = calls[d].ans
    BY <2>3, StaysTells
  <2> QED BY <1>1, <2>1, <2>4, <2>5, <2>6, ToastKept
<1> QED BY <1>6, <1>7

\* A guess raises no toast: its status is one of a peer on its way.
LEMMA ToastAsks ==
  ASSUME peersPage!PeersPageBounds, ServerInv, ToastsInv, NEW q \in Peers,
         NEW c \in peersPage!Calls, NEW op \in Ops, NEW p, NEW value,
         peersPage!Ask(c, op, p, value),
         \/ op \notin peersPage!Guessed /\ UNCHANGED <<rows, lastStatus, moved>>
         \/ /\ op \in peersPage!Guessed /\ p \in Peers
            /\ \E status \in peersPage!Transient : peersPage!optimisticStatusPatch(p, status)
  PROVE  ToastInv(q)' /\ StepTells(q)
<1> DEFINE prev == IF op \in peersPage!Guessed THEN peersPage!Cached(p) ELSE None
<1>1. /\ UNCHANGED <<live, fetch, overtaken>> /\ calls[c].phase = "unused"
      /\ calls' = [calls EXCEPT ![c] =
           [phase |-> "asked", op |-> op, peer |-> p, value |-> value, prev |-> prev, ans |-> None,
            passed |-> prev # None /\ peersPage!Listed(p) /\ prev # rows[p], late |-> FALSE]]
  BY DEF peersPage!Ask, peersPage!server, peersPage!stream
<1>2. ToastInv(q) /\ PeersTyped /\ CacheTypes /\ DOMAIN calls = peersPage!Calls
  BY DEF ServerInv, PeersTyped, ToastsInv, AreCalls
<1>3. /\ lastStatus'[q] = lastStatus[q] /\ (q \in moved => q \in moved')
      /\ peersPage!Listed(q)' <=> peersPage!Listed(q)
      /\ peersPage!Listed(q) => rows'[q].status = rows[q].status \/ rows'[q].status \notin Settled
  <2>1. CASE UNCHANGED <<rows, lastStatus, moved>>
    BY <2>1 DEF peersPage!Listed
  <2>2. CASE op \in peersPage!Guessed /\ peersPage!Cached(p) # None
    <3>1. PICK status \in peersPage!Transient : peersPage!writePeerToCaches(p, [peersPage!Cached(p) EXCEPT !.status = status])
      BY <2>2 DEF peersPage!optimisticStatusPatch
    <3> DEFINE row == [peersPage!Cached(p) EXCEPT !.status = status]
    <3>2. p \in Peers /\ row \in Rows /\ row.status = status
      BY <1>2, <2>2, CachedIsRow DEF Rows, peersPage!Statuses
    <3>3. peersPage!setList(peersPage!patch(p, row))
      BY <3>1 DEF peersPage!writePeerToCaches
    <3> HIDE DEF row
    <3>4. rows # None => /\ IsList(peersPage!patch(p, row)) /\
                               (q \in DOMAIN peersPage!patch(p, row) <=> q \in DOMAIN rows)
                         /\ q \in DOMAIN peersPage!patch(p, row) =>
                              peersPage!patch(p, row)[q].status = rows[q].status \/
                                peersPage!patch(p, row)[q].status \notin Settled
      BY <1>2, <3>2, PatchedList, SettledOrTransient
    <3> QED BY <1>2, <3>3, <3>4, OthersUntold
  <2> QED BY <2>1, <2>2 DEF peersPage!optimisticStatusPatch
<1> HIDE DEF prev
<1>4. /\ calls'[c].phase = "asked" /\ calls'[c].peer = p /\ calls'[c].prev = prev
      /\ calls'[c].passed = (prev # None /\ peersPage!Listed(p) /\ prev # rows[p])
      /\ \A d \in peersPage!Calls \ {c} : calls'[d] = calls[d]
  BY <1>1, <1>2
<1>5. ASSUME NEW d \in peersPage!Calls
      PROVE  /\ \/ Restores(d, q)' => Restores(d, q) /\ calls'[d].prev = calls[d].prev
                \/ StillPrev(d, q)'
             /\ Tells(d, q)' => Tells(d, q) /\ calls'[d].ans = calls[d].ans
  <2>1. CASE d # c
    BY <1>4, <2>1 DEF Restores, Tells, On, peersPage!Out
  <2>2. CASE d = c
    <3>1. ~Tells(d, q)'
      BY <1>4, <2>2 DEF Tells
    <3>2. StillPrev(d, q)'
      <4> SUFFICES ASSUME Restores(d, q)', peersPage!Listed(q)', calls'[d].prev.status \in Settled
                   PROVE  lastStatus'[q] = calls'[d].prev.status
        BY DEF StillPrev
      <4>1. p = q /\ peersPage!Listed(q) /\ prev = rows[q]
        BY <1>3, <1>4, <2>2 DEF Restores, On
      <4> QED BY <1>2, <1>3, <1>4, <2>2, <4>1 DEF ToastInv, LastIsRow
    <3> QED BY <3>1, <3>2
  <2> QED BY <2>1, <2>2
<1>6. \/ fetch'.phase # "answered"
      \/ /\ fetch.phase = "answered" /\ fetch'.ans = fetch.ans
         /\ q \in fetch.passed => q \in fetch'.passed
  BY <1>1
<1>7. (live'[q] = live[q] \/ q \in moved') /\ (q \in overtaken => q \in overtaken')
  BY <1>1
<1> QED BY <1>2, <1>3, <1>5, <1>6, <1>7, ToastKept

LEMMA ToastUser ==
  ASSUME peersPage!PeersPageBounds, ServerInv, StillEvents, ToastsInv, NEW q \in Peers,
         peersPage!User \/ UNCHANGED peersPage!vars
  PROVE  ToastInv(q)' /\ StepTells(q)
<1>1. CASE peersPage!Retry
  BY <1>1, ToastQueries
<1>2. CASE \/ peersPage!Add \/ peersPage!Close \/ peersPage!onRequestDelete \/
                 peersPage!CloseDelete \/ UNCHANGED peersPage!vars
           \/ \E p \in Peers : peersPage!Edit(p)
           \/ \E t \in prompts : peersPage!Dismiss(t)
  <2>1. UNCHANGED <<rows, lastStatus, moved, live, overtaken, fetch, calls>>
    BY <1>2 DEF peersPage!Add, peersPage!Close, peersPage!onRequestDelete, peersPage!CloseDelete,
      peersPage!Edit, peersPage!Dismiss, peersPage!UserFrame, peersPage!vars, peersPage!server,
      peersPage!cache, peersPage!past
  <2>2. \A d \in peersPage!Calls : Stays(d, q)
    BY <2>1 DEF Stays
  <2>3. ASSUME NEW d \in peersPage!Calls
        PROVE  /\ Restores(d, q)' => Restores(d, q) /\ calls'[d].prev = calls[d].prev
               /\ Tells(d, q)' => Tells(d, q) /\ calls'[d].ans = calls[d].ans
    BY <2>2, StaysTells
  <2>4. ToastInv(q) /\ (fetch'.phase # "answered"
           \/ /\ fetch.phase = "answered" /\ fetch'.ans = fetch.ans
              /\ q \in fetch.passed => q \in fetch'.passed)
    BY <2>1 DEF ToastsInv
  <2> QED BY <2>1, <2>3, <2>4, ToastFrame
<1> USE DEF peersPage!Guessed, peersPage!Saves, Ops, peersPage!Transient
<1>3. ASSUME NEW c \in peersPage!Calls, peersPage!RowMenu(c)
      PROVE  ToastInv(q)' /\ StepTells(q)
  BY <1>3, ToastAsks DEF peersPage!RowMenu, peersPage!handleStart, peersPage!handleStop,
    peersPage!useStartPeer, peersPage!useStopPeer
<1>4. ASSUME NEW c \in peersPage!Calls,
             peersPage!createPeer(c) \/ peersPage!updatePeer(c) \/
               peersPage!DeletePeerModal(c) \/ peersPage!handleTest(c)
      PROVE  ToastInv(q)' /\ StepTells(q)
  BY <1>4, ToastAsks DEF peersPage!createPeer, peersPage!updatePeer, peersPage!DeletePeerModal,
    peersPage!handleTest, peersPage!Unguessed
<1>5. ASSUME NEW c \in peersPage!Calls, NEW t \in prompts, peersPage!runPrompt(c, t)
      PROVE  ToastInv(q)' /\ StepTells(q)
  <2>1. t.peer \in Peers
    BY <1>5 DEF ServerInv, PeersTyped, DialogTypes
  <2> QED BY <1>5, <2>1, ToastAsks DEF peersPage!runPrompt, peersPage!useStartPeer,
  peersPage!useRestartPeer
<1> QED BY <1>1, <1>2, <1>3, <1>4, <1>5 DEF peersPage!User

LEMMA InitToasts ==
  ASSUME peersPage!PeersPageBounds, peersPage!Init
  PROVE  ToastsInv
<1> SUFFICES ASSUME NEW p \in Peers PROVE ToastInv(p)
  BY DEF ToastsInv
<1>1. \A c \in peersPage!Calls : ~peersPage!Out(c)
  BY DEF peersPage!Init, peersPage!Out
<1>2. \A c \in peersPage!Calls : StillAnswer(c, p) /\ StillPrev(c, p)
  BY <1>1 DEF StillAnswer, StillPrev, Restores, Tells, On
<1>3. PeersTyped /\ Identity
  BY InitServerInv DEF ServerInv
<1>4. CASE peersPage!Loaded
  <2>1. /\ rows = peersPage!listPeers /\ DOMAIN peersPage!listPeers = peersPage!Stored /\
              fetch.phase = "none"
        /\ lastStatus = [r \in Peers |-> IF r \in peersPage!Stored THEN live[r] ELSE None]
    BY <1>4 DEF peersPage!Loaded, peersPage!listPeers, peersPage!Idle
  <2>2. rows # None
    BY <1>3, ListIsTyped, ListIsNotNone, <2>1 DEF PeersTyped
  <2>3. p \in peersPage!Stored => rows[p].status = live[p]
    BY <1>3, <2>1, LiveIsShown DEF peersPage!listPeers, peersPage!toPeerResponse
  <2>4. LastIsRow(p) /\ StillLast(p) /\ StillFetch(p)
    BY <2>1, <2>2, <2>3 DEF LastIsRow, peersPage!Listed, StillLast, StillFetch
  <2> QED BY <1>2, <2>4 DEF ToastInv
<1>5. CASE peersPage!NotLoaded
  <2>1. LastIsRow(p) /\ StillLast(p) /\ StillFetch(p)
    BY <1>5 DEF peersPage!NotLoaded, LastIsRow, peersPage!Listed, StillLast, StillFetch
  <2> QED BY <1>2, <2>1 DEF ToastInv
<1> QED BY <1>4, <1>5 DEF peersPage!Init

LEMMA NextToasts ==
  ASSUME peersPage!PeersPageBounds, PeersInv, ToastsInv, [peersPage!Next]_(peersPage!vars)
  PROVE  ToastsInv' /\ peersPage!ToastsTellChangesStep
<1>1. ASSUME NEW p \in Peers PROVE ToastInv(p)' /\ StepTells(p)
  BY ToastQueries, ToastMoves, ToastSaves, ToastFails, ToastReturns, ToastEvent, ToastUser
     DEF PeersInv, peersPage!Next, peersPage!Handler
<1>2. ASSUME NEW p \in Peers, peersPage!Toasted(p),
             p \notin moved \cup overtaken \cup overtaken' PROVE FALSE
  BY <1>1, <1>2 DEF ToastsInv, ToastInv, StillLast, StepTells, peersPage!Toasted
<1> QED BY <1>1, <1>2 DEF ToastsInv, peersPage!ToastsTellChangesStep

\* A toast of a peer's status is raised only after its connection has changed since the last one,
\* or when an older answer is written over its row (observe, usePeerStatusToasts.ts).
THEOREM PeersToastsAreTrue ==
  peersPage!PeersPageBounds => (peersPage!Spec => peersPage!ToastsTellChanges)
<1> SUFFICES ASSUME peersPage!PeersPageBounds PROVE peersPage!Spec => peersPage!ToastsTellChanges
  OBVIOUS
<1> DEFINE Inv == PeersInv /\ ToastsInv
<1>1. peersPage!Init => Inv
  BY InitPeersInv, InitToasts
<1>2. Inv /\ [peersPage!Next]_(peersPage!vars) => Inv'
  BY NextPeersInv, NextToasts
<1>3. Inv /\ [peersPage!Next]_(peersPage!vars) => [peersPage!ToastsTellChangesStep]_(peersPage!vars)
  BY NextToasts
<1> QED BY <1>1, <1>2, <1>3, PTL DEF peersPage!Spec, peersPage!ToastsTellChanges

-----------------------------------------------------------------------------------
(* The console.                                                                    *)

IInv ==
  /\ route \in {"peers", "subscribers", "settings"}
  /\ route = "peers" => PeersInv /\ ToastsInv
  /\ route = "subscribers" => SubscribersInv
  /\ route = "settings" => SettledInv

LEMMA InitIInv == Init => IInv
<1> SUFFICES ASSUME Init PROVE IInv
  OBVIOUS
<1>1. ASSUME route = "peers" PROVE PeersInv /\ ToastsInv
  BY <1>1, ConsoleBounds, InitPeersInv, InitToasts
  DEF Init
<1>2. ASSUME route = "subscribers" PROVE SubscribersInv
  BY <1>2, ConsoleBounds, SameSubscribersPage, InitSubscribers DEF Init
<1>3. ASSUME route = "settings" PROVE SettledInv
  BY <1>3, ConsoleBounds, InitSettings, InitFresh
  DEF Init, SettledInv
<1>4. route \in {"peers", "subscribers", "settings"}
  BY DEF Init
<1> QED
  BY <1>1, <1>2, <1>3, <1>4 DEF IInv

\* A step of the console keeps the route, and is one of the mounted page.
LEMMA StepOfPage ==
  ASSUME [Next]_vars
  PROVE  /\ route' = route
         /\ route = "peers" => [peersPage!Next]_(peersPage!vars)
         /\ route = "subscribers" => [SP!Next]_(SP!vars)
         /\ route = "settings" => [settingsPage!Next]_(settingsPage!vars)
<1>1. route' = route
  BY DEF Next, vars, OnPeers, OnSubscribers, OnSettings
<1>2. route = "peers" => [peersPage!Next]_(peersPage!vars)
  BY DEF Next, vars, OnPeers, OnSubscribers, OnSettings, peersVars, peersPage!vars,
    peersPage!server, peersPage!stream, peersPage!cache, peersPage!dialogs, peersPage!past
<1>3. route = "subscribers" => [subscribersPage!Next]_(subscribersPage!vars)
  BY DEF Next, vars, OnPeers, OnSubscribers, OnSettings, subscribersVars, subscribersPage!vars,
    subscribersPage!server, subscribersPage!list, subscribersPage!dialogs
<1>4. route = "settings" => [settingsPage!Next]_(settingsPage!vars)
  BY DEF Next, vars, OnPeers, OnSubscribers, OnSettings, settingsVars, settingsPage!vars,
    settingsPage!nav, settingsPage!server, settingsPage!queries, settingsPage!forms
<1> QED
  BY <1>1, <1>2, <1>3, <1>4, SameSubscribersPage

LEMMA NextIInv ==
  ASSUME IInv, [Next]_vars
  PROVE  IInv'
<1>1. ASSUME route = "peers" PROVE PeersInv' /\ ToastsInv'
  BY <1>1, ConsoleBounds, StepOfPage, NextPeersInv, NextToasts
  DEF IInv
<1>2. ASSUME route = "subscribers" PROVE SubscribersInv'
  BY <1>2, ConsoleBounds, StepOfPage, SameSubscribersPage, NextSubscribers DEF IInv
<1>3. ASSUME route = "settings" PROVE SettledInv'
  BY <1>3, ConsoleBounds, StepOfPage, NextSettings, NextFresh
  DEF IInv, SettledInv
<1> QED
  BY <1>1, <1>2, <1>3, StepOfPage DEF IInv

LEMMA Invariance == Spec => []IInv
<1>1. IInv /\ [Next]_vars => IInv'
  BY NextIInv
<1> QED
  BY <1>1, InitIInv, PTL DEF Spec

\* Every variable of the mounted page keeps its type: no answer, event, guess or rollback leaves
\* half a row in a cache, and no dialog names what is not there (peers.ts, subscribers.ts,
\* dictionaries.ts, aiPermissions.ts, aiConfig.ts and their pages).
THEOREM ConsoleTypes == Spec => []TypeOK
<1>1. IInv => TypeOK
  <2> SUFFICES ASSUME IInv PROVE TypeOK
    OBVIOUS
  <2>1. CASE route = "peers"
    BY <2>1, ConsoleBounds, TypesGiveTypeOK
    DEF IInv, TypeOK, PeersInv, ServerInv
  <2>2. CASE route = "subscribers"
    BY <2>2, SameSubscribersTypes, SubscribersTypesHold DEF IInv, TypeOK
  <2>3. CASE route = "settings"
    BY <2>3, SettingsTypesHold DEF IInv, TypeOK, SettledInv
  <2> QED
    BY <2>1, <2>2, <2>3 DEF IInv
<1> QED
  BY <1>1, Invariance, PTL

\* Once nothing is out and the stream is read the peers table is the server's, whatever wrote the
\* cache and in whatever order, but for the rows that an older answer, an old configuration or an
\* older event was written over, and for those a failed reload was to bring (peers.ts,
\* applyEventToCache.ts, sse.go, manager.go).
THEOREM TableSettles == Spec => []TableIsServers
<1>1. IInv => TableIsServers
  <2> SUFFICES ASSUME IInv, route = "peers" PROVE peersPage!TableIsServers
    BY DEF TableIsServers
  <2> QED
    BY ConsoleBounds, QuietTable DEF IInv
<1> QED
  BY <1>1, Invariance, PTL

\* A toast of a peer's status tells a change of its connection since the last one, or comes of
\* an older answer written over its row; a change counts as told once no event of the peer is
\* left to apply (usePeerStatusToasts.ts).
THEOREM ToastsAreTrue == Spec => ToastsTellChanges
<1>1. IInv /\ [Next]_vars => (route = "peers" => peersPage!ToastsTellChangesStep)
  <2> SUFFICES ASSUME IInv, [Next]_vars, route = "peers"
               PROVE  peersPage!ToastsTellChangesStep
    OBVIOUS
  <2> QED
    BY ConsoleBounds, StepOfPage, NextToasts DEF IInv
<1> QED
  BY <1>1, Invariance, PTL DEF Spec, ToastsTellChanges

\* Whatever the user picks, clears and types, and in whatever order the answers come, no
\* record is stored by the page with an IMEI of another device or an invalid one, whatever it
\* held before (SubscriberForm.tsx, subscribers.go).
THEOREM StoredDevicesAreWhole == Spec => ImeiFitsDevice
<1>1. IInv /\ [Next]_vars => (route = "subscribers" => subscribersPage!ImeiFitsDeviceStep)
  <2> SUFFICES ASSUME IInv, [Next]_vars, route = "subscribers"
               PROVE  subscribersPage!ImeiFitsDeviceStep
    OBVIOUS
  <2> QED
    BY ConsoleBounds, StepOfPage, SameSubscribersPage, DevicesFit DEF IInv
<1> QED
  BY <1>1, Invariance, PTL DEF Spec, ImeiFitsDevice

\* With its TAC in the catalogue, an update of a subscriber whose device was not picked again
\* sends the device as it was stored, unless its IMEI did not fit it (the resets of the form
\* and its derivation of the IMEI, SubscriberForm.tsx).
THEOREM UntouchedDevicesAreSent == Spec => UntouchedDeviceIsSent
<1>1. IInv /\ [Next]_vars => (route = "subscribers" => subscribersPage!UntouchedDeviceIsSentStep)
  <2> SUFFICES ASSUME IInv, [Next]_vars, route = "subscribers"
               PROVE  subscribersPage!UntouchedDeviceIsSentStep
    OBVIOUS
  <2> QED
    BY ConsoleBounds, StepOfPage, SameSubscribersPage, UntouchedStep DEF IInv
<1> QED
  BY <1>1, Invariance, PTL DEF Spec, UntouchedDeviceIsSent

\* A save of the AI card writes what the card was filled with in the fields the user has not
\* changed, and keeps a key that was not typed unless another save came between the handler's
\* reading and writing of it (AIAssistantCard, SettingsPage.tsx, ai_config.go).
THEOREM SavesKeepFilled == Spec => SavesKeepWhatWasFilled
<1>1. IInv /\ [Next]_vars => (route = "settings" => settingsPage!SavesKeepWhatWasFilledStep)
  <2> SUFFICES ASSUME IInv, [Next]_vars, route = "settings"
               PROVE  settingsPage!SavesKeepWhatWasFilledStep
    OBVIOUS
  <2> QED
    BY ConsoleBounds, StepOfPage, TouchedStep
    DEF IInv, SettledInv
<1> QED
  BY <1>1, Invariance, PTL DEF Spec, SavesKeepWhatWasFilled

\* The open section of the settings page, with nothing out, shows what the server has, however
\* mutations, reloads, dialogs and sections were interleaved, unless a reload that would have
\* brought it was lost (dictionaries.ts, aiPermissions.ts, aiConfig.ts, SettingsPage.tsx).
THEOREM SettledPagesShowServer == Spec => []SettledPagesAreServers
<1>1. IInv => SettledPagesAreServers
  <2> SUFFICES ASSUME IInv, route = "settings" PROVE settingsPage!SettledPagesAreServers
    BY DEF SettledPagesAreServers
  <2>1. settingsPage!SettledPagesAreServers
    BY SettledNow DEF IInv
  <2> QED
    BY <2>1
<1> QED
  BY <1>1, Invariance, PTL

====================================================================================
