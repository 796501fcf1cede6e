----------------------------- MODULE ScenarioTabs -----------------------------
(***********************************************************************************)
(* What the tabs of the scenario editor do to a draft                              *)
(* (web/src/pages/scenarios/tabs): variables, the places that refer to             *)
(* them by name, the services and their rating groups, the steps, and the          *)
(* tree of AVPs.  A tab keeps a selection and a question of its own, which         *)
(* undo and redo, made under it by a hot key, know nothing of.                     *)
(*                                                                                 *)
(* A variable is its name, <<what it is, position of its service>>; of the         *)
(* fields of a service that refer to one, ratingGroup and requestedUnits           *)
(* stand for the four; of the service types, VOICE and DATA; a step is its         *)
(* request type and the names it overrides.  Everything else that can be           *)
(* typed into a draft is left out, the {{NAME}} in the parameters of a             *)
(* variable's generator and the names in a step's expression among it, and so      *)
(* is the bound on the undo stack (ScenarioBuilder has it).                        *)
(***********************************************************************************)
EXTENDS Naturals, Sequences, FiniteSets, TLC, AvpTree

CONSTANTS
  MaxEdits,     \* bound on the edits of a behaviour
  MaxSteps,     \* bound on the steps of a draft
  MaxServices,  \* bound on its services
  MaxNodes,     \* bound on its AVPs
  None

ASSUME ScenarioTabsAssumption ==
  /\ MaxEdits \in Nat /\ MaxSteps \in Nat \ {0}
  /\ MaxServices \in Nat \ {0, 1} /\ MaxNodes \in Nat \ {0}

VARIABLES
  draft,  \* the draft
  past,   \* the drafts that undo brings back
  ahead,  \* the drafts that redo brings back
  ui,     \* the tab shown, its selections and its question
  edits   \* edits made so far

vars == <<draft, past, ahead, ui, edits>>

Elements(s) == {s[i] : i \in DOMAIN s}
Without(s, i) == [j \in 1..(Len(s) - 1) |-> IF j < i THEN s[j] ELSE s[j + 1]]

Fields == {"ratingGroup", "requestedUnits"}
Models == {"root", "single-mscc", "multi-mscc"}
RSU_TOTAL == <<"RSU_TOTAL", 0>>
MSISDN == <<"MSISDN", 0>>
Party == <<"CALLED_PARTY_ADDRESS", 0>>

(* The names that go with the service at position i, 0 when it is alone.           *)
NameOf == [ratingGroup |-> "RATING_GROUP", requestedUnits |-> "UNITS_REQ"]
Named(f, i) == <<NameOf[f], i>>
Granted(i) == <<"RG_GRANTED", i>>

Service(id, i) == [id |-> id, ratingGroup |-> Named("ratingGroup", i),
                   requestedUnits |-> Named("requestedUnits", i)]

Leaf(ref, locked) == [group |-> FALSE, locked |-> locked, ref |-> ref]
Group(locked) == [group |-> TRUE, locked |-> locked, ref |-> None]

-----------------------------------------------------------------------------
(* Variables and the references to them: the values of AVPs, the fields of         *)
(* services and the overrides of steps.  selectors.ts looks nowhere else, so a     *)
(* name in a generator's parameter or in an expression is no use of the variable,  *)
(* and a rename does not reach it.                                                 *)

(* The names the engine provides; a user variable of such a name is hidden         *)
(* by it.                                                                          *)
listSystemVariables(d) ==
  {MSISDN} \cup CASE d.model = "root" -> {}
                  [] d.model = "single-mscc" -> {Granted(0)}
                  [] d.model = "multi-mscc" -> {Granted(i) : i \in DOMAIN d.services}

UserVariables(d) == SelectSeq(d.variables, LAMBDA n : n \notin listSystemVariables(d))

buildVariableOptions(d) == listSystemVariables(d) \cup Elements(d.variables)

findUsages(d, n) ==
  {<<"avp", p>> : p \in {q \in DOMAIN d.avpTree : d.avpTree[q].ref = n}}
    \cup {<<"service", s>> : s \in {t \in (DOMAIN d.services) \X Fields :
                                     d.services[t[1]][t[2]] = n}}
    \cup {<<"step", i>> : i \in {j \in DOMAIN d.steps : n \in d.steps[j].overrides}}

(* Faulty: the overrides of the steps keep the old name.                           *)
renameUsagesNotInSteps(d, old, new) ==
  LET Renamed(n) == IF n = old THEN new ELSE n
  IN [d EXCEPT
        !.avpTree = [p \in DOMAIN @ |-> [@[p] EXCEPT !.ref = Renamed(@)]],
        !.services = [i \in DOMAIN @ |-> [@[i] EXCEPT !.ratingGroup = Renamed(@),
                                                      !.requestedUnits = Renamed(@)]]]

renameUsages(d, old, new) ==
  LET Renamed(n) == IF n = old THEN new ELSE n
  IN [d EXCEPT
        !.avpTree = [p \in DOMAIN @ |-> [@[p] EXCEPT !.ref = Renamed(@)]],
        !.services = [i \in DOMAIN @ |-> [@[i] EXCEPT !.ratingGroup = Renamed(@),
                                                      !.requestedUnits = Renamed(@)]],
        !.steps = [i \in DOMAIN @ |-> [@[i] EXCEPT !.overrides = {Renamed(n) : n \in @}]]]

ensureVar(list, n) == IF n \in Elements(list) THEN list ELSE Append(list, n)

(* Adds the variables that the services are named for, by position.                *)
provisionVariables(d) ==
  LET at(i) == IF d.model = "multi-mscc" THEN i ELSE 0
      add[i \in 0..Len(d.services)] ==
        IF i = 0 THEN d.variables
        ELSE LET rg == IF d.services[i].ratingGroup = None THEN add[i - 1]
                       ELSE ensureVar(add[i - 1], Named("ratingGroup", at(i)))
             IN IF d.services[i].requestedUnits = None THEN rg
                ELSE ensureVar(rg, Named("requestedUnits", at(i)))
  IN IF d.model = "root" THEN ensureVar(d.variables, RSU_TOTAL) ELSE add[Len(d.services)]

-----------------------------------------------------------------------------
(* What goes with a service type, a unit type and a session mode.                  *)

deriveUnitType(serviceType) == IF serviceType = "DATA" THEN "VOLUME" ELSE "TIME"

Allowed(unit, model) ==
  /\ model = "root" => unit # "VOLUME"
  /\ model = "multi-mscc" => unit = "VOLUME"

legalRequestTypes(mode) ==
  IF mode = "session" THEN {"INITIAL", "UPDATE", "TERMINATE"} ELSE {"EVENT"}

defaultStep(mode) ==
  [type |-> IF mode = "session" THEN "UPDATE" ELSE "EVENT", overrides |-> {}]

defaultStepsForMode(mode) ==
  IF mode = "event" THEN <<[type |-> "EVENT", overrides |-> {}]>>
  ELSE [i \in 1..3 |-> [type |-> <<"INITIAL", "UPDATE", "TERMINATE">>[i], overrides |-> {}]]

(* The locked group of the service type, which is the last of the roots            *)
(* unless there is one to replace.                                                 *)
replaceServiceInfoNode(tree, serviceType) ==
  LET at == CHOOSE p \in DOMAIN tree : Len(p) = 1 /\ tree[p].group /\ tree[p].locked
      leaf == Leaf(IF serviceType = "VOICE" THEN Party ELSE None, TRUE)
  IN addChildAt([p \in {q \in DOMAIN tree : q = at \/ ~Under(at, q)} |-> tree[p]], at, leaf)

defaultVariablesForServiceType(serviceType) ==
  IF serviceType = "VOICE" THEN <<Party>> ELSE <<>>

upsertVariables(list, serviceType) ==
  IF defaultVariablesForServiceType(serviceType) = <<>> THEN list ELSE ensureVar(list, Party)

-----------------------------------------------------------------------------
BaseTree == (<<1>> :> Group(FALSE)) @@ (<<1, 1>> :> Leaf(MSISDN, FALSE))
              @@ (<<2>> :> Group(TRUE))

DraftOf(serviceType, model, services, names) ==
  [serviceType |-> serviceType, mode |-> "session", model |-> model,
   services |-> services, variables |-> names,
   steps |-> defaultStepsForMode("session"),
   avpTree |-> replaceServiceInfoNode(BaseTree, serviceType)]

Page(tab) == [tab |-> tab, variable |-> None, step |-> 1, path |-> None, ask |-> None,
              moved |-> FALSE]

(* A new scenario and two stored ones.                                             *)
Init ==
  /\ draft \in
       {DraftOf("VOICE", "single-mscc",
                <<[Service("100", 0) EXCEPT !.requestedUnits = RSU_TOTAL]>>,
                <<MSISDN, Named("ratingGroup", 0), RSU_TOTAL, Party>>),
        DraftOf("DATA", "multi-mscc", <<Service("100", 1)>>,
                <<Named("ratingGroup", 1), Named("requestedUnits", 1)>>),
        DraftOf("VOICE", "root",
                <<[id |-> "root", ratingGroup |-> None, requestedUnits |-> RSU_TOTAL]>>,
                <<RSU_TOTAL, Party>>)}
  /\ past = <<>> /\ ahead = <<>> /\ edits = 0
  /\ ui = Page("steps")

-----------------------------------------------------------------------------
(* Every setter is one commit; some handlers call two or three.                    *)

CommitAll(drafts) ==
  /\ edits < MaxEdits /\ edits' = edits + 1
  /\ draft' = drafts[Len(drafts)]
  /\ past' = past \o <<draft>> \o SubSeq(drafts, 1, Len(drafts) - 1)
  /\ ahead' = <<>>

Commit(d) == CommitAll(<<d>>)

Kept == UNCHANGED <<draft, past, ahead, edits>>

Open(tab) == ui.tab = tab /\ ui.ask = None

(* The hot keys work under a question.                                             *)
undo ==
  /\ past # <<>>
  /\ draft' = past[Len(past)] /\ past' = SubSeq(past, 1, Len(past) - 1)
  /\ ahead' = Append(ahead, draft)
  /\ ui' = [ui EXCEPT !.moved = ui.ask # None]
  /\ UNCHANGED edits

redo ==
  /\ ahead # <<>>
  /\ draft' = ahead[Len(ahead)] /\ ahead' = SubSeq(ahead, 1, Len(ahead) - 1)
  /\ past' = Append(past, draft)
  /\ ui' = [ui EXCEPT !.moved = ui.ask # None]
  /\ UNCHANGED edits

(* A tab that is left forgets its selection.                                       *)
BuilderTabs(tab) ==
  /\ ui.ask = None /\ ui.tab # tab
  /\ ui' = [Page(tab) EXCEPT !.variable =
              IF tab = "variables" /\ UserVariables(draft) # <<>>
                THEN UserVariables(draft)[1] ELSE None]
  /\ Kept

(* From a use of the selected variable to the tab that has it.                     *)
handleJump ==
  /\ Open("variables") /\ ui.variable \in Elements(UserVariables(draft))
  /\ \E u \in findUsages(draft, ui.variable) :
       ui' = Page(CASE u[1] = "avp" -> "frame" [] u[1] = "service" -> "services"
                    [] u[1] = "step" -> "steps")
  /\ Kept

Answer == ui.ask # None /\ ui' = [ui EXCEPT !.ask = None, !.moved = FALSE]

Cancel == Answer /\ Kept

-----------------------------------------------------------------------------
(* The header.                                                                     *)

setServiceType(t) ==
  /\ ui.ask = None /\ t # draft.serviceType
  /\ Commit([draft EXCEPT !.serviceType = t, !.mode = "session",
                          !.avpTree = replaceServiceInfoNode(@, t),
                          !.variables = upsertVariables(@, t)])
  /\ UNCHANGED ui

setSessionMode(m) ==
  /\ ui.ask = None /\ m # draft.mode
  /\ Commit([draft EXCEPT !.mode = m, !.steps = defaultStepsForMode(m)])
  /\ UNCHANGED ui

-----------------------------------------------------------------------------
(* The variables.                                                                  *)

SelectVariable(n) ==
  /\ Open("variables") /\ n \in Elements(UserVariables(draft)) /\ n # ui.variable
  /\ ui' = [ui EXCEPT !.variable = n] /\ Kept

(* The name may be taken, and hidden variables are dropped.                        *)
handleAdd ==
  /\ Open("variables")
  /\ LET user == UserVariables(draft)
         n == <<"VAR", Len(user) + 1>>
     IN /\ Commit([draft EXCEPT !.variables = Append(user, n)])
        /\ ui' = [ui EXCEPT !.variable = n]

handleProvision ==
  /\ Open("variables")
  /\ Commit([draft EXCEPT !.variables = provisionVariables(draft)]) /\ UNCHANGED ui

(* Every key stroke in the name of the selected variable that leaves a new         *)
(* name renames it with all its uses, in one commit.                               *)
handleChange(n) ==
  /\ Open("variables") /\ ui.variable \in Elements(UserVariables(draft))
  /\ n \notin buildVariableOptions(draft)
  /\ Commit([renameUsages(draft, ui.variable, n) EXCEPT
               !.variables = [i \in DOMAIN @ |-> IF @[i] = ui.variable THEN n ELSE @[i]]])
  /\ ui' = [ui EXCEPT !.variable = n]

requestRemoveVariable(n) ==
  /\ Open("variables") /\ n \in Elements(UserVariables(draft))
  /\ findUsages(draft, n) = {}
  /\ ui' = [ui EXCEPT !.ask = <<n>>] /\ Kept

(* The uses are those of the moment the question was asked.                        *)
confirmDelete ==
  /\ ui.tab = "variables" /\ ui.ask # None
  /\ LET left == SelectSeq(draft.variables, LAMBDA n : n # ui.ask[1])
         user == SelectSeq(left, LAMBDA n : n \notin listSystemVariables(draft))
     IN /\ Commit([draft EXCEPT !.variables = left])
        /\ ui' = [ui EXCEPT !.ask = None, !.moved = FALSE,
                            !.variable = IF user = <<>> THEN None ELSE user[1]]

-----------------------------------------------------------------------------
(* The services.                                                                   *)

(* The services are reshaped for the new model.  What is provisioned for           *)
(* two seeded services is computed from the draft of the old model.                *)
handleSegment(m) ==
  /\ Open("services") /\ m # draft.model
  /\ Allowed(deriveUnitType(draft.serviceType), m)
  /\ LET first == draft.services[1]
         d1 == [draft EXCEPT !.model = m]
         seeded == <<Service("100", 1), Service("200", 2)>>
     IN CASE m = "root" ->
               CommitAll(<<d1, [d1 EXCEPT !.services =
                            <<[first EXCEPT !.id = "root", !.ratingGroup = None]>>]>>)
          [] m = "single-mscc" ->
               CommitAll(<<d1, [d1 EXCEPT !.services =
                            <<IF first.id # "root" THEN first
                              ELSE [first EXCEPT !.id = "100",
                                      !.ratingGroup = Named("ratingGroup", 0)]>>]>>)
          [] m = "multi-mscc" ->
               IF first.id # "root" THEN CommitAll(<<d1, d1>>)
               ELSE LET d2 == [d1 EXCEPT !.services = seeded]
                    IN CommitAll(<<d1, d2, [d2 EXCEPT !.variables =
                         provisionVariables([draft EXCEPT !.services = seeded])]>>)
  /\ UNCHANGED ui

ServiceEditor(i, f, n) ==
  /\ Open("services") /\ n # draft.services[i][f]
  /\ draft.model = "root" => f = "requestedUnits"
  /\ draft.model # "multi-mscc" => i = 1
  /\ Commit([draft EXCEPT !.services[i][f] = n]) /\ UNCHANGED ui

AddService ==
  /\ Open("services") /\ draft.model = "multi-mscc" /\ Len(draft.services) < MaxServices
  /\ LET pos == Len(draft.services) + 1
         d1 == [draft EXCEPT !.services = Append(@, Service("new", pos))]
     IN CommitAll(<<d1, [d1 EXCEPT !.variables = provisionVariables(d1)]>>)
  /\ UNCHANGED ui

(* The services after it move up; the names they use do not.                       *)
RemoveService(i) ==
  /\ Open("services") /\ draft.model = "multi-mscc" /\ Len(draft.services) > 1
  /\ Commit([draft EXCEPT !.services = Without(@, i)]) /\ UNCHANGED ui

-----------------------------------------------------------------------------
(* The steps.                                                                      *)

effectiveIndex == IF ui.step > Len(draft.steps) THEN Len(draft.steps) ELSE ui.step

SelectStep(i) ==
  /\ Open("steps") /\ i # ui.step /\ ui' = [ui EXCEPT !.step = i] /\ Kept

moveTo(from, to) ==
  /\ Open("steps") /\ from # to
  /\ Commit([draft EXCEPT !.steps =
               LET rest == Without(@, from)
               IN SubSeq(rest, 1, to - 1) \o <<@[from]>> \o SubSeq(rest, to, Len(rest))])
  /\ ui' = IF effectiveIndex = from THEN [ui EXCEPT !.step = to] ELSE ui

addStep ==
  /\ Open("steps") /\ Len(draft.steps) < MaxSteps
  /\ Commit([draft EXCEPT !.steps = Append(@, defaultStep(draft.mode))])
  /\ ui' = [ui EXCEPT !.step = Len(draft.steps) + 1]

removeStep(i) ==
  /\ Open("steps")
  /\ Commit([draft EXCEPT !.steps = Without(@, i)])
  /\ ui' = IF effectiveIndex < Len(draft.steps) THEN ui
           ELSE [ui EXCEPT !.step = IF Len(draft.steps) > 1 THEN Len(draft.steps) - 1 ELSE 1]

StepShown == Open("steps") /\ draft.steps # <<>>

RequestFields(type) ==
  /\ StepShown /\ type \in legalRequestTypes(draft.mode)
  /\ type # draft.steps[effectiveIndex].type
  /\ Commit([draft EXCEPT !.steps[effectiveIndex].type = type]) /\ UNCHANGED ui

(* An override is added for a variable, and taken away.                            *)
OverridesEditor(n) ==
  /\ StepShown
  /\ LET has == draft.steps[effectiveIndex].overrides
     IN \/ /\ n \in Elements(draft.variables) \ has
           /\ Commit([draft EXCEPT !.steps[effectiveIndex].overrides = @ \cup {n}])
        \/ /\ n \in has
           /\ Commit([draft EXCEPT !.steps[effectiveIndex].overrides = @ \ {n}])
  /\ UNCHANGED ui

-----------------------------------------------------------------------------
(* The frame.                                                                      *)

Selected == Open("frame") /\ ui.path # None /\ ui.path \in DOMAIN draft.avpTree
SelectedNode == getNodeAt(draft.avpTree, ui.path)

Fresh == Leaf(None, FALSE)
Room == Cardinality(DOMAIN draft.avpTree) < MaxNodes

handleSelect(p) ==
  /\ Open("frame") /\ p # ui.path /\ ui' = [ui EXCEPT !.path = p] /\ Kept

handleAddRoot ==
  /\ Open("frame") /\ Room
  /\ Commit([draft EXCEPT !.avpTree = addChildAt(@, <<>>, Fresh)]) /\ UNCHANGED ui

handleAddChild ==
  /\ Selected /\ Room /\ SelectedNode.group /\ ~SelectedNode.locked
  /\ Commit([draft EXCEPT !.avpTree = addChildAt(@, ui.path, Fresh)]) /\ UNCHANGED ui

(* The value of a leaf, locked or not, is chosen among the variables that          *)
(* do not depend on the services; None stands for a literal.                       *)
PropertiesPane(n) ==
  /\ Selected /\ ~SelectedNode.group /\ n # SelectedNode.ref
  /\ n \in {None, MSISDN} \cup Elements(draft.variables)
  /\ Commit([draft EXCEPT !.avpTree = setNodeAt(@, ui.path, [SelectedNode EXCEPT !.ref = n])])
  /\ UNCHANGED ui

(* Where the arrows of the pane may take the selected node.                        *)
Moves(tree, p) ==
  IF tree[p].locked THEN {}
  ELSE {to \in {moveUp(tree, p)} : canMoveUp(tree, p)}
         \cup {to \in {moveDown(tree, p)} : canMoveDown(tree, p)}
         \cup IF canIndent(tree, p) THEN {indent(tree, p)} ELSE {}
         \cup IF canOutdent(tree, p) THEN {outdent(tree, p)} ELSE {}

handleMove ==
  /\ Selected
  /\ \E to \in Moves(draft.avpTree, ui.path) :
       /\ Commit([draft EXCEPT !.avpTree = Replant(@, ui.path, to)])
       /\ ui' = [ui EXCEPT !.path = to]

requestRemoveNode(p) ==
  /\ Open("frame") /\ ~draft.avpTree[p].locked
  /\ ui' = [ui EXCEPT !.ask = p] /\ Kept

(* The path is that of the moment the question was asked.  One that is             *)
(* gone removes nothing; a leaf that has taken its parent's place becomes          *)
(* a group.  Where even that is gone, the handler fails.                           *)
confirmRemove ==
  /\ ui.tab = "frame" /\ ui.ask # None
  /\ LET tree == draft.avpTree
         p == ui.ask
         above == Parent(p)
     IN IF p \in DOMAIN tree THEN Commit([draft EXCEPT !.avpTree = removeNodeAt(@, p)])
        ELSE /\ above = <<>> \/ above \in DOMAIN tree
             /\ Commit(IF above = <<>> THEN draft
                       ELSE [draft EXCEPT !.avpTree = [@ EXCEPT ![above].group = TRUE]])
  /\ ui' = [ui EXCEPT !.ask = None, !.moved = FALSE,
                      !.path = IF @ # None /\ Under(ui.ask, @) THEN None ELSE @]

-----------------------------------------------------------------------------
VariablesTab ==
  \/ handleAdd \/ handleProvision \/ confirmDelete \/ handleJump
  \/ \E k \in 1..2 : handleChange(<<"VAR", k>>)
  \/ \E n \in Elements(draft.variables) : SelectVariable(n) \/ requestRemoveVariable(n)

ServicesTab ==
  \/ AddService \/ \E m \in Models : handleSegment(m)
  \/ \E i \in DOMAIN draft.services :
       \/ RemoveService(i)
       \/ \E f \in Fields, n \in buildVariableOptions(draft) \cup {None} : ServiceEditor(i, f, n)

StepsTab ==
  \/ addStep \/ \E t \in {"INITIAL", "UPDATE", "TERMINATE", "EVENT"} : RequestFields(t)
  \/ \E i \in DOMAIN draft.steps :
       SelectStep(i) \/ removeStep(i) \/ \E j \in DOMAIN draft.steps : moveTo(i, j)
  \/ StepShown /\ \E n \in Elements(draft.variables) \cup draft.steps[effectiveIndex].overrides :
       OverridesEditor(n)

FrameTab ==
  \/ handleAddRoot \/ handleAddChild \/ handleMove \/ confirmRemove
  \/ \E n \in {None, MSISDN} \cup Elements(draft.variables) : PropertiesPane(n)
  \/ \E p \in DOMAIN draft.avpTree : handleSelect(p) \/ requestRemoveNode(p)

Next ==
  \/ undo \/ redo \/ Cancel
  \/ VariablesTab \/ ServicesTab \/ StepsTab \/ FrameTab
  \/ \E t \in {"steps", "variables", "frame", "services"} : BuilderTabs(t)
  \/ \E t \in {"VOICE", "DATA"} : setServiceType(t)
  \/ \E m \in {"session", "event"} : setSessionMode(m)

Spec == Init /\ [][Next]_vars

-----------------------------------------------------------------------------
(* Whatever paths were remembered, the tree stays a tree: children below           *)
(* groups and no gap among siblings.                                               *)
TypeOK ==
  /\ WellFormed(draft.avpTree)
  /\ draft.services # <<>> /\ (ui.ask = None => ~ui.moved)
  /\ draft.mode \in {"session", "event"} /\ draft.model \in Models
  /\ ui.tab \in {"steps", "variables", "frame", "services"}

Dangling(d) ==
  LET used == {d.avpTree[p].ref : p \in DOMAIN d.avpTree}
                \cup UNION {{d.services[i][f] : f \in Fields} : i \in DOMAIN d.services}
                \cup UNION {d.steps[i].overrides : i \in DOMAIN d.steps}
  IN (used \ {None}) \ buildVariableOptions(d)

(* An edit leaves no AVP value, service field or step override that names a        *)
(* variable that does not exist: a rename reaches every one of these, a            *)
(* variable one of them uses cannot be removed, a new service and a new            *)
(* service type bring their variables.  Only changing the model or removing a      *)
(* service does, and a removal that was asked before an undo.  Of the {{NAME}}     *)
(* in generator parameters and the names in step expressions, which the code       *)
(* neither finds nor rewrites, nothing is said.                                    *)
EditsKeepReferences ==
  [][\/ Dangling(draft') \subseteq Dangling(draft)
     \/ undo \/ redo \/ (confirmDelete /\ ui.moved)
     \/ Len(draft'.services) < Len(draft.services) \/ draft'.model # draft.model]_vars

(* Moving an AVP loses and doubles none, keeps what is below it, leaves            *)
(* locked groups as they are, and the selection stays with it.                     *)
MovesKeepNodes ==
  [][Selected /\ ui'.path # ui.path /\ draft' # draft /\ ui' # [ui EXCEPT !.path = None] =>
       LET old == draft.avpTree
           new == draft'.avpTree
           Shape(t, p) == {SubSeq(q, Len(p) + 1, Len(q)) : q \in {r \in DOMAIN t : Under(p, r)}}
       IN /\ \A p \in DOMAIN old : Count(old, old[p]) = Count(new, old[p])
          /\ ui'.path \in DOMAIN new
          /\ Shape(new, ui'.path) = Shape(old, ui.path)
          /\ \A s \in Shape(old, ui.path) : new[ui'.path \o s] = old[ui.path \o s]]_vars
=============================================================================
