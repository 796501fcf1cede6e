---------------------------- MODULE ScenarioBuilder ----------------------------
(***********************************************************************************)
(* The scenario editor of the web application (web/src/pages/scenarios):           *)
(* one draft store, with undo and redo, that outlives the pages showing            *)
(* it, and a page that fills it from the query cache, saves it and leaves          *)
(* it.  A call that a page made goes on when the page is gone, and its             *)
(* answer acts on the store and on the address all the same.                       *)
(*                                                                                 *)
(* A scenario is an id and a version; what the tabs do to a draft is the           *)
(* subject of ScenarioTabs.  Field errors, notifications, favourites and           *)
(* the page to return to are left out: the list stands for every page              *)
(* without the editor.                                                             *)
(***********************************************************************************)
EXTENDS Naturals, Sequences, FiniteSets

CONSTANTS
  Stored,           \* scenarios that exist at first
  New,              \* the one id the server gives to a created scenario
  Versions,         \* what a draft may contain
  Blank,            \* what a new draft contains
  Clashing,         \* versions that validateScenario refuses
  HISTORY_CAPACITY, \* snapshots on each stack
  MaxEdits,         \* bound on the edits of a behaviour
  MaxSaves,         \* bound on the saves that are out together
  None

ASSUME ScenarioBuilderAssumption ==
  /\ New \notin Stored /\ Blank \in Versions /\ Clashing \subseteq Versions
  /\ Versions \ ({Blank} \cup Clashing) # {}
  /\ HISTORY_CAPACITY \in Nat \ {0} /\ MaxEdits \in Nat /\ MaxSaves \in Nat \ {0}

VARIABLES
  db,       \* the server's scenarios
  cached,   \* the query cache's details
  page,     \* the address: the list, or the editor and what it edits
  fetch,    \* the detail that is being fetched
  store,    \* the draft store
  saves,    \* the saves that are out
  removal,  \* the deletion that is asked for or out
  edits     \* edits made so far

vars == <<db, cached, page, fetch, store, saves, removal, edits>>

Ids == Stored \cup {New}
Draft == [id : Ids \cup {None}, is : Versions]

List == [at |-> "list", id |-> None, hydrated |-> FALSE, failed |-> FALSE,
         asking |-> FALSE]

(* A deletion that is asked for or out covers the page that made it.               *)
Covers(at) == removal # None /\ removal.from = at

(* The form is shown whenever the store holds a draft.                             *)
Editor == page.at # "list"
Shown == Editor /\ store.draft # None

Init ==
  /\ db = [i \in Ids |-> IF i \in Stored THEN CHOOSE v \in Versions \ ({Blank} \cup Clashing) : TRUE
                                          ELSE None]
  /\ cached = [i \in Ids |-> None]
  /\ page = List /\ fetch = None
  /\ store = [draft |-> None, dirty |-> FALSE, undo |-> <<>>, redo |-> <<>>,
              base |-> None, lost |-> FALSE]
  /\ saves = {} /\ removal = None /\ edits = 0

-----------------------------------------------------------------------------
(* The draft store.  "base" is what was loaded or saved last and "lost"            *)
(* that a snapshot taken since was dropped; the code has neither.                  *)

LastOf(s) == SubSeq(s, IF Len(s) > HISTORY_CAPACITY THEN Len(s) - HISTORY_CAPACITY + 1 ELSE 1, Len(s))

(* Faulty: the stacks of the draft before are kept.                                *)
loadKeepsHistory(s, d) ==
  [s EXCEPT !.draft = d, !.dirty = FALSE, !.base = d.is, !.lost = FALSE]

load(s, d) ==
  [draft |-> d, dirty |-> FALSE, undo |-> <<>>, redo |-> <<>>, base |-> d.is, lost |-> FALSE]

markSaved(s, d) ==
  [draft |-> d, dirty |-> FALSE, undo |-> <<>>, redo |-> <<>>, base |-> d.is, lost |-> FALSE]

(* Faulty: the undo stack is not bounded.                                          *)
commitUnbounded(s, v) ==
  [s EXCEPT !.draft.is = v, !.dirty = TRUE, !.redo = <<>>, !.undo = Append(@, s.draft)]

commit(s, v) ==
  [s EXCEPT !.draft.is = v, !.dirty = TRUE, !.redo = <<>>,
            !.undo = LastOf(Append(@, s.draft)),
            !.lost = @ \/ Len(s.undo) = HISTORY_CAPACITY]

canUndo(s) == s.undo # <<>>
canRedo(s) == s.redo # <<>>

(* Faulty: the draft left is not kept for redo.                                    *)
undoForgets(s) ==
  [s EXCEPT !.draft = s.undo[Len(s.undo)],
            !.undo = SubSeq(@, 1, Len(@) - 1), !.dirty = Len(s.undo) > 1]

undo(s) ==
  [s EXCEPT !.draft = s.undo[Len(s.undo)],
            !.undo = SubSeq(@, 1, Len(@) - 1), !.redo = LastOf(Append(@, s.draft)),
            !.dirty = Len(s.undo) > 1]

(* Faulty: a redone draft is as clean as the undone one was.                       *)
redoKeepsDirty(s) ==
  [s EXCEPT !.draft = s.redo[Len(s.redo)],
            !.redo = SubSeq(@, 1, Len(@) - 1), !.undo = LastOf(Append(@, s.draft))]

redo(s) ==
  [s EXCEPT !.draft = s.redo[Len(s.redo)],
            !.redo = SubSeq(@, 1, Len(@) - 1), !.undo = LastOf(Append(@, s.draft)),
            !.dirty = TRUE]

-----------------------------------------------------------------------------
(* The list of scenarios, which may be out of date: its rows are whatever          *)
(* was ever stored.                                                                *)

Rows == Stored \cup IF db[New] # None \/ cached[New] # None THEN {New} ELSE {}

ListFrame == UNCHANGED <<db, store, saves, edits>>

Opens(at, i) ==
  /\ page = List /\ ~Covers("list")
  /\ page' = [List EXCEPT !.at = at, !.id = i]
  /\ UNCHANGED <<cached, fetch, removal>> /\ ListFrame

handleEdit(i) == i \in Rows /\ Opens("edit", i)

handleNew == Opens("new", None)

handleDuplicate(i) == i \in Rows /\ Opens("dup", i)

(* Deleting is offered for the rows of the list, and confirmed or not.             *)
handleDeleteRow(i) ==
  /\ page = List /\ removal = None /\ i \in Rows
  /\ removal' = [id |-> i, from |-> "list", at |-> "asking"]
  /\ UNCHANGED <<cached, page, fetch>> /\ ListFrame

-----------------------------------------------------------------------------
(* The editor: filling the store.                                                  *)

(* The mounted page fetches what it has no data for, and refetches what is         *)
(* older than the stale time.                                                      *)
useScenario ==
  /\ page.at \in {"edit", "dup"} /\ fetch = None /\ ~page.failed
  /\ ~page.hydrated \/ cached[page.id] # db[page.id]
  /\ fetch' = [id |-> page.id, is |-> db[page.id]]
  /\ UNCHANGED <<cached, page, removal>> /\ ListFrame

(* Faulty: an error is not told from no answer.                                    *)
DetailArrivesSilently ==
  /\ fetch # None /\ fetch' = None
  /\ \/ fetch.is # None /\ cached' = [cached EXCEPT ![fetch.id] = fetch.is]
     \/ UNCHANGED cached
  /\ UNCHANGED <<page, removal>> /\ ListFrame

(* The detail arrives, does not exist or cannot be fetched; the retries            *)
(* are part of the fetch.                                                          *)
DetailArrives ==
  /\ fetch # None /\ fetch' = None
  /\ \/ /\ fetch.is # None
        /\ cached' = [cached EXCEPT ![fetch.id] = fetch.is] /\ UNCHANGED page
     \/ /\ page' = IF Editor /\ page.id = fetch.id THEN [page EXCEPT !.failed = TRUE] ELSE page
        /\ UNCHANGED cached
  /\ UNCHANGED removal /\ ListFrame

(* What the page edits: a scenario, a copy of one, or a fresh one.                 *)
Source == [id |-> IF page.at = "edit" THEN page.id ELSE None,
           is |-> IF page.at = "new" THEN Blank ELSE cached[page.id]]

(* Faulty: the page takes what it finds in the store for its own.                  *)
HydrateIfEmpty ==
  /\ Editor /\ ~page.hydrated
  /\ Source.is # None
  /\ store' = IF store.draft # None THEN store
                ELSE load(store, Source)
  /\ page' = [page EXCEPT !.hydrated = TRUE]
  /\ UNCHANGED <<db, cached, fetch, saves, removal, edits>>

(* Once for a mounted page: later details of the scenario are ignored.             *)
Hydrate ==
  /\ Editor /\ ~page.hydrated
  /\ Source.is # None
  /\ store' = load(store, Source)
  /\ page' = [page EXCEPT !.hydrated = TRUE]
  /\ UNCHANGED <<db, cached, fetch, saves, removal, edits>>

-----------------------------------------------------------------------------
(* The editor: the user.                                                           *)

EditFrame == UNCHANGED <<db, cached, page, fetch, saves, removal>>

Uncovered == ~page.asking /\ ~Covers("editor")

(* Text is committed when its field is left, and only when it differs.             *)
Differs(v) == v # store.draft.is

(* Every setter of the store is one commit.                                        *)
Edit(v) ==
  /\ Shown /\ Uncovered /\ edits < MaxEdits /\ Differs(v)
  /\ store' = commit(store, v) /\ edits' = edits + 1
  /\ EditFrame

(* The hot keys work under the dialogs too.                                        *)
Undo == Shown /\ canUndo(store) /\ store' = undo(store) /\ UNCHANGED edits /\ EditFrame

Redo == Shown /\ canRedo(store) /\ store' = redo(store) /\ UNCHANGED edits /\ EditFrame

CanSave == Shown /\ store.dirty /\ store.draft.is # Blank

isSaving == \E s \in saves : s.mounted

(* An update goes to the scenario of the address.                                  *)
handleSave ==
  /\ CanSave /\ Uncovered /\ ~isSaving /\ Cardinality(saves) < MaxSaves
  /\ store.draft.is \notin Clashing
  /\ saves' = saves \cup
       {[to |-> IF page.at = "edit" THEN page.id ELSE New, new |-> page.at # "edit",
         is |-> store.draft.is, at |-> "sent", mounted |-> TRUE]}
  /\ UNCHANGED <<db, cached, page, fetch, store, removal, edits>>

(* The page is gone; what it sent is not.                                          *)
Leave(out, r) ==
  /\ page' = List
  /\ saves' = {[s EXCEPT !.mounted = FALSE] : s \in out}
  /\ removal' = IF r # None /\ r.from = "editor"
                  THEN IF r.at = "asking" THEN None ELSE [r EXCEPT !.from = "gone"]
                  ELSE r

LeaveFrame == UNCHANGED <<db, cached, fetch, store, edits>>

(* Close, or Discard, which is offered for a dirty draft only.                     *)
handleCloseRequest ==
  /\ Editor /\ Uncovered
  /\ IF store.dirty THEN page' = [page EXCEPT !.asking = TRUE] /\ UNCHANGED saves
                         /\ UNCHANGED removal
                    ELSE Leave(saves, removal)
  /\ LeaveFrame

KeepEditing ==
  /\ page.asking /\ page' = [page EXCEPT !.asking = FALSE]
  /\ UNCHANGED <<saves, removal>> /\ LeaveFrame

(* The draft stays in the store.                                                   *)
handleDiscardConfirm == page.asking /\ Leave(saves, removal) /\ LeaveFrame

(* The browser's own navigation is not guarded.                                    *)
BrowserBack == Editor /\ Leave(saves, removal) /\ LeaveFrame

handleDeleteRequest ==
  /\ Shown /\ page.at = "edit" /\ Uncovered /\ removal = None
  /\ removal' = [id |-> page.id, from |-> "editor", at |-> "asking"]
  /\ UNCHANGED <<page, saves>> /\ LeaveFrame

CancelDelete ==
  /\ removal # None /\ removal.at = "asking" /\ removal' = None
  /\ UNCHANGED <<page, saves>> /\ LeaveFrame

handleDeleteConfirm ==
  /\ removal # None /\ removal.at = "asking"
  /\ removal' = [removal EXCEPT !.at = "sent"]
  /\ UNCHANGED <<page, saves>> /\ LeaveFrame

-----------------------------------------------------------------------------
(* The server and its answers.                                                     *)

SaveHandled(s) ==
  /\ s.at = "sent"
  /\ \/ /\ IF s.new THEN db[s.to] = None ELSE db[s.to] # None
        /\ db' = [db EXCEPT ![s.to] = s.is]
        /\ saves' = (saves \ {s}) \cup {[s EXCEPT !.at = "ok"]}
     \/ saves' = (saves \ {s}) \cup {[s EXCEPT !.at = "refused"]} /\ UNCHANGED db
  /\ UNCHANGED <<cached, page, fetch, store, removal, edits>>

(* What comes back is cached, becomes the draft and closes the editor,             *)
(* whichever page shows by then.                                                   *)
SaveReturns(s) ==
  /\ s.at = "ok"
  /\ cached' = [cached EXCEPT ![s.to] = s.is]
  /\ store' = markSaved(store, [id |-> s.to, is |-> s.is])
  /\ Leave(saves \ {s}, removal)
  /\ UNCHANGED <<db, fetch, edits>>

SaveFails(s) ==
  /\ s.at = "refused" /\ saves' = saves \ {s}
  /\ UNCHANGED <<db, cached, page, fetch, store, removal, edits>>

DeleteHandled ==
  /\ removal # None /\ removal.at = "sent"
  /\ \/ /\ db[removal.id] # None /\ db' = [db EXCEPT ![removal.id] = None]
        /\ removal' = [removal EXCEPT !.at = "ok"]
     \/ removal' = [removal EXCEPT !.at = "refused"] /\ UNCHANGED db
  /\ UNCHANGED <<cached, page, fetch, store, saves, edits>>

(* The detail leaves the cache, and a deletion from the editor closes              *)
(* whichever editor is open.  A refusal leaves the question open.                  *)
DeleteReturns ==
  /\ removal # None
  /\ \/ /\ removal.at = "ok" /\ cached' = [cached EXCEPT ![removal.id] = None]
        /\ IF removal.from = "list"
             THEN removal' = None /\ UNCHANGED <<page, saves>>
             ELSE Leave(saves, None)
     \/ /\ removal.at = "refused"
        /\ removal' = IF removal.from = "gone" THEN None ELSE [removal EXCEPT !.at = "asking"]
        /\ UNCHANGED <<cached, page, saves>>
  /\ UNCHANGED <<db, fetch, store, edits>>

-----------------------------------------------------------------------------
User == \/ handleNew \/ Undo \/ Redo \/ handleSave \/ handleCloseRequest \/ KeepEditing
        \/ handleDiscardConfirm \/ BrowserBack \/ handleDeleteRequest \/ CancelDelete
        \/ handleDeleteConfirm
        \/ \E i \in Ids : handleEdit(i) \/ handleDuplicate(i) \/ handleDeleteRow(i)
        \/ \E v \in Versions : Edit(v)

Query == useScenario \/ DetailArrives \/ Hydrate

Calls == \/ DeleteHandled \/ DeleteReturns
         \/ \E s \in saves : SaveHandled(s) \/ SaveReturns(s) \/ SaveFails(s)

Next == User \/ Query \/ Calls

Spec == Init /\ [][Next]_vars

(* Queries are fetched, answered and rendered; nothing is assumed of the           *)
(* user and of the calls.                                                          *)
FairSpec == Spec /\ WF_vars(useScenario) /\ WF_vars(DetailArrives) /\ WF_vars(Hydrate)

-----------------------------------------------------------------------------
(* Type invariant, with the bound on both stacks.                                  *)
PageRecord == [at : {"list", "edit", "new", "dup"}, id : Ids \cup {None},
               hydrated : BOOLEAN, failed : BOOLEAN, asking : BOOLEAN]
StoreRecord == [draft : Draft \cup {None}, dirty : BOOLEAN, undo : Seq(Draft),
                redo : Seq(Draft), base : Versions \cup {None}, lost : BOOLEAN]
SaveRecord == [to : Ids, new : BOOLEAN, is : Versions,
               at : {"sent", "ok", "refused"}, mounted : BOOLEAN]
RemovalRecord == [id : Ids, from : {"list", "editor", "gone"},
                  at : {"asking", "sent", "ok", "refused"}]

TypeOK ==
  /\ db \in [Ids -> Versions \cup {None}] /\ cached \in [Ids -> Versions \cup {None}]
  /\ page \in PageRecord
  /\ fetch \in [id : Ids, is : Versions \cup {None}] \cup {None}
  /\ store \in StoreRecord
  /\ Len(store.undo) <= HISTORY_CAPACITY /\ Len(store.redo) <= HISTORY_CAPACITY
  /\ saves \subseteq SaveRecord
  /\ removal \in RemovalRecord \cup {None} /\ edits \in Nat

(* Undo and redo never bring back another scenario's content, and a page           *)
(* that has filled the store shows its own scenario, whatever late answers         *)
(* replaced the draft in between.                                                  *)
ShownDraftIsOwn ==
  /\ \A i \in DOMAIN store.undo : store.undo[i].id = store.draft.id
  /\ \A i \in DOMAIN store.redo : store.redo[i].id = store.draft.id
  /\ page.hydrated =>
       store.draft.id = IF page.at = "edit" THEN page.id ELSE None

(* A draft that offers no Save is what was loaded or saved last, as long           *)
(* as no snapshot fell off the undo stack.                                         *)
CleanMeansSaved ==
  store.draft # None /\ ~store.dirty /\ ~store.lost => store.draft.is = store.base

(* Undo followed by redo, and redo followed by undo, change no draft.              *)
UndoRedoCancel ==
  /\ canUndo(store) => /\ canRedo(undo(store))
                       /\ redo(undo(store)).draft = store.draft
  /\ canRedo(store) => /\ canUndo(redo(store))
                       /\ undo(redo(store)).draft = store.draft

(* An editor that is opened comes to show its own scenario, or that it             *)
(* cannot be fetched, unless it is closed.                                         *)
EditorFills == (Editor /\ ~page.hydrated) ~> (page.hydrated \/ page.failed \/ ~Editor)

(* The comment on undo: when the stack empties we are back at the loaded           *)
(* or last-saved state.                                                            *)
CleanMeansLoaded ==
  store.draft # None /\ ~store.dirty => store.draft.is = store.base
=============================================================================
