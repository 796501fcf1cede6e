---------------------------------- MODULE Console ----------------------------------
(* The management console of the web application: the peers, subscribers and       *)
(* settings pages side by side (App.tsx).  The router mounts one of them at a      *)
(* time, in a browser tab that has just been opened on its route; a page has       *)
(* queries and mutations of its own, so what is checked of each page is checked    *)
(* on its own route, while the pages that are not mounted stay as they are.        *)
EXTENDS Naturals, FiniteSets

CONSTANTS None,
          Peers, Managed, MaxCalls, MaxChanges, MaxBreaks,
          Subs, Existing, Makers, Unlisted, MaxSaves, MaxFaults, MaxTyped, MaxPicks,
          Dicts, StoredDicts, Tools, Endpoints, Models, MaxTasks, MaxLost, MaxTouches, MaxVisits

VARIABLES
  route,  \* the page that is mounted
  config, live, feeds, gone, moves, breaks, edits, known, events, rows, details, listFailed, fetch, calls,
  drawer, deleteTarget, prompts, lastStatus, overtaken, replayed, missed, moved,
  stored, catalog, subscribers, subsFailed, subsFetch, saves, panel, confirm, faults,
  typedSims, picks,
  section, visits, settings, general, own, shown, asks, invalid, tasks, modal, card, offered,
  lost, touches, stale, overdue

peersPage       == INSTANCE PeersPage
subscribersPage == INSTANCE SubscribersPage
settingsPage    == INSTANCE SettingsPage

ASSUME ConsoleBounds ==
  /\ peersPage!PeersPageBounds
  /\ subscribersPage!SubscribersPageBounds
  /\ settingsPage!SettingsPageBounds

peersVars ==
  <<config, live, feeds, gone, moves, breaks, edits, known, events, rows, details, listFailed, fetch,
    calls, drawer, deleteTarget, prompts, lastStatus, overtaken, replayed, missed, moved>>
subscribersVars ==
  <<stored, catalog, subscribers, subsFailed, subsFetch, saves, panel, confirm, faults,
    typedSims, picks>>
settingsVars ==
  <<section, visits, settings, general, own, shown, asks, invalid, tasks, modal, card, offered,
    lost, touches, stale, overdue>>

vars == <<route, peersVars, subscribersVars, settingsVars>>

-----------------------------------------------------------------------------------
(* A page that is not mounted has some fixed state, which nothing looks at.        *)

NoPeers ==
  /\ config = None /\ live = None /\ feeds = None /\ known = None /\ rows = None /\ details = None
  /\ fetch = None /\ calls = None /\ drawer = None /\ deleteTarget = None
  /\ lastStatus = None
  /\ moves = 0 /\ breaks = 0 /\ edits = 0
  /\ listFailed = FALSE
  /\ events = {} /\ gone = {} /\ prompts = {}
  /\ overtaken = {} /\ replayed = {} /\ missed = {} /\ moved = {}

NoSubscribers ==
  /\ stored = None /\ subscribers = None /\ subsFetch = None /\ saves = None
  /\ panel = None /\ confirm = None
  /\ catalog = FALSE /\ subsFailed = FALSE
  /\ faults = 0 /\ typedSims = 0 /\ picks = 0

NoSettings ==
  /\ section = None /\ settings = None /\ general = None /\ own = None /\ shown = None
  /\ asks = None /\ tasks = None /\ modal = None /\ card = None
  /\ visits = 0 /\ lost = 0 /\ touches = 0
  /\ offered = {} /\ invalid = {} /\ stale = {} /\ overdue = {}

OnPeers       == route = "peers" /\ UNCHANGED <<route, subscribersVars, settingsVars>>
OnSubscribers == route = "subscribers" /\ UNCHANGED <<route, peersVars, settingsVars>>
OnSettings    == route = "settings" /\ UNCHANGED <<route, peersVars, subscribersVars>>

Init ==
  \/ route = "peers" /\ peersPage!Init /\ NoSubscribers /\ NoSettings
  \/ route = "subscribers" /\ subscribersPage!Init /\ NoPeers /\ NoSettings
  \/ route = "settings" /\ settingsPage!Init /\ NoPeers /\ NoSubscribers

Next ==
  \/ OnPeers /\ peersPage!Next
  \/ OnSubscribers /\ subscribersPage!Next
  \/ OnSettings /\ settingsPage!Next

Spec == Init /\ [][Next]_vars

-----------------------------------------------------------------------------------
(* Properties.  Those of a page are stated, with what they say of the code, in     *)
(* its own module.                                                                 *)

\* The mounted page's variables keep their types.
TypeOK ==
  \/ route = "peers" /\ peersPage!TypeOK
  \/ route = "subscribers" /\ subscribersPage!TypeOK
  \/ route = "settings" /\ settingsPage!TypeOK

\* The peers table is the server's once the events are read and nothing is out (the cache
\* written by events, answers, guesses and rollbacks).
TableIsServers == route = "peers" => peersPage!TableIsServers

\* A toast of a peer's status tells a change of its connection (usePeerStatusToasts.ts).
ToastsTellChanges == [][route = "peers" => peersPage!ToastsTellChangesStep]_vars

\* An update of a subscriber whose device was not picked again sends the stored device (the
\* form's reset when the catalogue arrives, and its derivation of the IMEI).
UntouchedDeviceIsSent == [][route = "subscribers" => subscribersPage!UntouchedDeviceIsSentStep]_vars

\* A record the page stores has an IMEI of its device, whatever was picked, cleared and typed
\* (the form's derivation of the IMEI).
ImeiFitsDevice == [][route = "subscribers" => subscribersPage!ImeiFitsDeviceStep]_vars

\* The open section, with no mutation out, shows what the server has (the reloads after a mutation).
SettledPagesAreServers == route = "settings" => settingsPage!SettledPagesAreServers

\* A save of the AI card writes what the card was filled with, but for what the user changed
\* (the card's seeding and reset, the handler's keeping of the key).
SavesKeepWhatWasFilled == [][route = "settings" => settingsPage!SavesKeepWhatWasFilledStep]_vars

====================================================================================
