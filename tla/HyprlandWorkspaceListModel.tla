--------------------- MODULE HyprlandWorkspaceListModel ---------------------
(***************************************************************************)
(* The list of workspaces behind the bar's buttons, kept on the main       *)
(* thread: one snapshot over .socket.sock when it is initialised, then one *)
(* handler per signal of the listener.                                     *)
(*                                                                         *)
(* `rows' and `sensitive' belong to the GTK widgets that observe the list: *)
(* a list view changes its rows by what items_changed tells it and by      *)
(* nothing else, and the menu button reads is-any-special when it is       *)
(* notified and at no other time.                                          *)
(***************************************************************************)
EXTENDS HyprlandEventListener, SequencesExt

CONSTANTS
  G_ASSERT,   \* FALSE in Release and MinSizeRel, built with G_DISABLE_ASSERT
  MaxFailures \* bound: how many commands fail while the list is in use

ASSUME GAssertAssumption == G_ASSERT \in BOOLEAN
ASSUME MaxFailuresAssumption == MaxFailures \in Nat

VARIABLES
  phase,               \* how far vfunc_init has come, or how it all ended
  snapshot,            \* workspaces_json: the answer to the first j/workspaces
  m_items,             \* the items by id; the value is the item's is-active
  m_num_special,
  m_active_id,
  m_active_special_id,
  rows,                \* ids in the rows of the observing list view
  sensitive,           \* the menu button's property bound to is-any-special
  failures,            \* for MaxFailures
  dropped,             \* history: workspaces the handlers gave up although they exist
  extraRows,           \* history: rows announced for an item already in the list
  extraSpecial         \* history: those of them that were special

memberVars  == <<m_items, m_num_special, rows, sensitive, dropped, extraRows, extraSpecial>>
activeVars  == <<m_active_id, m_active_special_id>>
listVars    == <<phase, snapshot, memberVars, activeVars, failures>>

vars == <<hyprlandVars, listenerVars, listVars>>

Phases == {"new", "connected", "listed", "ready", "failed", "assert_failed", "terminated"}

ListTypeOK ==
  /\ phase \in Phases
  /\ snapshot \subseteq Ids
  /\ DOMAIN m_items \subseteq Ids
  /\ m_items \in [DOMAIN m_items -> BOOLEAN]
  /\ m_num_special \in Nat
  /\ m_active_id \in Ids \cup {None}
  /\ m_active_special_id \in Ids \cup {None}
  /\ sensitive \in BOOLEAN
  /\ failures \in 0..MaxFailures
  /\ dropped \subseteq Ids
  /\ extraRows \in Nat
  /\ extraSpecial \in Nat

\* A fresh GObject: the members are zero.
ListInit ==
  /\ phase = "new"
  /\ snapshot = {}
  /\ m_items = [w \in {} |-> FALSE]
  /\ m_num_special = 0
  /\ m_active_id = None
  /\ m_active_special_id = None
  /\ rows = <<>>
  /\ sensitive = FALSE
  /\ failures = 0
  /\ dropped = {}
  /\ extraRows = 0
  /\ extraSpecial = 0

IsSpecial(w) == w < 0

\* it->second->set_is_active(b) when find(w) finds an item.
SetIsActive(items, w, b) ==
  [v \in DOMAIN items |-> IF v = w THEN b ELSE items[v]]

\* Mutant: the distance to the end of the map.
PositionFromEnd(items, w) == Cardinality({v \in DOMAIN items : v > w})

\* std::distance(m_items.begin(), m_items.find(w)): the map is ordered by id.
Position(items, w) == Cardinality({v \in DOMAIN items : v < w})

\* get_item at each position: the ids in the order of the map.
InOrder(items) ==
  [i \in 1..Cardinality(DOMAIN items) |-> CHOOSE w \in DOMAIN items : Position(items, w) = i - 1]

\* Mutant: the observers are notified before the counter changes.
NotifyTooEarly(edge) ==
  sensitive' = IF edge THEN m_num_special > 0 ELSE sensitive

\* notify(prop_is_any_special()) on an edge of the counter.
NotifyIsAnySpecial(edge) ==
  sensitive' = IF edge THEN m_num_special' > 0 ELSE sensitive

-----------------------------------------------------------------------------
(* vfunc_init.  It runs on the main thread from end to end, so that no     *)
(* handler runs before it returns, while the compositor and the worker     *)
(* thread go on.                                                           *)

CreateListener ==
  /\ phase = "new"
  /\ phase' = "connected"
  /\ Subscribe
  /\ UNCHANGED <<snapshot, memberVars, activeVars, failures>>

FetchWorkspaces ==
  /\ phase = "connected"
  /\ phase' = "listed"
  /\ snapshot' = exists
  /\ UNCHANGED <<memberVars, activeVars, failures, hyprlandVars, listenerVars>>

FetchActiveWorkspace ==
  /\ phase = "listed"
  /\ phase' = "ready"
  /\ m_active_id' = focused
  /\ m_items' = [w \in snapshot |-> w = focused]
  /\ m_num_special' = m_num_special + Cardinality({w \in snapshot : IsSpecial(w)})
  /\ NotifyIsAnySpecial(m_num_special' > 0)
  /\ rows' = InOrder(m_items')
  /\ UNCHANGED <<snapshot, m_active_special_id, failures, dropped, extraRows, extraSpecial,
                 hyprlandVars, listenerVars>>

\* connect_hyprland, write or read fails: the module is not created.
InitFails ==
  /\ phase \in {"new", "connected", "listed"}
  /\ phase' = "failed"
  /\ UNCHANGED <<snapshot, memberVars, activeVars, failures, hyprlandVars, listenerVars>>

\* nlohmann::json::parse or at() throws on an answer cut short, and nothing
\* catches it.
InitThrows ==
  /\ phase \in {"connected", "listed"}
  /\ phase' = "terminated"
  /\ UNCHANGED <<snapshot, memberVars, activeVars, failures, hyprlandVars, listenerVars>>

ListInitStep ==
  \/ CreateListener
  \/ FetchWorkspaces
  \/ FetchActiveWorkspace
  \/ InitFails
  \/ InitThrows

-----------------------------------------------------------------------------
(* The handlers, on the main thread.  Each runs to its end.                *)

\* Mutant: the old active item stays highlighted.
OnWorkspaceChangeKeepsOld(id) ==
  /\ m_items' = SetIsActive(m_items, id, TRUE)
  /\ m_active_id' = id
  /\ UNCHANGED <<phase, m_num_special, m_active_special_id, rows, sensitive, failures,
                 dropped, extraRows, extraSpecial>>

\* Mutant: a change to a workspace that is not in the list is ignored.
OnWorkspaceChangeIfListed(id) ==
  /\ m_items' = IF id \in DOMAIN m_items
                THEN SetIsActive(SetIsActive(m_items, m_active_id, FALSE), id, TRUE)
                ELSE m_items
  /\ m_active_id' = IF id \in DOMAIN m_items THEN id ELSE m_active_id
  /\ UNCHANGED <<phase, m_num_special, m_active_special_id, rows, sensitive, failures,
                 dropped, extraRows, extraSpecial>>

OnWorkspaceChange(id) ==
  /\ m_items' = SetIsActive(SetIsActive(m_items, m_active_id, FALSE), id, TRUE)
  /\ m_active_id' = id
  /\ UNCHANGED <<phase, m_num_special, m_active_special_id, rows, sensitive, failures,
                 dropped, extraRows, extraSpecial>>

\* The counter and the notification come before try_emplace, so an item that
\* is there already has been counted again when g_assert(success) looks.
AddItem(id) ==
  /\ m_num_special' = m_num_special + (IF IsSpecial(id) THEN 1 ELSE 0)
  /\ NotifyIsAnySpecial(IsSpecial(id) /\ m_num_special' = 1)
  /\ m_items' = [v \in DOMAIN m_items \cup {id} |->
                   IF v \in DOMAIN m_items THEN m_items[v] ELSE FALSE]
  /\ phase' = IF G_ASSERT /\ id \in DOMAIN m_items THEN "assert_failed" ELSE phase
  /\ rows' = IF phase' = "assert_failed" THEN rows
             ELSE InsertAt(rows, Position(m_items', id) + 1, id)
  /\ extraRows' = IF id \in DOMAIN m_items /\ ~G_ASSERT THEN extraRows + 1 ELSE extraRows
  /\ extraSpecial' = IF id \in DOMAIN m_items /\ IsSpecial(id) THEN extraSpecial + 1
                     ELSE extraSpecial
  /\ dropped' = dropped \ {id}

\* Mutant: events of workspaces the snapshot had are taken for old ones.
OnNewWorkspaceNotInSnapshot(id) ==
  /\ IF id \in exists \ snapshot THEN AddItem(id) ELSE UNCHANGED <<phase, memberVars>>
  /\ UNCHANGED <<activeVars, failures>>

\* j/workspaces is asked again, now: the workspace may be gone.
OnNewWorkspace(id) ==
  /\ IF id \in exists THEN AddItem(id) ELSE UNCHANGED <<phase, memberVars>>
  /\ UNCHANGED <<activeVars, failures>>

\* The command fails: the handler logs the error and gives up the workspace.
OnNewWorkspaceFails(id) ==
  /\ failures < MaxFailures
  /\ failures' = failures + 1
  /\ dropped' = IF id \in exists \ DOMAIN m_items THEN dropped \cup {id} ELSE dropped
  /\ UNCHANGED <<phase, m_items, m_num_special, rows, sensitive, extraRows, extraSpecial,
                 activeVars>>

\* The answer does not parse, and nothing catches the exception.
OnNewWorkspaceThrows ==
  /\ failures < MaxFailures
  /\ failures' = failures + 1
  /\ phase' = "terminated"
  /\ UNCHANGED <<memberVars, activeVars>>

\* Mutant: the counter goes down with every item.
EraseItemOfAnyKind(id) ==
  /\ m_num_special' = m_num_special - 1
  /\ NotifyIsAnySpecial(m_num_special' = 0)
  /\ m_items' = [v \in DOMAIN m_items \ {id} |-> m_items[v]]
  /\ rows' = RemoveAt(rows, Position(m_items, id) + 1)
  /\ UNCHANGED <<extraRows, extraSpecial>>

\* Mutant: the counter is only touched when the last special item goes.
EraseItemLazily(id) ==
  /\ m_num_special' = m_num_special - (IF IsSpecial(id) /\ m_num_special = 1 THEN 1 ELSE 0)
  /\ NotifyIsAnySpecial(IsSpecial(id) /\ m_num_special' = 0)
  /\ m_items' = [v \in DOMAIN m_items \ {id} |-> m_items[v]]
  /\ rows' = RemoveAt(rows, Position(m_items, id) + 1)
  /\ UNCHANGED <<extraRows, extraSpecial>>

EraseItem(id) ==
  /\ m_num_special' = m_num_special - (IF IsSpecial(id) THEN 1 ELSE 0)
  /\ NotifyIsAnySpecial(IsSpecial(id) /\ m_num_special' = 0)
  /\ m_items' = [v \in DOMAIN m_items \ {id} |-> m_items[v]]
  /\ rows' = RemoveAt(rows, Position(m_items, id) + 1)
  /\ UNCHANGED <<extraRows, extraSpecial>>

\* Mutant: the workspaces that are destroyed stay.
OnRemoveWorkspaceIfMoved(name, id) ==
  /\ IF id \in DOMAIN m_items /\ name = "moveworkspacev2" THEN EraseItem(id)
     ELSE UNCHANGED <<m_items, m_num_special, rows, sensitive, extraRows, extraSpecial>>
  /\ dropped' = IF name = "moveworkspacev2" THEN dropped \cup {id} ELSE dropped \ {id}
  /\ UNCHANGED <<phase, activeVars, failures>>

\* destroyworkspacev2 and moveworkspacev2 have the same handler.
OnRemoveWorkspace(name, id) ==
  /\ IF id \in DOMAIN m_items THEN EraseItem(id)
     ELSE UNCHANGED <<m_items, m_num_special, rows, sensitive, extraRows, extraSpecial>>
  /\ dropped' = IF name = "moveworkspacev2" THEN dropped \cup {id} ELSE dropped \ {id}
  /\ UNCHANGED <<phase, activeVars, failures>>

\* Mutant: the early return for a hidden special workspace comes first.
OnActiveSpecialReturnsEarly(id) ==
  /\ m_items' = IF id = None THEN m_items
                ELSE SetIsActive(SetIsActive(m_items, m_active_special_id, FALSE), id, TRUE)
  /\ m_active_special_id' = IF id = None THEN m_active_special_id ELSE id
  /\ UNCHANGED <<phase, m_num_special, m_active_id, rows, sensitive, failures,
                 dropped, extraRows, extraSpecial>>

\* An event that hides the special workspace leaves m_active_special_id.
OnActiveSpecial(id) ==
  /\ LET hidden == SetIsActive(m_items, m_active_special_id, FALSE)
     IN  m_items' = IF id = None THEN hidden ELSE SetIsActive(hidden, id, TRUE)
  /\ m_active_special_id' = IF id = None THEN m_active_special_id ELSE id
  /\ UNCHANGED <<phase, m_num_special, m_active_id, rows, sensitive, failures,
                 dropped, extraRows, extraSpecial>>

\* A signal without a handler.
OnOtherEvent == UNCHANGED <<phase, memberVars, activeVars, failures>>

\* One iteration of the main loop: the oldest closure emits its signal.
Dispatch ==
  /\ phase = "ready"
  /\ queue # <<>>
  /\ queue' = Tail(queue)
  /\ UNCHANGED <<hyprlandVars, snapshot>>
  /\ LET event == Head(queue)
     IN  \/ event.name = "workspacev2"        /\ OnWorkspaceChange(event.id)
         \/ event.name = "createworkspacev2"  /\ OnNewWorkspace(event.id)
         \/ event.name = "createworkspacev2"  /\ OnNewWorkspaceFails(event.id)
         \/ event.name = "createworkspacev2"  /\ OnNewWorkspaceThrows
         \/ event.name = "destroyworkspacev2" /\ OnRemoveWorkspace(event.name, event.id)
         \/ event.name = "moveworkspacev2"    /\ OnRemoveWorkspace(event.name, event.id)
         \/ event.name = "activespecialv2"    /\ OnActiveSpecial(event.id)
         \/ event.name = "openwindow"         /\ OnOtherEvent

=============================================================================
