--------------------------- MODULE WorkspaceSync ---------------------------
(***************************************************************************)
(* The compositor, the worker thread and the main thread together, and     *)
(* what the bar's list of workspaces promises about the compositor's.      *)
(***************************************************************************)
EXTENDS HyprlandWorkspaceListModel

Init == HyprlandInit /\ ListenerInit /\ ListInit

\* The module was not created, or the process is gone.
Stopped == phase \in {"failed", "assert_failed", "terminated"}

\* What the compositor does and the worker thread reads after that is of no
\* interest.
Compositor == ~Stopped /\ HyprlandStep /\ UNCHANGED <<listenerVars, listVars>>
Worker     == ~Stopped /\ ReadLine /\ UNCHANGED listVars
Main       == ListInitStep \/ Dispatch

Next == Compositor \/ Worker \/ Main

Spec == Init /\ [][Next]_vars

\* Both loops iterate as long as a source of theirs is ready.  Nothing makes
\* the compositor do anything.
Fairness == WF_vars(Worker) /\ WF_vars(Main)

FairSpec == Spec /\ Fairness

-----------------------------------------------------------------------------
(* What is under way from the compositor to the list.                      *)

Pending == queue \o wire

InFlight(names) == {i \in DOMAIN Pending : Pending[i].name \in names}

MembershipEvents == {"createworkspacev2", "destroyworkspacev2", "moveworkspacev2"}

Undecided(w) == \E i \in InFlight(MembershipEvents) : Pending[i].id = w

-----------------------------------------------------------------------------
(* Safety                                                                  *)

\* Every variable has its type.
TypeOK == HyprlandTypeOK /\ ListenerTypeOK /\ ListTypeOK

SpecialItems == {w \in DOMAIN m_items : IsSpecial(w)}

\* The counter behind is-any-special is the number of special items, plus one
\* for each special workspace that was counted although it was in the list:
\* on_remove_workspace never takes the unsigned counter below zero.
CountIsExact ==
  m_num_special = Cardinality(SpecialItems) + extraSpecial

\* A workspace is announced twice, or counted twice, only when the snapshot had
\* it before its event was handled, and then once: what the counter and the
\* rows are off by is bounded by the snapshot and never grows with the events.
DuplicatesAreBounded ==
  /\ extraRows <= Cardinality(snapshot)
  /\ extraSpecial <= Cardinality(snapshot \cap Special)

\* The menu button, which hears of the counter on its edges alone, is
\* sensitive exactly while the counter is not zero.
ButtonIsCurrent == sensitive <=> m_num_special > 0

\* The rows a list view built from items_changed alone are the items in the
\* order of their ids, as long as no item was announced twice.
RowsAreItems ==
  extraRows = 0 /\ phase # "assert_failed"
    => /\ {rows[i] : i \in DOMAIN rows} = DOMAIN m_items
       /\ \A i, j \in DOMAIN rows : i < j => rows[i] < rows[j]

\* At most one normal and one special workspace are highlighted, and they are
\* the ones the list will find again when it has to switch them off.
HighlightIsOwned ==
  \A w \in DOMAIN m_items :
    m_items[w] => w = IF IsSpecial(w) THEN m_active_special_id ELSE m_active_id

\* An item whose last event was handled is in the list exactly when the
\* workspace exists, whatever happened between the connection, the snapshot
\* and the first handler; but for those the handlers gave up.
DecidedItemsAreRight ==
  phase = "ready" =>
    \A w \in Ids : ~Undecided(w) => (w \in DOMAIN m_items <=> w \in exists \ dropped)

\* When no workspacev2 is under way, the focused workspace is the active one
\* and its item, if the list has it, is highlighted, although a new item is
\* never created highlighted.
FocusIsHighlighted ==
  phase = "ready" /\ InFlight({"workspacev2"}) = {} =>
    /\ m_active_id = focused
    /\ focused \in DOMAIN m_items => m_items[focused]

\* When no activespecialv2 is under way, a highlighted special item is the
\* special workspace on display, and that one is highlighted if the list was
\* ever told of it: m_active_special_id, which is not reset when the special
\* workspace is hidden, does no harm.
SpecialIsHighlighted ==
  phase = "ready" /\ InFlight({"activespecialv2"}) = {} =>
    /\ \A w \in DOMAIN m_items \cap Special : m_items[w] => w = shown
    /\ m_active_special_id # None /\ shown \in DOMAIN m_items => m_items[shown]

\* hyprland_workspace_list_model.cpp:164, g_assert(success): the event of a
\* new workspace finds no item with its id.
NewItemIsNew == phase # "assert_failed"

-----------------------------------------------------------------------------
(* Liveness                                                                *)

\* Every switch of the focus reaches the list, or is overtaken by the next.
FocusIsFollowed ==
  \A w \in Normal : focused = w ~> (m_active_id = w \/ focused # w \/ Stopped)

\* Once the compositor is quiet the list comes to rest on its workspaces.
ListConverges ==
  <>[](Stopped \/ (phase = "ready" /\ Pending = <<>> /\ DOMAIN m_items = exists \ dropped))

=============================================================================
