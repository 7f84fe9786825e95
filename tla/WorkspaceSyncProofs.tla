------------------------ MODULE WorkspaceSyncProofs ------------------------
(***************************************************************************)
(* For every set of workspaces, every number of events and failures, and   *)
(* both builds: the types, the counter behind the menu button, the button, *)
(* and the ownership of the highlights.                                    *)
(*                                                                         *)
(* These are not inductive one by one.  on_remove_workspace keeps the type *)
(* of the unsigned counter because the counter is exact; the counter that  *)
(* vfunc_init adds to is exact because nothing has been counted before it; *)
(* and the button follows from the edges because the counter is a natural  *)
(* number.                                                                 *)
(***************************************************************************)
EXTENDS WorkspaceSync, FiniteSetTheorems, SequenceTheorems, WellFoundedInduction, TLAPS

\* The list is untouched until vfunc_init has both answers.
Untouched ==
  phase \in {"new", "connected", "listed"} =>
    /\ m_items = [w \in {} |-> FALSE]
    /\ m_num_special = 0
    /\ extraSpecial = 0

IInv ==
  /\ TypeOK
  /\ Untouched
  /\ CountIsExact
  /\ ButtonIsCurrent
  /\ HighlightIsOwned

-----------------------------------------------------------------------------

\* The special items are a finite set, so that they can be counted.
LEMMA SpecialItemsFinite ==
  ASSUME ListTypeOK
  PROVE  /\ IsFiniteSet(SpecialItems)
         /\ Cardinality(SpecialItems) \in Nat
<1>1. SpecialItems \subseteq Ids
  BY DEF SpecialItems, ListTypeOK
<1>2. IsFiniteSet(SpecialItems)
  BY <1>1, IdsAssumption, FS_Subset
<1>3. QED
  BY <1>2, FS_CardinalityType

\* The fresh object satisfies the invariant.
LEMMA InitIInv == Init => IInv
<1> SUFFICES ASSUME Init PROVE IInv
  OBVIOUS
<1> USE DEF Init, HyprlandInit, ListenerInit, ListInit
<1>1. TypeOK
  <2>1. exists \subseteq Ids /\ focused \in exists \cap Normal
        /\ shown \in (exists \cap Special) \cup {None}
    OBVIOUS
  <2>2. wire \in Seq(Events) /\ queue \in Seq(Events)
    OBVIOUS
  <2>3. emitted \in 0..MaxEvents /\ failures \in 0..MaxFailures
    BY MaxEventsAssumption, MaxFailuresAssumption DEF MaxEventsAssumption, MaxFailuresAssumption
  <2>4. subscribed \in BOOLEAN
    OBVIOUS
  <2>5. DOMAIN m_items \subseteq Ids /\ m_items \in [DOMAIN m_items -> BOOLEAN]
    OBVIOUS
  <2>6. HyprlandTypeOK
    BY <2>1, <2>2, <2>3, <2>4 DEF HyprlandTypeOK
  <2>7. ListTypeOK
    BY <2>3, <2>5 DEF ListTypeOK, Phases, None
  <2>8. QED
    BY <2>2, <2>6, <2>7 DEF TypeOK, ListenerTypeOK
<1>2. Untouched
  BY DEF Untouched
<1>3. CountIsExact
  <2>1. SpecialItems = {}
    BY DEF SpecialItems
  <2>2. QED
    BY <2>1, FS_EmptySet DEF CountIsExact
<1>4. ButtonIsCurrent
  BY DEF ButtonIsCurrent
<1>5. HighlightIsOwned
  BY DEF HighlightIsOwned
<1>6. QED
  BY <1>1, <1>2, <1>3, <1>4, <1>5 DEF IInv

\* A step that leaves the list alone keeps what the invariant says of it.
LEMMA ListUnchanged ==
  ASSUME IInv, UNCHANGED listVars
  PROVE  ListTypeOK' /\ Untouched' /\ CountIsExact' /\ ButtonIsCurrent' /\ HighlightIsOwned'
<1> USE DEF IInv, TypeOK, listVars, memberVars, activeVars
<1>1. ListTypeOK'
  BY DEF ListTypeOK
<1>2. Untouched'
  BY DEF Untouched
<1>3. CountIsExact'
  BY DEF CountIsExact, SpecialItems
<1>4. ButtonIsCurrent' /\ HighlightIsOwned'
  BY DEF ButtonIsCurrent, HighlightIsOwned
<1>5. QED
  BY <1>1, <1>2, <1>3, <1>4

\* The compositor changes its own state and the wire.
LEMMA CompositorIInv == IInv /\ Compositor => IInv'
<1> SUFFICES ASSUME IInv, Compositor PROVE IInv'
  OBVIOUS
<1>1. HyprlandTypeOK /\ ListenerTypeOK /\ UNCHANGED listVars /\ UNCHANGED queue /\ HyprlandStep
  BY DEF IInv, TypeOK, Compositor, listenerVars
<1>2. ASSUME NEW name, NEW id, Emit(name, id), [name |-> name, id |-> id] \in Events
      PROVE  wire' \in Seq(Events) /\ emitted' \in 0..MaxEvents /\ subscribed' \in BOOLEAN
  BY <1>1, <1>2, MaxEventsAssumption DEF Emit, HyprlandTypeOK
<1>3. HyprlandTypeOK'
  <2>1. ASSUME NEW w \in Ids, CreateWorkspace(w) PROVE HyprlandTypeOK'
    BY <1>1, <1>2, <2>1 DEF CreateWorkspace, HyprlandTypeOK, Events
  <2>2. ASSUME NEW w \in Ids, DestroyWorkspace(w) PROVE HyprlandTypeOK'
    BY <1>1, <1>2, <2>2 DEF DestroyWorkspace, HyprlandTypeOK, Events
  <2>3. ASSUME NEW w \in Ids, MoveWorkspace(w) PROVE HyprlandTypeOK'
    BY <1>1, <1>2, <2>3 DEF MoveWorkspace, HyprlandTypeOK, Events
  <2>4. ASSUME NEW w \in Ids, FocusWorkspace(w) PROVE HyprlandTypeOK'
    BY <1>1, <1>2, <2>4 DEF FocusWorkspace, HyprlandTypeOK, Events
  <2>5. ASSUME NEW w \in Ids \cup {None}, ShowSpecial(w) PROVE HyprlandTypeOK'
    BY <1>1, <1>2, <2>5 DEF ShowSpecial, HyprlandTypeOK, Events
  <2>6. ASSUME NEW name \in OtherLines, OtherLine(name) PROVE HyprlandTypeOK'
    BY <1>1, <1>2, <2>6 DEF OtherLine, HyprlandTypeOK, Events
  <2>7. QED
    BY <1>1, <2>1, <2>2, <2>3, <2>4, <2>5, <2>6 DEF HyprlandStep
<1>4. ListenerTypeOK'
  BY <1>1 DEF ListenerTypeOK
<1>5. QED
  BY <1>1, <1>3, <1>4, ListUnchanged DEF IInv, TypeOK

\* The worker thread moves a line from the wire to the queue or drops it.
LEMMA WorkerIInv == IInv /\ Worker => IInv'
<1> SUFFICES ASSUME IInv, Worker PROVE IInv'
  OBVIOUS
<1>1. /\ HyprlandTypeOK /\ ListenerTypeOK /\ UNCHANGED listVars
      /\ wire # <<>> /\ wire' = Tail(wire)
      /\ queue' \in {queue, Append(queue, Head(wire))}
      /\ UNCHANGED <<exists, focused, shown, subscribed, emitted>>
  BY DEF IInv, TypeOK, Worker, ReadLine
<1>2. HyprlandTypeOK'
  BY <1>1 DEF HyprlandTypeOK
<1>3. ListenerTypeOK'
  <2>1. wire \in Seq(Events) /\ queue \in Seq(Events)
    BY <1>1 DEF HyprlandTypeOK, ListenerTypeOK
  <2>2. Head(wire) \in Events
    BY <1>1, <2>1
  <2>3. Append(queue, Head(wire)) \in Seq(Events)
    BY <2>1, <2>2
  <2>4. queue' \in Seq(Events)
    BY <1>1, <2>1, <2>3
  <2>5. QED
    BY <2>4 DEF ListenerTypeOK
<1>4. QED
  BY <1>1, <1>2, <1>3, ListUnchanged DEF IInv, TypeOK

-----------------------------------------------------------------------------
(* The main thread: vfunc_init.                                            *)

\* Nothing is counted before the snapshot is, and no item is highlighted but
\* the focused one.
LEMMA FetchIInv == IInv /\ FetchActiveWorkspace => IInv'
<1> SUFFICES ASSUME IInv, FetchActiveWorkspace PROVE IInv'
  OBVIOUS
<1>1. HyprlandTypeOK /\ ListenerTypeOK /\ ListTypeOK
  BY DEF IInv, TypeOK
<1>2. m_num_special = 0 /\ extraSpecial = 0 /\ ~sensitive
  <2>1. m_num_special = 0 /\ extraSpecial = 0
    BY DEF IInv, Untouched, FetchActiveWorkspace
  <2>2. ~(m_num_special > 0)
    BY <2>1
  <2>3. ~sensitive
    BY <2>2, Zenon DEF IInv, ButtonIsCurrent
  <2>4. QED
    BY <2>1, <2>3
<1>3. /\ phase' = "ready"
      /\ m_active_id' = focused
      /\ m_items' = [w \in snapshot |-> w = focused]
      /\ m_num_special' = m_num_special + Cardinality({w \in snapshot : IsSpecial(w)})
      /\ sensitive' = IF m_num_special' > 0 THEN m_num_special' > 0 ELSE sensitive
      /\ UNCHANGED <<snapshot, m_active_special_id, failures, dropped, extraRows, extraSpecial>>
      /\ UNCHANGED <<exists, focused, shown, subscribed, wire, emitted, queue>>
  BY DEF FetchActiveWorkspace, NotifyIsAnySpecial, hyprlandVars, listenerVars
<1>4. SpecialItems' = {w \in snapshot : IsSpecial(w)}
  BY <1>3 DEF SpecialItems, IsSpecial
<1>5. Cardinality(SpecialItems') \in Nat
  <2>1. SpecialItems' \subseteq Ids
    BY <1>1, <1>4 DEF ListTypeOK
  <2>2. QED
    BY <2>1, IdsAssumption, FS_Subset, FS_CardinalityType DEF IdsAssumption
<1>6. m_num_special' = Cardinality(SpecialItems') /\ m_num_special' \in Nat
  <2>1. m_num_special' = m_num_special + Cardinality(SpecialItems')
    BY <1>3, <1>4, Zenon
  <2>2. QED
    BY <1>2, <1>5, <2>1
<1>7. CountIsExact'
  <2>1. extraSpecial' = 0
    BY <1>2, <1>3
  <2>2. QED
    BY <1>5, <1>6, <2>1 DEF CountIsExact
<1>8. ButtonIsCurrent' /\ sensitive' \in BOOLEAN
  <2>1. CASE m_num_special' > 0
    BY <1>3, <2>1, Zenon DEF ButtonIsCurrent
  <2>2. CASE ~(m_num_special' > 0)
    <3>1. sensitive' = sensitive
      BY <1>3, <2>2, Zenon
    <3>2. sensitive \in BOOLEAN
      BY <1>1 DEF ListTypeOK
    <3>3. QED
      BY <1>2, <2>2, <3>1, <3>2, Zenon DEF ButtonIsCurrent
  <2>3. QED
    BY <2>1, <2>2
<1>9. HighlightIsOwned'
  <2>1. focused > 0
    BY <1>1 DEF HyprlandTypeOK, Normal
  <2>2. \A w \in DOMAIN m_items' : m_items'[w] => w = focused
    BY <1>3
  <2>3. focused \in Ids /\ focused \in Int
    BY <1>1, IdsAssumption DEF HyprlandTypeOK, Normal, IdsAssumption
  <2>4. ~IsSpecial(focused)
    BY <2>1, <2>3 DEF IsSpecial
  <2>5. QED
    BY <1>3, <2>2, <2>4 DEF HighlightIsOwned
<1>10. ListTypeOK'
  <2>1. DOMAIN m_items' \subseteq Ids /\ m_items' \in [DOMAIN m_items' -> BOOLEAN]
    BY <1>1, <1>3 DEF ListTypeOK
  <2>2. m_active_id' \in Ids \cup {None} /\ m_active_special_id' \in Ids \cup {None}
    BY <1>1, <1>3 DEF ListTypeOK, HyprlandTypeOK
  <2>3. QED
    BY <1>1, <1>3, <1>6, <1>8, <2>1, <2>2 DEF ListTypeOK, Phases
<1>11. HyprlandTypeOK' /\ ListenerTypeOK'
  BY <1>1, <1>3 DEF HyprlandTypeOK, ListenerTypeOK
<1>12. Untouched'
  BY <1>3 DEF Untouched
<1>13. QED
  BY <1>7, <1>8, <1>9, <1>10, <1>11, <1>12 DEF IInv, TypeOK

\* The other steps of vfunc_init leave the items alone.
LEMMA ListInitStepIInv == IInv /\ ListInitStep => IInv'
<1> SUFFICES ASSUME IInv, ListInitStep PROVE IInv'
  OBVIOUS
<1>1. CASE FetchActiveWorkspace
  BY <1>1, FetchIInv
<1>2. CASE CreateListener \/ FetchWorkspaces \/ InitFails \/ InitThrows
  <2>1. /\ UNCHANGED <<memberVars, activeVars, failures>>
        /\ phase \in {"new", "connected", "listed"}
        /\ phase' \in Phases
        /\ snapshot' \in {snapshot, exists}
        /\ UNCHANGED <<exists, focused, shown, wire, emitted, queue>>
        /\ subscribed' \in {subscribed, TRUE}
    BY <1>2 DEF CreateListener, Subscribe, FetchWorkspaces, InitFails, InitThrows,
                hyprlandVars, listenerVars, Phases
  <2>2. HyprlandTypeOK' /\ ListenerTypeOK'
    BY <2>1 DEF IInv, TypeOK, HyprlandTypeOK, ListenerTypeOK
  <2>3. ListTypeOK'
    BY <2>1 DEF IInv, TypeOK, ListTypeOK, HyprlandTypeOK, memberVars, activeVars
  <2>4. Untouched' /\ CountIsExact'
    BY <2>1 DEF IInv, Untouched, CountIsExact, SpecialItems, memberVars
  <2>5. ButtonIsCurrent' /\ HighlightIsOwned'
    BY <2>1 DEF IInv, ButtonIsCurrent, HighlightIsOwned, memberVars, activeVars
  <2>6. QED
    BY <2>2, <2>3, <2>4, <2>5 DEF IInv, TypeOK
<1>3. QED
  BY <1>1, <1>2 DEF ListInitStep

-----------------------------------------------------------------------------
(* The main thread: the handlers.  Each lemma is about the list alone.     *)

ListInv == ListTypeOK /\ CountIsExact /\ ButtonIsCurrent /\ HighlightIsOwned

\* Switching a highlight changes neither the ids nor the count.
LEMMA WorkspaceChangeInv ==
  ASSUME ListInv, NEW id \in Normal, OnWorkspaceChange(id), UNCHANGED snapshot
  PROVE  ListInv'
<1> DEFINE off == SetIsActive(m_items, m_active_id, FALSE)
<1>1. ListTypeOK /\ m_items \in [DOMAIN m_items -> BOOLEAN]
  BY DEF ListInv, ListTypeOK
<1>2. /\ DOMAIN off = DOMAIN m_items
      /\ off \in [DOMAIN m_items -> BOOLEAN]
      /\ \A v \in DOMAIN m_items : off[v] = IF v = m_active_id THEN FALSE ELSE m_items[v]
  BY <1>1 DEF SetIsActive
<1>3. m_items' = SetIsActive(off, id, TRUE)
  BY DEF OnWorkspaceChange
<1> HIDE DEF off
<1>4. /\ DOMAIN m_items' = DOMAIN m_items
      /\ m_items' \in [DOMAIN m_items -> BOOLEAN]
      /\ \A v \in DOMAIN m_items : m_items'[v] = IF v = id THEN TRUE ELSE off[v]
  BY <1>2, <1>3 DEF SetIsActive
<1>5. ListTypeOK'
  BY <1>1, <1>4 DEF ListTypeOK, OnWorkspaceChange, Normal
<1>6. CountIsExact' /\ ButtonIsCurrent'
  BY <1>4 DEF ListInv, CountIsExact, SpecialItems, ButtonIsCurrent, OnWorkspaceChange
<1>7. HighlightIsOwned'
  <2>1. ~IsSpecial(id)
    BY IdsAssumption DEF IdsAssumption, IsSpecial, Normal
  <2>2. UNCHANGED m_active_special_id /\ m_active_id' = id
    BY DEF OnWorkspaceChange
  <2>3. QED
    BY <1>2, <1>4, <2>1, <2>2 DEF ListInv, HighlightIsOwned
<1>8. QED
  BY <1>5, <1>6, <1>7 DEF ListInv

LEMMA ActiveSpecialInv ==
  ASSUME ListInv, NEW id \in Special \cup {None}, OnActiveSpecial(id), UNCHANGED snapshot
  PROVE  ListInv'
<1> DEFINE off == SetIsActive(m_items, m_active_special_id, FALSE)
<1>1. ListTypeOK /\ m_items \in [DOMAIN m_items -> BOOLEAN]
  BY DEF ListInv, ListTypeOK
<1>2. /\ DOMAIN off = DOMAIN m_items
      /\ off \in [DOMAIN m_items -> BOOLEAN]
      /\ \A v \in DOMAIN m_items :
           off[v] = IF v = m_active_special_id THEN FALSE ELSE m_items[v]
  BY <1>1 DEF SetIsActive
<1>3. m_items' = IF id = None THEN off ELSE SetIsActive(off, id, TRUE)
  BY DEF OnActiveSpecial
<1> HIDE DEF off
<1>4. /\ DOMAIN m_items' = DOMAIN m_items
      /\ m_items' \in [DOMAIN m_items -> BOOLEAN]
      /\ \A v \in DOMAIN m_items :
           m_items'[v] = IF id # None /\ v = id THEN TRUE ELSE off[v]
  <2>1. CASE id = None
    BY <2>1, <1>2, <1>3
  <2>2. CASE id # None
    <3>1. m_items' = SetIsActive(off, id, TRUE)
      BY <2>2, <1>3
    <3>2. m_items' = [v \in DOMAIN m_items |-> IF v = id THEN TRUE ELSE off[v]]
      BY <3>1, <1>2 DEF SetIsActive
    <3>3. QED
      BY <3>2, <2>2, <1>2
  <2>3. QED
    BY <2>1, <2>2
<1>5. ListTypeOK'
  BY <1>1, <1>4 DEF ListTypeOK, OnActiveSpecial, Special
<1>6. CountIsExact' /\ ButtonIsCurrent'
  BY <1>4 DEF ListInv, CountIsExact, SpecialItems, ButtonIsCurrent, OnActiveSpecial
<1>7. HighlightIsOwned'
  BY <1>2, <1>4 DEF ListInv, HighlightIsOwned, OnActiveSpecial, IsSpecial, Special, None
<1>8. QED
  BY <1>5, <1>6, <1>7 DEF ListInv

\* try_emplace: one more special item, or one more counted twice.
LEMMA AddItemInv ==
  ASSUME ListInv, NEW id \in Ids, AddItem(id),
         UNCHANGED <<snapshot, activeVars, failures>>
  PROVE  ListInv'
<1>1. /\ ListTypeOK
      /\ m_num_special = Cardinality(SpecialItems) + extraSpecial
      /\ IsFiniteSet(SpecialItems)
      /\ Cardinality(SpecialItems) \in Nat
  BY SpecialItemsFinite DEF ListInv, CountIsExact
<1>2. /\ m_num_special' = m_num_special + (IF IsSpecial(id) THEN 1 ELSE 0)
      /\ m_items' = [v \in DOMAIN m_items \cup {id} |->
                       IF v \in DOMAIN m_items THEN m_items[v] ELSE FALSE]
      /\ extraSpecial' = IF id \in DOMAIN m_items /\ IsSpecial(id) THEN extraSpecial + 1
                         ELSE extraSpecial
  BY DEF AddItem
<1>3. SpecialItems' = IF IsSpecial(id) THEN SpecialItems \cup {id} ELSE SpecialItems
  BY <1>2 DEF SpecialItems, IsSpecial
<1>4. CountIsExact' /\ m_num_special' \in Nat /\ extraSpecial' \in Nat
  <2>0. extraSpecial \in Nat
    BY <1>1 DEF ListTypeOK
  <2>1. CASE ~IsSpecial(id)
    BY <1>1, <1>2, <1>3, <2>0, <2>1 DEF CountIsExact
  <2>2. CASE IsSpecial(id)
    <3>1. id \in SpecialItems <=> id \in DOMAIN m_items
      BY <2>2 DEF SpecialItems
    <3>2. Cardinality(SpecialItems') =
            IF id \in SpecialItems THEN Cardinality(SpecialItems) ELSE Cardinality(SpecialItems) + 1
      BY <1>1, <1>3, <2>2, FS_AddElement
    <3>3. QED
      BY <1>1, <1>2, <2>0, <2>2, <3>1, <3>2 DEF CountIsExact
  <2>3. QED
    BY <2>1, <2>2
<1>5. ButtonIsCurrent' /\ sensitive' \in BOOLEAN
  <2>1. ButtonIsCurrent /\ sensitive \in BOOLEAN /\ m_num_special \in Nat
    BY DEF ListInv, ListTypeOK
  <2>2. CASE IsSpecial(id) /\ m_num_special' = 1
    <3>1. (m_num_special' > 0) = TRUE
      BY <2>2
    <3>2. sensitive' = TRUE
      BY <2>2, <3>1, Zenon DEF AddItem, NotifyIsAnySpecial
    <3>3. QED
      BY <3>1, <3>2, Zenon DEF ButtonIsCurrent
  <2>3. CASE ~(IsSpecial(id) /\ m_num_special' = 1)
    <3>1. m_num_special' > 0 <=> m_num_special > 0
      BY <1>2, <2>1, <2>3
    <3>2. sensitive' = sensitive
      BY <2>3, Zenon DEF AddItem, NotifyIsAnySpecial
    <3>3. QED
      BY <2>1, <3>1, <3>2, Zenon DEF ButtonIsCurrent
  <2>4. QED
    BY <2>2, <2>3
<1>6. ListTypeOK'
  <2>1. DOMAIN m_items' \subseteq Ids /\ m_items' \in [DOMAIN m_items' -> BOOLEAN]
    BY <1>1, <1>2 DEF ListTypeOK
  <2>2. phase' \in Phases
    BY <1>1 DEF AddItem, ListTypeOK, Phases
  <2>3. extraRows' \in Nat /\ dropped' \subseteq Ids
    BY <1>1 DEF AddItem, ListTypeOK
  <2>4. QED
    BY <1>1, <1>4, <1>5, <2>1, <2>2, <2>3 DEF ListTypeOK, activeVars
<1>7. HighlightIsOwned'
  BY <1>2 DEF ListInv, HighlightIsOwned, activeVars
<1>8. QED
  BY <1>4, <1>5, <1>6, <1>7 DEF ListInv

\* erase: the counter, when it goes down, counted the item that goes.
LEMMA EraseItemInv ==
  ASSUME ListInv, NEW id \in DOMAIN m_items, EraseItem(id), dropped' \subseteq Ids,
         UNCHANGED <<phase, snapshot, activeVars, failures>>
  PROVE  ListInv'
<1>1. /\ ListTypeOK
      /\ m_num_special = Cardinality(SpecialItems) + extraSpecial
      /\ IsFiniteSet(SpecialItems)
      /\ Cardinality(SpecialItems) \in Nat
  BY SpecialItemsFinite DEF ListInv, CountIsExact
<1>2. /\ m_num_special' = m_num_special - (IF IsSpecial(id) THEN 1 ELSE 0)
      /\ m_items' = [v \in DOMAIN m_items \ {id} |-> m_items[v]]
      /\ UNCHANGED <<extraRows, extraSpecial>>
  BY DEF EraseItem
<1>3. SpecialItems' = IF IsSpecial(id) THEN SpecialItems \ {id} ELSE SpecialItems
  BY <1>2 DEF SpecialItems, IsSpecial
<1>4. CountIsExact' /\ m_num_special' \in Nat
  <2>1. extraSpecial \in Nat
    BY <1>1 DEF ListTypeOK
  <2>2. CASE ~IsSpecial(id)
    BY <1>1, <1>2, <1>3, <2>1, <2>2 DEF CountIsExact
  <2>3. CASE IsSpecial(id)
    <3>1. id \in SpecialItems
      BY <2>3 DEF SpecialItems
    <3>2. /\ Cardinality(SpecialItems') = Cardinality(SpecialItems) - 1
          /\ IsFiniteSet(SpecialItems')
      BY <1>1, <1>3, <2>3, <3>1, FS_RemoveElement
    <3>3. Cardinality(SpecialItems') \in Nat
      BY <3>2, FS_CardinalityType
    <3>4. QED
      BY <1>1, <1>2, <2>1, <2>3, <3>2, <3>3 DEF CountIsExact
  <2>4. QED
    BY <2>2, <2>3
<1>5. ButtonIsCurrent' /\ sensitive' \in BOOLEAN
  <2>1. ButtonIsCurrent /\ sensitive \in BOOLEAN /\ m_num_special \in Nat
    BY DEF ListInv, ListTypeOK
  <2>2. CASE IsSpecial(id) /\ m_num_special' = 0
    <3>1. (m_num_special' > 0) = FALSE
      BY <2>2
    <3>2. sensitive' = FALSE
      BY <2>2, <3>1, Zenon DEF EraseItem, NotifyIsAnySpecial
    <3>3. QED
      BY <3>1, <3>2, Zenon DEF ButtonIsCurrent
  <2>3. CASE ~(IsSpecial(id) /\ m_num_special' = 0)
    <3>1. m_num_special' > 0 <=> m_num_special > 0
      BY <1>2, <1>4, <2>1, <2>3
    <3>2. sensitive' = sensitive
      BY <2>3, Zenon DEF EraseItem, NotifyIsAnySpecial
    <3>3. QED
      BY <2>1, <3>1, <3>2, Zenon DEF ButtonIsCurrent
  <2>4. QED
    BY <2>2, <2>3
<1>6. ListTypeOK'
  <2>1. DOMAIN m_items' \subseteq Ids /\ m_items' \in [DOMAIN m_items' -> BOOLEAN]
    BY <1>1, <1>2 DEF ListTypeOK
  <2>2. QED
    BY <1>1, <1>2, <1>4, <1>5, <2>1 DEF ListTypeOK, activeVars
<1>7. HighlightIsOwned'
  BY <1>2 DEF ListInv, HighlightIsOwned, activeVars
<1>8. QED
  BY <1>4, <1>5, <1>6, <1>7 DEF ListInv

-----------------------------------------------------------------------------

\* The id a closure carries suits its event.
LEMMA EventIds ==
  ASSUME NEW event \in Events
  PROVE  /\ event.name \in {"createworkspacev2", "destroyworkspacev2", "moveworkspacev2"}
             => event.id \in Ids
         /\ event.name = "workspacev2" => event.id \in Normal
         /\ event.name = "activespecialv2" => event.id \in Special \cup {None}
BY OtherLinesAssumption DEF OtherLinesAssumption, Events

\* A handler that changes nothing of what the invariant is about.
LEMMA SameListInv ==
  ASSUME ListInv, phase' \in Phases, failures' \in 0..MaxFailures, dropped' \subseteq Ids,
         UNCHANGED <<snapshot, m_items, m_num_special, rows, sensitive, extraRows,
                     extraSpecial, activeVars>>
  PROVE  ListInv'
<1>1. ListTypeOK'
  BY DEF ListInv, ListTypeOK, activeVars
<1>2. CountIsExact'
  BY DEF ListInv, CountIsExact, SpecialItems
<1>3. ButtonIsCurrent' /\ HighlightIsOwned'
  BY DEF ListInv, ButtonIsCurrent, HighlightIsOwned, activeVars
<1>4. QED
  BY <1>1, <1>2, <1>3 DEF ListInv

\* One iteration of the main loop.
LEMMA DispatchIInv == IInv /\ Dispatch => IInv'
<1> SUFFICES ASSUME IInv, Dispatch PROVE IInv'
  OBVIOUS
<1> DEFINE event == Head(queue)
<1>1. /\ phase = "ready"
      /\ queue # <<>> /\ queue' = Tail(queue)
      /\ UNCHANGED <<exists, focused, shown, subscribed, wire, emitted, snapshot>>
  BY DEF Dispatch, hyprlandVars
<1>2. HyprlandTypeOK' /\ ListenerTypeOK' /\ event \in Events
  BY <1>1 DEF IInv, TypeOK, HyprlandTypeOK, ListenerTypeOK
<1>3. ListInv /\ dropped \subseteq Ids /\ failures \in 0..MaxFailures /\ phase \in Phases
  BY DEF IInv, TypeOK, ListInv, ListTypeOK
<1>4. \/ event.name = "workspacev2"        /\ OnWorkspaceChange(event.id)
      \/ event.name = "createworkspacev2"  /\ OnNewWorkspace(event.id)
      \/ event.name = "createworkspacev2"  /\ OnNewWorkspaceFails(event.id)
      \/ event.name = "createworkspacev2"  /\ OnNewWorkspaceThrows
      \/ event.name = "destroyworkspacev2" /\ OnRemoveWorkspace(event.name, event.id)
      \/ event.name = "moveworkspacev2"    /\ OnRemoveWorkspace(event.name, event.id)
      \/ event.name = "activespecialv2"    /\ OnActiveSpecial(event.id)
      \/ event.name = "openwindow"         /\ OnOtherEvent
  BY Zenon DEF Dispatch
<1> HIDE DEF event
<1>5. ASSUME event.name = "workspacev2", OnWorkspaceChange(event.id)
      PROVE  ListInv' /\ phase' = phase
  <2>1. ListInv'
    BY <1>1, <1>2, <1>3, <1>5, EventIds, WorkspaceChangeInv
  <2>2. QED
    BY <1>5, <2>1 DEF OnWorkspaceChange
<1>6. ASSUME event.name = "createworkspacev2", OnNewWorkspace(event.id)
      PROVE  ListInv' /\ phase' \in {phase, "assert_failed"}
  <2>1. CASE event.id \in exists
    <3>1. AddItem(event.id) /\ UNCHANGED <<activeVars, failures>>
      BY <1>6, <2>1 DEF OnNewWorkspace
    <3>2. ListInv'
      BY <1>1, <1>2, <1>3, <1>6, <3>1, EventIds, AddItemInv
    <3>3. QED
      BY <3>1, <3>2 DEF AddItem
  <2>2. CASE event.id \notin exists
    <3>1. UNCHANGED <<phase, memberVars, activeVars, failures>>
      BY <1>6, <2>2 DEF OnNewWorkspace
    <3>2. QED
      BY <1>1, <1>3, <3>1, SameListInv DEF memberVars
  <2>3. QED
    BY <2>1, <2>2
<1>7. ASSUME event.name = "createworkspacev2", OnNewWorkspaceFails(event.id)
      PROVE  ListInv' /\ phase' = phase
  <2>1. failures' \in 0..MaxFailures
    BY <1>3, <1>7, MaxFailuresAssumption DEF OnNewWorkspaceFails, MaxFailuresAssumption
  <2>2. dropped' \subseteq Ids
    BY <1>2, <1>3, <1>7, EventIds DEF OnNewWorkspaceFails
  <2>3. QED
    BY <1>1, <1>3, <1>7, <2>1, <2>2, SameListInv DEF OnNewWorkspaceFails
<1>8. ASSUME OnNewWorkspaceThrows
      PROVE  ListInv' /\ phase' = "terminated"
  <2>1. failures' \in 0..MaxFailures
    BY <1>3, <1>8, MaxFailuresAssumption DEF OnNewWorkspaceThrows, MaxFailuresAssumption
  <2>2. QED
    BY <1>1, <1>3, <1>8, <2>1, SameListInv DEF OnNewWorkspaceThrows, memberVars, Phases
<1>9. ASSUME event.name \in {"destroyworkspacev2", "moveworkspacev2"},
             OnRemoveWorkspace(event.name, event.id)
      PROVE  ListInv' /\ phase' = phase
  <2>1. /\ dropped' \subseteq Ids
        /\ UNCHANGED <<phase, activeVars, failures>>
    BY <1>2, <1>3, <1>9, EventIds DEF OnRemoveWorkspace
  <2>2. CASE event.id \in DOMAIN m_items
    BY <1>1, <1>3, <1>9, <2>1, <2>2, EraseItemInv DEF OnRemoveWorkspace
  <2>3. CASE event.id \notin DOMAIN m_items
    BY <1>1, <1>3, <1>9, <2>1, <2>3, SameListInv DEF OnRemoveWorkspace
  <2>4. QED
    BY <2>1, <2>2, <2>3
<1>10. ASSUME event.name = "activespecialv2", OnActiveSpecial(event.id)
       PROVE  ListInv' /\ phase' = phase
  <2>1. ListInv'
    BY <1>1, <1>2, <1>3, <1>10, EventIds, ActiveSpecialInv
  <2>2. QED
    BY <1>10, <2>1 DEF OnActiveSpecial
<1>11. ASSUME OnOtherEvent
       PROVE  ListInv' /\ phase' = phase
  BY <1>1, <1>3, <1>11, SameListInv DEF OnOtherEvent, memberVars
<1>12. ListInv' /\ phase' \in {phase, "assert_failed", "terminated"}
  BY <1>4, <1>5, <1>6, <1>7, <1>8, <1>9, <1>10, <1>11
<1>13. Untouched'
  BY <1>1, <1>12 DEF Untouched
<1>14. QED
  BY <1>2, <1>12, <1>13 DEF IInv, TypeOK, ListInv

\* A step in which nothing happens.
LEMMA StutterIInv == IInv /\ UNCHANGED vars => IInv'
<1> SUFFICES ASSUME IInv, UNCHANGED vars PROVE IInv'
  OBVIOUS
<1>1. HyprlandTypeOK' /\ ListenerTypeOK'
  BY DEF IInv, TypeOK, HyprlandTypeOK, ListenerTypeOK, vars, hyprlandVars, listenerVars
<1>2. QED
  BY <1>1, ListUnchanged DEF IInv, TypeOK, vars

\* The strengthening is inductive: no thread and no step of the compositor
\* breaks it.
THEOREM Inductive == Spec => []IInv
<1>1. Init => IInv
  BY InitIInv
<1>2. IInv /\ [Next]_vars => IInv'
  BY CompositorIInv, WorkerIInv, ListInitStepIInv, DispatchIInv, StutterIInv DEF Next, Main
<1>3. QED
  BY <1>1, <1>2, PTL DEF Spec

\* Every variable keeps its type; in particular the unsigned m_num_special
\* never falls below zero.
THEOREM TypeCorrect == Spec => []TypeOK
<1>1. IInv => TypeOK
  BY DEF IInv
<1>2. QED
  BY <1>1, Inductive, PTL

\* The counter is the number of special items and of those counted twice.
THEOREM CountCorrect == Spec => []CountIsExact
<1>1. IInv => CountIsExact
  BY DEF IInv
<1>2. QED
  BY <1>1, Inductive, PTL

\* The menu button, told of the edges only, is never stale.
THEOREM ButtonCorrect == Spec => []ButtonIsCurrent
<1>1. IInv => ButtonIsCurrent
  BY DEF IInv
<1>2. QED
  BY <1>1, Inductive, PTL

\* No item is highlighted that the next switch would not find.
THEOREM HighlightCorrect == Spec => []HighlightIsOwned
<1>1. IInv => HighlightIsOwned
  BY DEF IInv
<1>2. QED
  BY <1>1, Inductive, PTL

-----------------------------------------------------------------------------
(* The rows.                                                               *)

Ascending(s) == s \in Seq(Int) /\ \A i, j \in DOMAIN s : i < j => s[i] < s[j]

Elements(s) == {s[i] : i \in DOMAIN s}

Less == {ss \in Nat \X Nat : ss[1] < ss[2]}

\* A set of natural numbers has a least one.
LEMMA LeastNumber ==
  ASSUME NEW S \in SUBSET Nat, S # {}
  PROVE  \E n \in S : \A m \in S : n <= m
<1>1. OpToRel(<, Nat) = Less
  BY DEF OpToRel, Less
<1>2. IsWellFoundedOn(Less, Nat)
  BY <1>1, NatLessThanWellFounded
<1>3. PICK n \in S : \A m \in S : <<m, n>> \notin Less
  BY <1>2, WFMin, Zenon
<1>4. \A m \in S : ~(m < n)
  BY <1>3 DEF Less
<1>5. QED
  BY <1>4

\* As many ids are below w as there are rows in front of its place.
LEMMA PlaceOf ==
  ASSUME NEW s, Ascending(s), NEW w \in Int
  PROVE  \E p \in 0..Len(s) :
           /\ \A j \in 1..Len(s) : s[j] < w <=> j <= p
           /\ Cardinality({v \in Elements(s) : v < w}) = p
<1>11. s \in Seq(Int) /\ \A i, j \in DOMAIN s : i < j => s[i] < s[j]
  BY DEF Ascending
<1>0. Len(s) \in Nat
  BY <1>11, LenProperties
<1>16. DOMAIN s = 1..Len(s)
  BY <1>11, LenProperties
<1>12. \A j \in 1..Len(s) : s[j] \in Int
  BY <1>11, ElementOfSeq
<1>13. \A i, j \in 1..Len(s) : i < j => s[i] < s[j]
  BY <1>11, <1>16
<1> DEFINE high(n) == ~(s[n + 1] < w)
           stop == {n \in 0..Len(s) : n = Len(s) \/ high(n)}
<1> HIDE DEF high
<1>10. PICK p \in stop : \A n \in stop : p <= n
  <2>1. Len(s) \in stop /\ stop \in SUBSET Nat
    BY <1>0
  <2> HIDE DEF stop
  <2>2. QED
    BY <2>1, LeastNumber
<1>1. p \in 0..Len(s)
  OBVIOUS
<1>14. p = Len(s) \/ ~(s[p + 1] < w)
  BY Zenon DEF high
<1>15. ASSUME NEW n \in 0..Len(s), ~(s[n + 1] < w) PROVE p <= n
  <2>1. n \in stop
    BY <1>15, Zenon DEF high
  <2>2. QED
    BY <1>10, <2>1
<1> HIDE DEF stop
<1>2. ASSUME NEW j \in 1..Len(s) PROVE s[j] < w <=> j <= p
  <2>1. CASE j <= p
    <3>1. j - 1 \in 0..Len(s) /\ ~(p <= j - 1) /\ (j - 1) + 1 = j
      BY <1>0, <1>1, <2>1
    <3>2. s[(j - 1) + 1] < w
      BY <1>15, <3>1
    <3>3. QED
      BY <2>1, <3>2
  <2>2. CASE p < j
    <3>0. p # Len(s) /\ p + 1 \in 1..Len(s)
      BY <1>0, <1>1, <2>2
    <3>1. p + 1 \in 1..Len(s) /\ ~(s[p + 1] < w)
      BY <1>14, <3>0
    <3>2. p + 1 = j \/ p + 1 < j
      BY <1>0, <1>1, <2>2
    <3>3. p + 1 = j \/ s[p + 1] < s[j]
      BY <1>13, <3>1, <3>2
    <3>4. s[j] \in Int /\ s[p + 1] \in Int
      BY <1>12, <3>1
    <3>5. ~(s[j] < w)
      BY <3>1, <3>3, <3>4
    <3>6. ~(j <= p)
      BY <1>0, <1>1, <2>2
    <3>7. QED
      BY <3>5, <3>6
  <2>3. j <= p \/ p < j
    BY <1>0, <1>1
  <2>4. QED
    BY <2>1, <2>2, <2>3
<1>3. p \in Nat /\ p <= Len(s)
  BY <1>0, <1>1
<1> DEFINE below == {v \in Elements(s) : v < w}
           front == [j \in 1..p |-> s[j]]
<1>4. below = {s[j] : j \in 1..p}
  BY <1>0, <1>2, <1>3, <1>16 DEF Elements
<1>5. front \in Bijection(1..p, below)
  <2>1. front \in [1..p -> below] /\ \A v \in below : \E j \in 1..p : front[j] = v
    BY <1>4
  <2>2. \A i, j \in 1..p : front[i] = front[j] => i = j
    <3> SUFFICES ASSUME NEW i \in 1..p, NEW j \in 1..p, s[i] = s[j] PROVE i = j
      OBVIOUS
    <3>1. i \in 1..Len(s) /\ j \in 1..Len(s)
      BY <1>0, <1>3
    <3>2. ~(s[i] < s[j]) /\ ~(s[j] < s[i])
      BY <1>12, <3>1
    <3>3. ~(i < j) /\ ~(j < i)
      BY <1>13, <3>1, <3>2
    <3>4. QED
      BY <1>3, <3>3
  <2>3. QED
    BY <2>1, <2>2 DEF Bijection, Injection, Surjection, IsInjective
<1>6. Cardinality(below) = p
  <2>1. ExistsBijection(1..p, below)
    BY <1>5 DEF ExistsBijection
  <2> HIDE DEF below
  <2>2. QED
    BY <1>3, <2>1, FS_CountingElements
<1>7. QED
  BY <1>1, <1>2, <1>3, <1>6

\* A row that is inserted at the place of its id.
LEMMA InsertionAscends ==
  ASSUME NEW s, Ascending(s), NEW w \in Int \ Elements(s)
  PROVE  LET t == InsertAt(s, Cardinality({v \in Elements(s) : v < w}) + 1, w)
         IN  Ascending(t) /\ Elements(t) = Elements(s) \cup {w}
<1> DEFINE p == Cardinality({v \in Elements(s) : v < w})
           t == InsertAt(s, p + 1, w)
<1>11. s \in Seq(Int) /\ \A i, j \in DOMAIN s : i < j => s[i] < s[j]
  BY DEF Ascending
<1>0. Len(s) \in Nat
  BY <1>11, LenProperties
<1>16. DOMAIN s = 1..Len(s)
  BY <1>11, LenProperties
<1>12. \A j \in 1..Len(s) : s[j] \in Int
  BY <1>11, ElementOfSeq
<1>13. \A i, j \in 1..Len(s) : i < j => s[i] < s[j]
  BY <1>11, <1>16
<1>10. p \in 0..Len(s) /\ \A j \in 1..Len(s) : s[j] < w <=> j <= p
  BY PlaceOf
<1>1. p \in 0..Len(s)
  BY <1>10
<1> HIDE DEF p
<1>2. /\ t \in Seq(Int) /\ Len(t) = Len(s) + 1
      /\ \A j \in 1..(Len(s) + 1) :
           t[j] = IF j <= p THEN s[j] ELSE IF j = p + 1 THEN w ELSE s[j - 1]
  <2> DEFINE front == SubSeq(s, 1, (p + 1) - 1)
             back  == SubSeq(s, p + 1, Len(s))
             half  == front \o <<w>>
  <2>1. front \in Seq(Int) /\ Len(front) = p /\ \A j \in 1..p : front[j] = s[j]
    <3>1. 1 \in Int /\ (p + 1) - 1 = p /\ p \in Int /\ \A j \in 1..p : s[j] \in Int
      BY <1>0, <1>1, <1>12
    <3>2. /\ SubSeq(s, 1, p) \in Seq(Int)
          /\ Len(SubSeq(s, 1, p)) = IF 1 <= p THEN p - 1 + 1 ELSE 0
          /\ \A j \in 1..(p - 1 + 1) : SubSeq(s, 1, p)[j] = s[1 + j - 1]
      BY <3>1, SubSeqProperties
    <3>3. QED
      BY <1>1, <3>1, <3>2
  <2>2. /\ back \in Seq(Int) /\ Len(back) = Len(s) - p
        /\ \A j \in 1..(Len(s) - p) : back[j] = s[p + j]
    <3>1. p + 1 \in Int /\ Len(s) \in Int /\ \A j \in (p + 1)..Len(s) : s[j] \in Int
      BY <1>0, <1>1, <1>12
    <3>2. /\ back \in Seq(Int)
          /\ Len(back) = IF p + 1 <= Len(s) THEN Len(s) - (p + 1) + 1 ELSE 0
          /\ \A j \in 1..(Len(s) - (p + 1) + 1) : back[j] = s[(p + 1) + j - 1]
      BY <3>1, SubSeqProperties
    <3>3. Len(s) - (p + 1) + 1 = Len(s) - p
      BY <1>0, <1>1
    <3>4. Len(back) = Len(s) - p
      BY <1>0, <1>1, <3>2
    <3>5. ASSUME NEW j \in 1..(Len(s) - p) PROVE back[j] = s[p + j]
      <4>1. (p + 1) + j - 1 = p + j
        BY <1>0, <1>1
      <4>2. QED
        BY <3>2, <3>3, <4>1
    <3>6. QED
      BY <3>2, <3>4, <3>5
  <2> HIDE DEF front, back
  <2>3. /\ <<w>> \in Seq(Int) /\ Len(<<w>>) = 1 /\ <<w>>[1] = w
    OBVIOUS
  <2>4. /\ half \in Seq(Int) /\ Len(half) = p + 1
        /\ \A j \in 1..(p + 1) : half[j] = IF j <= p THEN front[j] ELSE <<w>>[j - p]
    BY <1>1, <2>1, <2>3, ConcatProperties
  <2>5. half[p + 1] = w /\ \A j \in 1..p : half[j] = s[j]
    BY <1>0, <1>1, <2>1, <2>3, <2>4
  <2> HIDE DEF half
  <2>6. /\ half \o back \in Seq(Int) /\ Len(half \o back) = (p + 1) + (Len(s) - p)
        /\ \A j \in 1..((p + 1) + (Len(s) - p)) :
             (half \o back)[j] = IF j <= p + 1 THEN half[j] ELSE back[j - (p + 1)]
    <3>1. half \in Seq(Int) /\ back \in Seq(Int)
      BY <2>2, <2>4
    <3>2. /\ half \o back \in Seq(Int) /\ Len(half \o back) = Len(half) + Len(back)
          /\ \A j \in 1..(Len(half) + Len(back)) :
               (half \o back)[j] = IF j <= Len(half) THEN half[j] ELSE back[j - Len(half)]
      BY <3>1, ConcatProperties
    <3>3. QED
      BY <2>2, <2>4, <3>2
  <2>7. t = half \o back
    BY DEF InsertAt, half, front, back
  <2>8. (p + 1) + (Len(s) - p) = Len(s) + 1
    BY <1>0, <1>1
  <2> HIDE DEF t
  <2>9. ASSUME NEW j \in 1..(Len(s) + 1)
        PROVE  t[j] = IF j <= p THEN s[j] ELSE IF j = p + 1 THEN w ELSE s[j - 1]
    <3>0. j \in 1..((p + 1) + (Len(s) - p))
      BY <2>8
    <3>1. CASE j <= p + 1
      <4>1. t[j] = half[j]
        BY <2>6, <2>7, <3>0, <3>1
      <4>2. j <= p => j \in 1..p
        BY <1>1
      <4>3. j <= p \/ j = p + 1
        BY <1>1, <3>1
      <4>4. ~(p + 1 <= p)
        BY <1>1
      <4>5. QED
        BY <2>5, <4>1, <4>2, <4>3, <4>4
    <3>2. CASE p + 1 < j
      <4>1. j - (p + 1) \in 1..(Len(s) - p) /\ p + (j - (p + 1)) = j - 1
        BY <1>0, <1>1, <3>2
      <4>2. back[j - (p + 1)] = s[j - 1]
        BY <2>2, <4>1
      <4>3. t[j] = back[j - (p + 1)]
        <5>1. ~(j <= p + 1)
          BY <1>1, <3>2
        <5>2. QED
          BY <2>6, <2>7, <3>0, <5>1
      <4>4. ~(j <= p) /\ j # p + 1
        BY <1>1, <3>2
      <4>5. QED
        BY <4>2, <4>3, <4>4
    <3>3. QED
      BY <1>0, <1>1, <3>1, <3>2
  <2>10. QED
    BY <2>6, <2>7, <2>8, <2>9
<1> HIDE DEF t
<1>3. DOMAIN t = 1..(Len(s) + 1)
  BY <1>2, LenProperties
<1>4. \A j \in 1..Len(s) : s[j] # w
  BY <1>16 DEF Elements
<1>5. ASSUME NEW i \in 1..(Len(s) + 1), NEW j \in 1..(Len(s) + 1), i < j
      PROVE  t[i] < t[j]
  <2>1. CASE j <= p
    <3>1. t[i] = s[i] /\ t[j] = s[j] /\ i \in 1..Len(s) /\ j \in 1..Len(s)
      BY <1>0, <1>1, <1>2, <1>5, <2>1
    <3>2. QED
      BY <1>5, <1>13, <3>1
  <2>2. CASE j = p + 1
    <3>1. t[i] = s[i] /\ t[j] = w /\ i \in 1..Len(s) /\ i <= p
      BY <1>0, <1>1, <1>2, <1>5, <2>2
    <3>2. QED
      BY <1>10, <3>1
  <2>3. CASE p + 1 < j /\ i <= p
    <3>1. t[i] = s[i] /\ t[j] = s[j - 1] /\ i \in 1..Len(s) /\ j - 1 \in 1..Len(s) /\ i < j - 1
      BY <1>0, <1>1, <1>2, <2>3
    <3>2. QED
      BY <1>13, <3>1
  <2>4. CASE p + 1 < j /\ i = p + 1
    <3>1. t[i] = w /\ t[j] = s[j - 1] /\ j - 1 \in 1..Len(s) /\ ~(j - 1 <= p)
      BY <1>0, <1>1, <1>2, <2>4
    <3>2. ~(s[j - 1] < w) /\ s[j - 1] # w /\ s[j - 1] \in Int
      BY <1>4, <1>10, <1>12, <3>1
    <3>3. QED
      BY <3>1, <3>2
  <2>5. CASE p + 1 < j /\ p + 1 < i
    <3>1. t[i] = s[i - 1] /\ t[j] = s[j - 1] /\ i - 1 \in 1..Len(s) /\ j - 1 \in 1..Len(s) /\ i - 1 < j - 1
      BY <1>0, <1>1, <1>2, <1>5, <2>5
    <3>2. QED
      BY <1>13, <3>1
  <2>6. QED
    BY <1>0, <1>1, <2>1, <2>2, <2>3, <2>4, <2>5
<1>6. Elements(t) \subseteq Elements(s) \cup {w}
  <2> SUFFICES ASSUME NEW j \in 1..(Len(s) + 1) PROVE t[j] \in Elements(s) \cup {w}
    BY <1>3 DEF Elements
  <2>1. j <= p => j \in 1..Len(s) /\ t[j] = s[j]
    BY <1>0, <1>1, <1>2
  <2>2. j = p + 1 => t[j] = w
    BY <1>0, <1>1, <1>2
  <2>3. p + 1 < j => j - 1 \in 1..Len(s) /\ t[j] = s[j - 1]
    BY <1>0, <1>1, <1>2
  <2>4. j <= p \/ j = p + 1 \/ p + 1 < j
    BY <1>0, <1>1
  <2>5. QED
    BY <1>16, <2>1, <2>2, <2>3, <2>4 DEF Elements
<1>7. Elements(s) \cup {w} \subseteq Elements(t)
  <2>1. p + 1 \in 1..(Len(s) + 1) /\ t[p + 1] = w
    BY <1>0, <1>1, <1>2
  <2>2. ASSUME NEW j \in 1..Len(s) PROVE s[j] \in Elements(t)
    <3>1. j <= p => j \in 1..(Len(s) + 1) /\ t[j] = s[j]
      BY <1>0, <1>1, <1>2
    <3>2. p < j => j + 1 \in 1..(Len(s) + 1) /\ t[j + 1] = s[(j + 1) - 1] /\ (j + 1) - 1 = j
      BY <1>0, <1>1, <1>2
    <3>3. j <= p \/ p < j
      BY <1>0, <1>1
    <3>4. QED
      BY <1>3, <3>1, <3>2, <3>3 DEF Elements
  <2>3. QED
    BY <1>3, <1>16, <2>1, <2>2 DEF Elements
<1>8. QED
  BY <1>2, <1>3, <1>5, <1>6, <1>7 DEF Ascending, t, p

\* A row that is removed from the place of its id.
LEMMA RemovalAscends ==
  ASSUME NEW s, Ascending(s), NEW w \in Elements(s)
  PROVE  LET t == RemoveAt(s, Cardinality({v \in Elements(s) : v < w}) + 1)
         IN  Ascending(t) /\ Elements(t) = Elements(s) \ {w}
<1> DEFINE p == Cardinality({v \in Elements(s) : v < w})
           t == RemoveAt(s, p + 1)
<1>1. s \in Seq(Int) /\ \A i, j \in DOMAIN s : i < j => s[i] < s[j]
  BY DEF Ascending
<1>2. Len(s) \in Nat
  BY <1>1, LenProperties
<1>3. DOMAIN s = 1..Len(s)
  BY <1>1, LenProperties
<1>4. \A j \in 1..Len(s) : s[j] \in Int
  BY <1>1, ElementOfSeq
<1>5. \A i, j \in 1..Len(s) : i < j => s[i] < s[j]
  BY <1>1, <1>3
<1>6. PICK m \in 1..Len(s) : s[m] = w
  BY <1>3 DEF Elements
<1>7. w \in Int
  BY <1>4, <1>6
<1>8. p \in 0..Len(s) /\ \A j \in 1..Len(s) : s[j] < w <=> j <= p
  BY <1>7, PlaceOf
<1> HIDE DEF p
<1>9. p \in 0..Len(s)
  BY <1>8
<1>10. m = p + 1
  <2>1. ~(m <= p)
    BY <1>6, <1>7, <1>8
  <2>2. \A j \in 1..Len(s) : j < m => j <= p
    BY <1>5, <1>6, <1>8
  <2>3. m - 1 \in 1..Len(s) => m - 1 <= p
    BY <1>2, <2>2
  <2>4. QED
    BY <1>2, <1>9, <2>1, <2>3
<1>11. p + 1 \in 1..Len(s) /\ s[p + 1] = w
  BY <1>6, <1>10
<1>12. /\ t \in Seq(Int) /\ Len(t) = Len(s) - 1
       /\ \A j \in 1..(Len(s) - 1) : t[j] = IF j <= p THEN s[j] ELSE s[j + 1]
  <2> DEFINE front == SubSeq(s, 1, (p + 1) - 1)
             back  == SubSeq(s, (p + 1) + 1, Len(s))
  <2>1. front \in Seq(Int) /\ Len(front) = p /\ \A j \in 1..p : front[j] = s[j]
    <3>1. 1 \in Int /\ (p + 1) - 1 = p /\ p \in Int /\ \A j \in 1..p : s[j] \in Int
      BY <1>2, <1>4, <1>9
    <3>2. /\ SubSeq(s, 1, p) \in Seq(Int)
          /\ Len(SubSeq(s, 1, p)) = IF 1 <= p THEN p - 1 + 1 ELSE 0
          /\ \A j \in 1..(p - 1 + 1) : SubSeq(s, 1, p)[j] = s[1 + j - 1]
      BY <3>1, SubSeqProperties
    <3>3. QED
      BY <1>9, <3>1, <3>2
  <2>2. /\ back \in Seq(Int) /\ Len(back) = Len(s) - p - 1
        /\ \A j \in 1..(Len(s) - p - 1) : back[j] = s[(p + 1) + j]
    <3>1. (p + 1) + 1 \in Int /\ Len(s) \in Int /\ \A j \in ((p + 1) + 1)..Len(s) : s[j] \in Int
      BY <1>2, <1>4, <1>9
    <3>2. /\ back \in Seq(Int)
          /\ Len(back) = IF (p + 1) + 1 <= Len(s) THEN Len(s) - ((p + 1) + 1) + 1 ELSE 0
          /\ \A j \in 1..(Len(s) - ((p + 1) + 1) + 1) : back[j] = s[((p + 1) + 1) + j - 1]
      BY <3>1, SubSeqProperties
    <3>3. Len(s) - ((p + 1) + 1) + 1 = Len(s) - p - 1
      BY <1>2, <1>9
    <3>4. Len(back) = Len(s) - p - 1
      BY <1>2, <1>9, <1>11, <3>2
    <3>5. ASSUME NEW j \in 1..(Len(s) - p - 1) PROVE back[j] = s[(p + 1) + j]
      <4>1. ((p + 1) + 1) + j - 1 = (p + 1) + j
        BY <1>2, <1>9
      <4>2. QED
        BY <3>2, <3>3, <4>1
    <3>6. QED
      BY <3>2, <3>4, <3>5
  <2> HIDE DEF front, back
  <2>3. /\ front \o back \in Seq(Int) /\ Len(front \o back) = Len(front) + Len(back)
        /\ \A j \in 1..(Len(front) + Len(back)) :
             (front \o back)[j] = IF j <= Len(front) THEN front[j] ELSE back[j - Len(front)]
    <3>1. front \in Seq(Int) /\ back \in Seq(Int)
      BY <2>1, <2>2
    <3>2. QED
      BY <3>1, ConcatProperties
  <2>4. t = front \o back
    BY DEF RemoveAt, front, back
  <2>5. Len(front) + Len(back) = Len(s) - 1
    <3>1. p + (Len(s) - p - 1) = Len(s) - 1
      BY <1>2, <1>9
    <3>2. QED
      BY <2>1, <2>2, <3>1
  <2> HIDE DEF t
  <2>6. ASSUME NEW j \in 1..(Len(s) - 1) PROVE t[j] = IF j <= p THEN s[j] ELSE s[j + 1]
    <3>1. t[j] = IF j <= p THEN front[j] ELSE back[j - p]
      BY <2>1, <2>3, <2>4, <2>5
    <3>2. CASE j <= p
      <4>1. j \in 1..p
        BY <1>2, <3>2
      <4>2. QED
        BY <2>1, <3>1, <3>2, <4>1
    <3>3. CASE ~(j <= p)
      <4>1. j - p \in 1..(Len(s) - p - 1) /\ (p + 1) + (j - p) = j + 1
        BY <1>2, <1>9, <3>3
      <4>2. back[j - p] = s[j + 1]
        BY <2>2, <4>1
      <4>3. QED
        BY <3>1, <3>3, <4>2
    <3>4. QED
      BY <3>2, <3>3
  <2>7. QED
    BY <2>3, <2>4, <2>5, <2>6
<1> HIDE DEF t
<1>13. DOMAIN t = 1..(Len(s) - 1)
  BY <1>12, LenProperties
<1>14. ASSUME NEW i \in 1..(Len(s) - 1), NEW j \in 1..(Len(s) - 1), i < j
       PROVE  t[i] < t[j]
  <2> DEFINE old(k) == IF k <= p THEN k ELSE k + 1
  <2>1. old(i) \in 1..Len(s) /\ old(j) \in 1..Len(s) /\ old(i) < old(j)
    BY <1>2, <1>9, <1>14
  <2>2. t[i] = s[old(i)] /\ t[j] = s[old(j)]
    BY <1>12
  <2> HIDE DEF old
  <2>3. QED
    BY <1>5, <2>1, <2>2
<1>15. Elements(t) \subseteq Elements(s) \ {w}
  <2> SUFFICES ASSUME NEW j \in 1..(Len(s) - 1) PROVE t[j] \in Elements(s) \ {w}
    BY <1>13 DEF Elements
  <2>1. PICK k \in 1..Len(s) : k # p + 1 /\ t[j] = s[k]
    <3>1. j \in 1..Len(s) /\ j + 1 \in 1..Len(s)
      BY <1>2
    <3>2. j <= p => j # p + 1
      BY <1>2, <1>9
    <3>3. ~(j <= p) => j + 1 # p + 1
      BY <1>2, <1>9
    <3>4. QED
      BY <1>12, <3>1, <3>2, <3>3
  <2>2. k < p + 1 \/ p + 1 < k
    BY <1>2, <1>9, <2>1
  <2>3. s[k] < s[p + 1] \/ s[p + 1] < s[k]
    BY <1>5, <1>11, <2>2
  <2>4. s[k] # w
    BY <1>4, <1>7, <1>11, <2>3
  <2>5. QED
    BY <1>3, <2>1, <2>4 DEF Elements
<1>16. Elements(s) \ {w} \subseteq Elements(t)
  <2> SUFFICES ASSUME NEW j \in 1..Len(s), s[j] # w PROVE s[j] \in Elements(t)
    BY <1>3 DEF Elements
  <2>1. j # p + 1
    BY <1>11
  <2>2. j <= p => j \in 1..(Len(s) - 1) /\ t[j] = s[j]
    <3>1. p + 1 \in 1..Len(s)
      BY <1>11
    <3>2. j <= p => j \in 1..(Len(s) - 1)
      BY <1>2, <1>9, <3>1
    <3>3. QED
      BY <1>12, <3>2
  <2>3. ~(j <= p) => j - 1 \in 1..(Len(s) - 1) /\ ~(j - 1 <= p) /\ (j - 1) + 1 = j
    BY <1>2, <1>9, <2>1
  <2>4. ~(j <= p) => t[j - 1] = s[j]
    BY <1>12, <2>3
  <2>5. QED
    BY <1>13, <2>2, <2>3, <2>4 DEF Elements
<1>17. QED
  BY <1>12, <1>13, <1>14, <1>15, <1>16 DEF Ascending, t, p

\* The places of the ids in the map are 0 and up, so the ids in the order of
\* their places are all of them, ascending.
LEMMA InOrderAscends ==
  ASSUME NEW items, IsFiniteSet(DOMAIN items), DOMAIN items \subseteq Int
  PROVE  Ascending(InOrder(items)) /\ Elements(InOrder(items)) = DOMAIN items
<1> DEFINE S == DOMAIN items
           n == Cardinality(S)
           below(w) == {v \in S : v < w}
           place == [w \in S |-> Cardinality(below(w))]
<1>1. n \in Nat /\ IsFiniteSet(S)
  BY FS_CardinalityType
<1>2. ASSUME NEW w \in S PROVE IsFiniteSet(below(w)) /\ place[w] \in Nat /\ place[w] < n
  <2>1. below(w) \subseteq S /\ w \notin below(w)
    OBVIOUS
  <2>2. /\ IsFiniteSet(below(w))
        /\ Cardinality(below(w)) <= n
        /\ Cardinality(below(w)) = n => below(w) = S
    BY <1>1, <2>1, FS_Subset
  <2>3. Cardinality(below(w)) # n
    BY <2>1, <2>2
  <2>4. Cardinality(below(w)) \in Nat
    BY <2>2, FS_CardinalityType
  <2>5. place[w] = Cardinality(below(w))
    OBVIOUS
  <2> HIDE DEF place, below
  <2>6. QED
    BY <1>1, <2>2, <2>3, <2>4, <2>5
<1>3. ASSUME NEW v \in S, NEW w \in S, v < w PROVE place[v] < place[w]
  <2>1. v \in Int /\ w \in Int /\ \A u \in S : u \in Int
    OBVIOUS
  <2>2. below(v) \subseteq below(w) /\ v \in below(w) /\ v \notin below(v)
    BY <1>3, <2>1
  <2>3. /\ Cardinality(below(v)) <= Cardinality(below(w))
        /\ Cardinality(below(v)) = Cardinality(below(w)) => below(v) = below(w)
    BY <1>2, <2>2, FS_Subset
  <2>4. Cardinality(below(v)) # Cardinality(below(w))
    BY <2>2, <2>3
  <2>5. place[v] = Cardinality(below(v)) /\ place[w] = Cardinality(below(w))
    OBVIOUS
  <2>6. place[v] \in Nat /\ place[w] \in Nat
    BY <1>2
  <2> HIDE DEF place, below
  <2>7. QED
    BY <2>3, <2>4, <2>5, <2>6
<1>4. \A w \in S : place[w] = Position(items, w)
  BY DEF Position
<1>5. place \in [S -> 0..(n - 1)]
  <2>1. \A w \in S : place[w] \in 0..(n - 1)
    BY <1>1, <1>2
  <2>2. QED
    BY <2>1
<1> HIDE DEF place, below
<1>6. \A v, w \in S : place[v] = place[w] => v = w
  <2> SUFFICES ASSUME NEW v \in S, NEW w \in S, place[v] = place[w] PROVE v = w
    OBVIOUS
  <2>1. place[v] \in Nat /\ place[w] \in Nat /\ v \in Int /\ w \in Int
    BY <1>2
  <2>2. ~(v < w) /\ ~(w < v)
    BY <1>3, <2>1
  <2>3. QED
    BY <2>1, <2>2
<1>7. ASSUME NEW k \in 0..(n - 1) PROVE \E w \in S : place[w] = k
  <2>1. place \in Injection(S, 0..(n - 1))
    BY <1>5, <1>6 DEF Injection, IsInjective
  <2>2. IsFiniteSet(0..(n - 1)) /\ Cardinality(0..(n - 1)) = n
    <3>1. 0 \in Int /\ n - 1 \in Int
      BY <1>1
    <3>2. /\ IsFiniteSet(0..(n - 1))
          /\ Cardinality(0..(n - 1)) = IF 0 > n - 1 THEN 0 ELSE n - 1 - 0 + 1
      BY <3>1, FS_Interval
    <3>3. QED
      BY <1>1, <3>2
  <2>3. place \in Surjection(S, 0..(n - 1))
    BY <2>1, <2>2, FS_Injection
  <2>4. QED
    BY <2>3 DEF Surjection
<1> DEFINE s == InOrder(items)
<1>8. ASSUME NEW i \in 1..n PROVE s[i] \in S /\ place[s[i]] = i - 1
  <2>1. i - 1 \in 0..(n - 1)
    BY <1>1
  <2>2. PICK w \in S : Position(items, w) = i - 1
    BY <1>4, <1>7, <2>1
  <2>3. s[i] = CHOOSE u \in S : Position(items, u) = i - 1
    BY DEF InOrder
  <2>4. s[i] \in S /\ Position(items, s[i]) = i - 1
    BY <2>2, <2>3, Zenon
  <2>5. QED
    BY <1>4, <2>4
<1>9. DOMAIN s = 1..n /\ s = [i \in 1..n |-> s[i]]
  BY DEF InOrder
<1> HIDE DEF s
<1>10. s \in [1..n -> Int]
  <2>1. \A i \in 1..n : s[i] \in Int
    BY <1>8
  <2>2. QED
    BY <1>9, <2>1, Zenon
<1>11. s \in Seq(Int)
  BY <1>1, <1>10, SeqDef
<1>12. ASSUME NEW i \in 1..n, NEW j \in 1..n, i < j PROVE s[i] < s[j]
  <2>1. s[i] \in S /\ s[j] \in S /\ place[s[i]] = i - 1 /\ place[s[j]] = j - 1
    BY <1>8
  <2>2. s[i] \in Int /\ s[j] \in Int
    BY <2>1
  <2>3. place[s[i]] < place[s[j]]
    BY <1>1, <1>12, <2>1
  <2>4. place[s[i]] \in Nat /\ place[s[j]] \in Nat
    BY <1>2, <2>1
  <2>5. s[i] # s[j]
    BY <2>3, <2>4
  <2>6. ~(s[j] < s[i])
    <3>1. s[j] < s[i] => place[s[j]] < place[s[i]]
      BY <1>3, <2>1
    <3>2. QED
      BY <2>3, <2>4, <3>1
  <2>7. QED
    BY <2>2, <2>5, <2>6
<1>13. Elements(s) = S
  <2>1. Elements(s) \subseteq S
    BY <1>8, <1>9 DEF Elements
  <2>2. ASSUME NEW w \in S PROVE w \in Elements(s)
    <3>1. place[w] \in Nat /\ place[w] + 1 \in 1..n /\ (place[w] + 1) - 1 = place[w]
      BY <1>1, <1>2
    <3>2. s[place[w] + 1] = w
      BY <1>6, <1>8, <3>1
    <3>3. QED
      BY <1>9, <3>1, <3>2 DEF Elements
  <2>3. QED
    BY <2>1, <2>2
<1>14. QED
  BY <1>9, <1>11, <1>12, <1>13 DEF Ascending, s

\* The rows, as long as no item was announced twice.
RowsInv ==
  extraRows = 0 /\ phase # "assert_failed" => Ascending(rows) /\ Elements(rows) = DOMAIN m_items

\* What leaves the items and their rows alone.
LEMMA SameRows ==
  ASSUME RowsInv, phase # "assert_failed", rows' = rows, DOMAIN m_items' = DOMAIN m_items,
         extraRows' = extraRows
  PROVE  RowsInv'
BY DEF RowsInv, Ascending, Elements

LEMMA AddItemRows ==
  ASSUME TypeOK, RowsInv, phase = "ready", NEW w \in Ids, AddItem(w)
  PROVE  RowsInv'
<1> SUFFICES ASSUME extraRows' = 0, phase' # "assert_failed"
             PROVE  Ascending(rows') /\ Elements(rows') = DOMAIN m_items'
  BY DEF RowsInv, Ascending, Elements
<1>1. extraRows \in Nat /\ w \in Int /\ DOMAIN m_items \subseteq Int
  BY IdsAssumption DEF TypeOK, ListTypeOK, IdsAssumption
<1>2. w \notin DOMAIN m_items
  <2> SUFFICES ASSUME w \in DOMAIN m_items PROVE FALSE
    OBVIOUS
  <2>1. CASE G_ASSERT
    BY <2>1, Zenon DEF AddItem
  <2>2. CASE ~G_ASSERT
    <3>1. extraRows' = extraRows + 1
      BY <2>2, Zenon DEF AddItem
    <3>2. QED
      BY <1>1, <3>1
  <2>3. QED
    BY <2>1, <2>2
<1>3. extraRows = 0
  BY <1>2, Zenon DEF AddItem
<1>4. Ascending(rows) /\ Elements(rows) = DOMAIN m_items
  BY <1>3 DEF RowsInv
<1>5. rows' = InsertAt(rows, Position(m_items', w) + 1, w) /\ DOMAIN m_items' = DOMAIN m_items \cup {w}
  BY Zenon DEF AddItem
<1>6. {v \in DOMAIN m_items' : v < w} = {v \in Elements(rows) : v < w}
  BY <1>1, <1>4, <1>5
<1>7. Position(m_items', w) = Cardinality({v \in Elements(rows) : v < w})
  BY <1>6, Zenon DEF Position
<1>8. w \in Int \ Elements(rows)
  BY <1>1, <1>2, <1>4
<1>9. Ascending(rows') /\ Elements(rows') = Elements(rows) \cup {w}
  BY <1>4, <1>5, <1>7, <1>8, InsertionAscends
<1>10. QED
  BY <1>4, <1>5, <1>9

LEMMA EraseItemRows ==
  ASSUME TypeOK, RowsInv, phase = "ready", phase' = phase, NEW w \in DOMAIN m_items, EraseItem(w)
  PROVE  RowsInv'
<1> SUFFICES ASSUME extraRows = 0
             PROVE  Ascending(rows') /\ Elements(rows') = DOMAIN m_items'
  BY DEF RowsInv, Ascending, Elements, EraseItem
<1>1. Ascending(rows) /\ Elements(rows) = DOMAIN m_items
  BY DEF RowsInv
<1>2. rows' = RemoveAt(rows, Position(m_items, w) + 1) /\ DOMAIN m_items' = DOMAIN m_items \ {w}
  BY Zenon DEF EraseItem
<1>3. Position(m_items, w) = Cardinality({v \in Elements(rows) : v < w})
  BY <1>1 DEF Position
<1>4. Ascending(rows') /\ Elements(rows') = Elements(rows) \ {w}
  BY <1>1, <1>2, <1>3, RemovalAscends
<1>5. QED
  BY <1>1, <1>2, <1>4

\* The handlers.
LEMMA DispatchRows == IInv /\ RowsInv /\ Dispatch => RowsInv'
<1> SUFFICES ASSUME IInv, RowsInv, Dispatch PROVE RowsInv'
  OBVIOUS
<1> DEFINE event == Head(queue)
<1>1. phase = "ready" /\ queue # <<>> /\ TypeOK
  BY DEF Dispatch, IInv
<1>2. event \in Events
  BY <1>1, HeadTailProperties DEF TypeOK, ListenerTypeOK
<1>3. \/ event.name = "workspacev2"        /\ OnWorkspaceChange(event.id)
      \/ event.name = "createworkspacev2"  /\ OnNewWorkspace(event.id)
      \/ event.name = "createworkspacev2"  /\ OnNewWorkspaceFails(event.id)
      \/ event.name = "createworkspacev2"  /\ OnNewWorkspaceThrows
      \/ event.name = "destroyworkspacev2" /\ OnRemoveWorkspace(event.name, event.id)
      \/ event.name = "moveworkspacev2"    /\ OnRemoveWorkspace(event.name, event.id)
      \/ event.name = "activespecialv2"    /\ OnActiveSpecial(event.id)
      \/ event.name = "openwindow"         /\ OnOtherEvent
  BY Zenon DEF Dispatch
<1> HIDE DEF event
<1>4. CASE OnNewWorkspace(event.id)
  <2>1. CASE event.id \in exists
    <3>1. AddItem(event.id) /\ event.id \in Ids
      BY <1>1, <1>4, <2>1 DEF OnNewWorkspace, TypeOK, HyprlandTypeOK
    <3>2. QED
      BY <1>1, <3>1, AddItemRows
  <2>2. CASE event.id \notin exists
    BY <1>1, <1>4, <2>2, SameRows DEF OnNewWorkspace, memberVars
  <2>3. QED
    BY <2>1, <2>2
<1>5. CASE OnRemoveWorkspace(event.name, event.id)
  <2>1. CASE event.id \in DOMAIN m_items
    <3>1. EraseItem(event.id) /\ phase' = phase
      BY <1>5, <2>1 DEF OnRemoveWorkspace
    <3>2. QED
      BY <1>1, <2>1, <3>1, EraseItemRows
  <2>2. CASE event.id \notin DOMAIN m_items
    BY <1>1, <1>5, <2>2, SameRows DEF OnRemoveWorkspace
  <2>3. QED
    BY <2>1, <2>2
<1>6. CASE OnWorkspaceChange(event.id)
  BY <1>1, <1>6, SameRows DEF OnWorkspaceChange, SetIsActive
<1>7. CASE OnActiveSpecial(event.id)
  BY <1>1, <1>7, SameRows DEF OnActiveSpecial, SetIsActive
<1>8. CASE OnNewWorkspaceFails(event.id) \/ OnNewWorkspaceThrows \/ OnOtherEvent
  BY <1>1, <1>8, SameRows DEF OnNewWorkspaceFails, OnNewWorkspaceThrows, OnOtherEvent, memberVars
<1>9. QED
  BY <1>3, <1>4, <1>5, <1>6, <1>7, <1>8

LEMMA InitStepRows == IInv /\ RowsInv /\ ListInitStep => RowsInv'
<1> SUFFICES ASSUME IInv, RowsInv, ListInitStep PROVE RowsInv'
  OBVIOUS
<1>1. CASE FetchActiveWorkspace
  <2>1. m_items' = [w \in snapshot |-> w = focused] /\ rows' = InOrder(m_items')
    BY <1>1 DEF FetchActiveWorkspace
  <2>2. DOMAIN m_items' = snapshot /\ snapshot \subseteq Ids
    BY <2>1 DEF IInv, TypeOK, ListTypeOK
  <2>3. IsFiniteSet(DOMAIN m_items') /\ DOMAIN m_items' \subseteq Int
    BY <2>2, IdsAssumption, FS_Subset DEF IdsAssumption
  <2>4. Ascending(rows') /\ Elements(rows') = DOMAIN m_items'
    BY <2>1, <2>3, InOrderAscends
  <2>5. QED
    BY <2>4 DEF RowsInv, Ascending, Elements
<1>2. CASE CreateListener \/ FetchWorkspaces \/ InitFails \/ InitThrows
  BY <1>2, SameRows DEF CreateListener, FetchWorkspaces, InitFails, InitThrows, memberVars
<1>3. QED
  BY <1>1, <1>2 DEF ListInitStep

\* The rows are the items in the order of their ids, until one is announced
\* twice: a list view that is told of every insertion and every removal, and
\* of nothing else, shows the list.
THEOREM RowsCorrect == Spec => []RowsAreItems
<1>1. Init => RowsInv
  <2> SUFFICES ASSUME Init PROVE RowsInv
    OBVIOUS
  <2>1. rows = <<>> /\ m_items = [w \in {} |-> FALSE]
    BY DEF Init, ListInit
  <2>2. <<>> \in Seq(Int) /\ DOMAIN <<>> = {} /\ DOMAIN m_items = {}
    BY <2>1
  <2>3. QED
    BY <2>1, <2>2 DEF RowsInv, Ascending, Elements
<1>2. IInv /\ RowsInv /\ [Next]_vars => RowsInv'
  <2> SUFFICES ASSUME IInv, RowsInv, [Next]_vars PROVE RowsInv'
    OBVIOUS
  <2>1. CASE Compositor \/ Worker
    BY <2>1, SameRows DEF Compositor, Worker, Stopped, listVars, memberVars
  <2>2. CASE UNCHANGED vars
    BY <2>2 DEF vars, listVars, memberVars, RowsInv, Ascending, Elements
  <2>3. QED
    BY <2>1, <2>2, InitStepRows, DispatchRows DEF Next, Main
<1>3. RowsInv => RowsAreItems
  BY DEF RowsInv, RowsAreItems, Ascending, Elements
<1>4. QED
  BY <1>1, <1>2, <1>3, Inductive, PTL DEF Spec

=============================================================================
