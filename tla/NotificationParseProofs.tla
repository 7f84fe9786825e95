---------------------- MODULE NotificationParseProofs ----------------------
(***************************************************************************)
(* For all texts, any number of actions and both builds: the views stay    *)
(* valid while the buffer grows, and from_variant, if it returns, has read *)
(* each child by the statement meant for it.                               *)
(*                                                                         *)
(* The invariant says how far the iterator is at each statement.  With     *)
(* g_assert it is always at the statement's own child; without, the        *)
(* statement for the icon finds the id, and no later statement is reached. *)
(***************************************************************************)
EXTENDS NotificationParse, SequenceTheorems, TLAPS

\* The children before the statement's own.
Place ==
  [app_name |-> 0, replaces_id |-> 1, app_icon |-> 2, summary |-> 3, body |-> 4, actions |-> 5,
   urgency |-> 6, category |-> 7, desktop_entry |-> 7, expire_timeout |-> 7, assign |-> 8,
   done |-> 8]

\* The statements in their order.
Rank ==
  [app_name |-> 1, replaces_id |-> 2, app_icon |-> 3, summary |-> 4, body |-> 5, actions |-> 6,
   urgency |-> 7, category |-> 8, desktop_entry |-> 9, expire_timeout |-> 10, assign |-> 11,
   done |-> 12]

Statements == DOMAIN Rank

Strings == StringChildren \cup {hint \in StringHints : variant[hint] # NoHint}

ReadSoFar ==
  /\ phase \in Statements
  /\ it = Place[phase]
  /\ DOMAIN views = {field \in Strings : Rank[field] < Rank[phase]}
  /\ Len(actions) <= Len(variant.actions)
  /\ Rank[phase] > 6 => Len(actions) = Len(variant.actions)
  /\ Rank[phase] > 2 => m_replaces_id = variant.replaces_id /\ m_id = variant.replaces_id
  /\ Rank[phase] > 7 => urgency = IF variant.urgency = NoHint THEN 0 ELSE variant.urgency
  /\ Rank[phase] > 10 => m_expire_timeout = variant.expire_timeout

StoppedEarly ==
  /\ phase \in {"app_name", "replaces_id", "app_icon", "undefined"}
  /\ it = IF phase = "app_name" THEN 0 ELSE 1
  /\ DOMAIN views = IF phase = "app_name" THEN {} ELSE {"app_name"}
  /\ actions = <<>>

Progress == IF G_ASSERT THEN ReadSoFar ELSE StoppedEarly

IInv == TypeOK /\ ViewsAreStable /\ Progress

-----------------------------------------------------------------------------
(* The buffer                                                              *)

\* A part of a sequence is known by its length and its elements.
LEMMA SubSeqIs ==
  ASSUME NEW S, NEW s \in Seq(S), NEW t \in Seq(S), NEW k \in Nat,
         k + Len(t) <= Len(s),
         \A i \in 1..Len(t) : s[k + i] = t[i]
  PROVE  SubSeq(s, k + 1, k + Len(t)) = t
<1> DEFINE part == SubSeq(s, k + 1, k + Len(t))
<1>0. Len(s) \in Nat /\ Len(t) \in Nat
  BY LenProperties
<1>1. \A i \in (k + 1)..(k + Len(t)) : s[i] \in S
  <2> SUFFICES ASSUME NEW i \in (k + 1)..(k + Len(t)) PROVE s[i] \in S
    OBVIOUS
  <2>1. i \in 1..Len(s)
    BY <1>0
  <2>2. QED
    BY <2>1, ElementOfSeq
<1>2. k + 1 \in Int /\ k + Len(t) \in Int
  BY <1>0
<1>3. /\ part \in Seq(S)
      /\ Len(part) = IF k + 1 <= k + Len(t) THEN (k + Len(t)) - (k + 1) + 1 ELSE 0
      /\ \A i \in 1..((k + Len(t)) - (k + 1) + 1) : part[i] = s[(k + 1) + i - 1]
  BY <1>1, <1>2, SubSeqProperties
<1> HIDE DEF part
<1>4. Len(part) = Len(t)
  BY <1>0, <1>3
<1>5. ASSUME NEW i \in 1..Len(t) PROVE part[i] = t[i]
  <2>1. i \in 1..((k + Len(t)) - (k + 1) + 1) /\ (k + 1) + i - 1 = k + i
    BY <1>0
  <2>2. QED
    BY <2>1, <1>3
<1>6. part = t
  BY <1>3, <1>4, <1>5, SeqEqual
<1>7. QED
  BY <1>6 DEF part

\* A view of a buffer that has grown shows what it showed.
LEMMA HoldsLater ==
  ASSUME m_buffer \in Seq(Nat), NEW t \in Seq(Nat), m_buffer' = m_buffer \o t,
         NEW view \in Views, NEW text, Holds(view, text)
  PROVE  Holds(view, text)'
<1> DEFINE from == view.start + 1
           to   == view.start + view.size
<1>0. /\ view.start \in Nat /\ view.size \in Nat /\ Len(m_buffer) \in Nat /\ Len(t) \in Nat
      /\ from \in Int /\ to \in Int /\ from \in Nat \ {0} /\ to + 1 <= Len(m_buffer)
      /\ to \in Nat
  BY LenProperties DEF Views, Holds
<1>1. /\ m_buffer' \in Seq(Nat)
      /\ Len(m_buffer') = Len(m_buffer) + Len(t)
      /\ \A i \in 1..Len(m_buffer) : m_buffer'[i] = m_buffer[i]
  BY <1>0, ConcatProperties
<1>2. \A i \in from..to : i \in 1..Len(m_buffer) /\ m_buffer[i] \in Nat /\ m_buffer'[i] = m_buffer[i]
  <2> SUFFICES ASSUME NEW i \in from..to
               PROVE  i \in 1..Len(m_buffer) /\ m_buffer[i] \in Nat /\ m_buffer'[i] = m_buffer[i]
    OBVIOUS
  <2>1. i \in 1..Len(m_buffer)
    BY <1>0
  <2>2. QED
    BY <2>1, <1>1, ElementOfSeq
<1> DEFINE old == SubSeq(m_buffer, from, to)
           new == SubSeq(m_buffer', from, to)
<1> HIDE DEF from, to
<1>3. /\ old \in Seq(Nat)
      /\ Len(old) = IF from <= to THEN to - from + 1 ELSE 0
      /\ \A i \in 1..(to - from + 1) : old[i] = m_buffer[from + i - 1]
  BY <1>0, <1>2, SubSeqProperties
<1>4. /\ new \in Seq(Nat)
      /\ Len(new) = IF from <= to THEN to - from + 1 ELSE 0
      /\ \A i \in 1..(to - from + 1) : new[i] = m_buffer'[from + i - 1]
  BY <1>0, <1>2, SubSeqProperties
<1> HIDE DEF old, new
<1>5. \A i \in 1..Len(old) : old[i] = new[i]
  <2> SUFFICES ASSUME NEW i \in 1..Len(old) PROVE old[i] = new[i]
    OBVIOUS
  <2>1. i \in 1..(to - from + 1) /\ from + i - 1 \in from..to
    BY <1>0, <1>3
  <2>2. QED
    BY <2>1, <1>2, <1>3, <1>4
<1>6. new = old
  BY <1>3, <1>4, <1>5, SeqEqual
<1>7. Shown(view)' = text
  BY <1>6 DEF Holds, Shown, old, new, from, to
<1>8. view.start + view.size + 1 \in 1..Len(m_buffer)
  BY <1>0 DEF to
<1>9. m_buffer'[view.start + view.size + 1] = NUL
  BY <1>1, <1>8 DEF Holds
<1>10. view.start + view.size + 1 <= Len(m_buffer')
  BY <1>0, <1>1, <1>8
<1>11. QED
  BY <1>7, <1>9, <1>10 DEF Holds, Shown

\* The view that read_string's caller takes shows the text just read.
LEMMA HoldsNow ==
  ASSUME m_buffer \in Seq(Nat), NEW text \in Seq(Nat \ {0}),
         m_buffer' = m_buffer \o text \o <<NUL>>,
         NEW view, view = [start |-> Len(m_buffer), size |-> Len(text)]
  PROVE  /\ View(text) = view
         /\ view \in Views
         /\ Holds(view, text)'
         /\ m_buffer' \in Seq(Nat)
         /\ text \o <<NUL>> \in Seq(Nat)
         /\ m_buffer' = m_buffer \o (text \o <<NUL>>)
<1>0. text \in Seq(Nat) /\ <<NUL>> \in Seq(Nat) /\ Len(<<NUL>>) = 1 /\ <<NUL>>[1] = NUL
  BY SeqMonotonic DEF NUL
<1>1. Len(m_buffer) \in Nat /\ Len(text) \in Nat /\ \A i \in 1..Len(text) : text[i] \in Nat
  BY <1>0, LenProperties, ElementOfSeq
<1>2. /\ m_buffer \o text \in Seq(Nat)
      /\ Len(m_buffer \o text) = Len(m_buffer) + Len(text)
      /\ \A i \in 1..(Len(m_buffer) + Len(text)) :
           (m_buffer \o text)[i] = IF i <= Len(m_buffer) THEN m_buffer[i] ELSE text[i - Len(m_buffer)]
  BY <1>0, ConcatProperties
<1> DEFINE front == m_buffer \o text
<1>3. m_buffer' = front \o <<NUL>>
  OBVIOUS
<1> HIDE DEF front
<1>4. /\ m_buffer' \in Seq(Nat)
      /\ Len(m_buffer') = Len(m_buffer) + Len(text) + 1
      /\ \A i \in 1..(Len(m_buffer) + Len(text)) : m_buffer'[i] = front[i]
      /\ m_buffer'[Len(m_buffer) + Len(text) + 1] = NUL
  <2>1. front \in Seq(Nat) /\ Len(front) = Len(m_buffer) + Len(text)
    BY <1>2 DEF front
  <2>2. /\ m_buffer' \in Seq(Nat)
        /\ Len(m_buffer') = Len(front) + 1
        /\ \A i \in 1..(Len(front) + 1) :
             m_buffer'[i] = IF i <= Len(front) THEN front[i] ELSE <<NUL>>[i - Len(front)]
    BY <2>1, <1>0, <1>3, ConcatProperties
  <2>3. m_buffer'[Len(front) + 1] = <<NUL>>[1]
    BY <2>1, <2>2, <1>1
  <2>4. QED
    BY <2>1, <2>2, <2>3, <1>0, <1>1
<1>5. View(text) = view
  BY <1>1, <1>4 DEF View
<1>6. view \in Views /\ view.start = Len(m_buffer) /\ view.size = Len(text)
  BY <1>1 DEF Views
<1>7. SubSeq(m_buffer', Len(m_buffer) + 1, Len(m_buffer) + Len(text)) = text
  <2>1. ASSUME NEW i \in 1..Len(text) PROVE m_buffer'[Len(m_buffer) + i] = text[i]
    <3>1. /\ Len(m_buffer) + i \in 1..(Len(m_buffer) + Len(text))
          /\ ~(Len(m_buffer) + i <= Len(m_buffer))
          /\ Len(m_buffer) + i - Len(m_buffer) = i
      BY <1>1
    <3>2. QED
      BY <3>1, <1>2, <1>4 DEF front
  <2>2. Len(m_buffer) + Len(text) <= Len(m_buffer')
    BY <1>1, <1>4
  <2>3. QED
    BY <2>1, <2>2, <1>0, <1>1, <1>4, SubSeqIs
<1>8. Holds(view, text)'
  BY <1>1, <1>4, <1>6, <1>7 DEF Holds, Shown
<1>9. text \o <<NUL>> \in Seq(Nat) /\ m_buffer' = m_buffer \o (text \o <<NUL>>)
  BY <1>0, ConcatProperties, ConcatAssociative
<1>10. QED
  BY <1>4, <1>5, <1>6, <1>8, <1>9

-----------------------------------------------------------------------------
(* The steps                                                               *)

\* What a call carries.
LEMMA VariantFacts ==
  ASSUME variant \in Variants
  PROVE  /\ \A field \in StringChildren : variant[field] \in Texts
         /\ \A hint \in StringHints : variant[hint] \in Texts \cup {NoHint}
         /\ variant.actions \in Seq(Texts) /\ Len(variant.actions) \in Nat
         /\ variant.replaces_id \in Nat /\ variant.expire_timeout \in Int
         /\ variant.urgency \in 0..255 \cup {NoHint}
<1>1. /\ variant.app_name \in Texts /\ variant.app_icon \in Texts
      /\ variant.summary \in Texts /\ variant.body \in Texts
  BY DEF Variants
<1>2. variant.category \in Texts \cup {NoHint} /\ variant.desktop_entry \in Texts \cup {NoHint}
  BY DEF Variants
<1>3. variant.actions \in UNION {[1..n -> Texts] : n \in 0..MaxActions}
  BY DEF Variants
<1>4. variant.actions \in Seq(Texts)
  BY <1>3, SeqDef, MaxActionsAssumption DEF MaxActionsAssumption
<1>5. variant.replaces_id \in ReplacesIds /\ variant.expire_timeout \in Timeouts
      /\ variant.urgency \in Urgencies \cup {NoHint}
  BY DEF Variants
<1>6. variant.replaces_id \in Nat /\ variant.expire_timeout \in Int
      /\ variant.urgency \in 0..255 \cup {NoHint}
  BY <1>5, NumbersAssumption, UrgenciesAssumption DEF NumbersAssumption, UrgenciesAssumption
<1>7. Len(variant.actions) \in Nat
  BY <1>4, LenProperties
<1>8. QED
  BY <1>1, <1>2, <1>4, <1>6, <1>7 DEF StringChildren, StringHints

\* A text is a sequence without the terminator.
LEMMA TextFacts ==
  ASSUME NEW text \in Texts
  PROVE  text \in Seq(Nat \ {0}) /\ text # NoHint
BY TextsAssumption DEF TextsAssumption

\* A step that leaves the buffer and the views alone keeps them stable.
LEMMA ViewsKept ==
  ASSUME ViewsAreStable, UNCHANGED <<variant, m_buffer, views, actions>>
  PROVE  ViewsAreStable'
BY DEF ViewsAreStable, Holds, Shown

\* Reading a string adds its view and disturbs no other.
LEMMA ReadStringStable ==
  ASSUME TypeOK, ViewsAreStable, phase \in StringChildren \cup StringHints,
         variant[phase] \in Texts, ReadString(variant[phase]), UNCHANGED <<variant, actions>>
  PROVE  /\ m_buffer' \in Seq(Nat)
         /\ DOMAIN views' = DOMAIN views \cup {phase}
         /\ views' \in [DOMAIN views' -> Views]
         /\ ViewsAreStable'
<1>t. PICK text : text = variant[phase]
  OBVIOUS
<1>v. PICK view : view = [start |-> Len(m_buffer), size |-> Len(text)]
  OBVIOUS
<1> DEFINE tail == text \o <<NUL>>
<1>0. m_buffer \in Seq(Nat) /\ views \in [DOMAIN views -> Views] /\ actions \in Seq(Views)
  BY DEF TypeOK
<1>1. m_buffer' = m_buffer \o text \o <<NUL>>
  BY <1>t DEF ReadString
<1>2. text \in Seq(Nat \ {0})
  BY <1>t, TextFacts
<1>3. /\ View(text) = view /\ view \in Views /\ Holds(view, text)'
      /\ m_buffer' \in Seq(Nat) /\ tail \in Seq(Nat) /\ m_buffer' = m_buffer \o tail
  BY <1>v, <1>0, <1>1, <1>2, HoldsNow
<1> HIDE DEF tail
<1>4. /\ DOMAIN views' = DOMAIN views \cup {phase}
      /\ \A field \in DOMAIN views' : views'[field] = IF field = phase THEN view ELSE views[field]
      /\ views' = [field \in DOMAIN views \cup {phase} |-> IF field = phase THEN view ELSE views[field]]
  BY <1>t, <1>3 DEF ReadString
<1>5. views' \in [DOMAIN views' -> Views]
  BY <1>0, <1>3, <1>4
<1>6. ASSUME NEW field \in DOMAIN views' PROVE Holds(views[field], variant[field])'
  <2>1. CASE field = phase
    <3>1. views'[field] = view /\ variant'[field] = text
      BY <2>1, <1>t, <1>4
    <3>2. QED
      BY <3>1, <1>3 DEF Holds, Shown
  <2>2. CASE field # phase
    <3>1. field \in DOMAIN views /\ views'[field] = views[field] /\ views[field] \in Views
      BY <2>2, <1>0, <1>4
    <3>2. Holds(views[field], variant[field])
      BY <3>1 DEF ViewsAreStable
    <3>3. PICK v, t : v = views[field] /\ t = variant[field]
      OBVIOUS
    <3>4. Holds(v, t)'
      BY <3>1, <3>2, <3>3, <1>0, <1>3, HoldsLater
    <3>5. views'[field] = v /\ variant'[field] = t
      BY <3>1, <3>3
    <3>6. QED
      BY <3>4, <3>5 DEF Holds, Shown
  <2>3. QED
    BY <2>1, <2>2
<1>7. ASSUME NEW i \in DOMAIN actions' PROVE Holds(actions[i], variant.actions[i])'
  <2>1. i \in DOMAIN actions /\ actions[i] \in Views /\ actions'[i] = actions[i]
    BY <1>0, LenProperties, ElementOfSeq
  <2>2. Holds(actions[i], variant.actions[i])
    BY <2>1 DEF ViewsAreStable
  <2>3. PICK v, t : v = actions[i] /\ t = variant.actions[i]
    OBVIOUS
  <2>4. Holds(v, t)'
    BY <2>1, <2>2, <2>3, <1>0, <1>3, HoldsLater
  <2>5. actions'[i] = v /\ variant'.actions[i] = t
    BY <2>1, <2>3
  <2>6. QED
    BY <2>4, <2>5 DEF Holds, Shown
<1>8. ViewsAreStable'
  BY <1>6, <1>7 DEF ViewsAreStable
<1>9. QED
  BY <1>3, <1>4, <1>5, <1>8

\* So does reading one of the strings of the array.
LEMMA ReadActionStable ==
  ASSUME TypeOK, ViewsAreStable, ReadAction
  PROVE  /\ m_buffer' \in Seq(Nat)
         /\ actions' \in Seq(Views)
         /\ Len(actions') = Len(actions) + 1
         /\ ViewsAreStable'
<1> DEFINE k == Len(actions) + 1
<1>t. PICK text : text = variant.actions[k]
  OBVIOUS
<1>v. PICK view : view = [start |-> Len(m_buffer), size |-> Len(text)]
  OBVIOUS
<1> DEFINE tail == text \o <<NUL>>
<1>0. /\ m_buffer \in Seq(Nat) /\ views \in [DOMAIN views -> Views] /\ actions \in Seq(Views)
      /\ variant \in Variants
  BY DEF TypeOK
<1>1. /\ m_buffer' = m_buffer \o text \o <<NUL>> /\ actions' = Append(actions, View(text))
      /\ UNCHANGED <<variant, views>> /\ Len(actions) < Len(variant.actions)
  BY <1>t DEF ReadAction
<1>2. text \in Seq(Nat \ {0})
  <2>1. Len(actions) \in Nat /\ variant.actions \in Seq(Texts) /\ Len(variant.actions) \in Nat
    BY <1>0, LenProperties, VariantFacts
  <2>2. k \in 1..Len(variant.actions)
    BY <2>1, <1>1
  <2>3. text \in Texts
    BY <1>t, <2>1, <2>2, ElementOfSeq
  <2>4. QED
    BY <2>3, TextFacts
<1>3. /\ View(text) = view /\ view \in Views /\ Holds(view, text)'
      /\ m_buffer' \in Seq(Nat) /\ tail \in Seq(Nat) /\ m_buffer' = m_buffer \o tail
  BY <1>v, <1>0, <1>1, <1>2, HoldsNow
<1> HIDE DEF tail
<1>4. /\ actions' \in Seq(Views)
      /\ Len(actions') = Len(actions) + 1
      /\ \A i \in 1..Len(actions) : actions'[i] = actions[i]
      /\ actions'[Len(actions) + 1] = view
      /\ Len(actions) \in Nat
  BY <1>0, <1>1, <1>3, AppendProperties, LenProperties
<1>5. ASSUME NEW field \in DOMAIN views' PROVE Holds(views[field], variant[field])'
  <2>1. field \in DOMAIN views /\ views'[field] = views[field] /\ views[field] \in Views
    BY <1>0, <1>1
  <2>2. Holds(views[field], variant[field])
    BY <2>1 DEF ViewsAreStable
  <2>3. PICK v, t : v = views[field] /\ t = variant[field]
    OBVIOUS
  <2>4. Holds(v, t)'
    BY <2>1, <2>2, <2>3, <1>0, <1>3, HoldsLater
  <2>5. views'[field] = v /\ variant'[field] = t
    BY <2>1, <2>3, <1>1
  <2>6. QED
    BY <2>4, <2>5 DEF Holds, Shown
<1>6. ASSUME NEW i \in DOMAIN actions' PROVE Holds(actions[i], variant.actions[i])'
  <2>0. i \in 1..(Len(actions) + 1)
    BY <1>4, LenProperties
  <2>1. CASE i = Len(actions) + 1
    <3>1. actions'[i] = view /\ variant'.actions[i] = text
      BY <2>1, <1>t, <1>1, <1>4
    <3>2. QED
      BY <3>1, <1>3 DEF Holds, Shown
  <2>2. CASE i # Len(actions) + 1
    <3>1. i \in 1..Len(actions)
      BY <2>0, <2>2, <1>4
    <3>2. i \in DOMAIN actions /\ actions[i] \in Views /\ actions'[i] = actions[i]
      BY <3>1, <1>0, <1>4, LenProperties, ElementOfSeq
    <3>3. Holds(actions[i], variant.actions[i])
      BY <3>2 DEF ViewsAreStable
    <3>4. PICK v, t : v = actions[i] /\ t = variant.actions[i]
      OBVIOUS
    <3>5. Holds(v, t)'
      BY <3>2, <3>3, <3>4, <1>0, <1>3, HoldsLater
    <3>6. actions'[i] = v /\ variant'.actions[i] = t
      BY <3>2, <3>4, <1>1
    <3>7. QED
      BY <3>5, <3>6 DEF Holds, Shown
  <2>3. QED
    BY <2>1, <2>2
<1>7. ViewsAreStable'
  BY <1>5, <1>6 DEF ViewsAreStable
<1>8. QED
  BY <1>3, <1>4, <1>7

\* The ranks number the statements.
LEMMA RankFacts ==
  /\ \A f \in Statements : Rank[f] \in 1..12
  /\ \A f, g \in Statements : Rank[f] = Rank[g] => f = g
  /\ \A f \in DOMAIN After : f \in Statements /\ After[f] \in Statements /\ Rank[After[f]] = Rank[f] + 1
  /\ StringChildren \cup StringHints \subseteq Statements
<1>1. \A f \in Statements : Rank[f] \in 1..12
  BY DEF Statements, Rank
<1>2. \A f, g \in Statements : Rank[f] = Rank[g] => f = g
  BY DEF Statements, Rank
<1>3. \A f \in DOMAIN After : f \in Statements /\ After[f] \in Statements /\ Rank[After[f]] = Rank[f] + 1
  BY DEF Statements, Rank, After
<1>4. StringChildren \cup StringHints \subseteq Statements
  BY DEF Statements, Rank, StringChildren, StringHints
<1>5. QED
  BY <1>1, <1>2, <1>3, <1>4

\* From one statement to the next, one string more has been read or none.
LEMMA StringsBefore ==
  ASSUME NEW f \in Statements, NEW g \in Statements, Rank[g] = Rank[f] + 1
  PROVE  {x \in Strings : Rank[x] < Rank[g]}
           = {x \in Strings : Rank[x] < Rank[f]} \cup ({f} \cap Strings)
<1>1. \A x \in Strings : x \in Statements
  BY RankFacts DEF Strings
<1>2. \A x \in Strings : Rank[x] < Rank[g] <=> Rank[x] < Rank[f] \/ x = f
  BY <1>1, RankFacts
<1>3. QED
  BY <1>2

\* A statement that is reached takes its own child; but for that of the icon
\* when the read of the id is not compiled.
LEMMA ChildIsPhase ==
  ASSUME Progress, phase \in StringChildren \cup {"replaces_id", "expire_timeout"}
  PROVE  /\ G_ASSERT => Child = phase
         /\ ~G_ASSERT => phase \in {"app_name", "replaces_id", "app_icon"}
                         /\ Child = IF phase = "app_name" THEN "app_name" ELSE "replaces_id"
<1>1. CASE G_ASSERT
  BY <1>1 DEF Progress, ReadSoFar, Place, Child, Children, StringChildren
<1>2. CASE ~G_ASSERT
  BY <1>2 DEF Progress, StoppedEarly, Child, Children, StringChildren
<1>3. QED
  BY <1>1, <1>2

\* The places of the statements that take a child, and of those after them.
LEMMA PlaceFacts ==
  /\ \A f \in StringChildren \cup {"replaces_id"} : Place[After[f]] = Place[f] + 1
  /\ \A f \in StringHints \cup {"urgency"} : f \in DOMAIN After
  /\ \A f \in StringHints : Place[After[f]] = Place[f]
  /\ \A f \in Statements : Place[f] \in 0..8
  /\ StringChildren \cup {"replaces_id"} \subseteq DOMAIN After
  /\ \A f \in DOMAIN After : After[f] \in DOMAIN After \cup {"actions", "expire_timeout"}
  /\ Len(Children) = 8
<1>1. \A f \in StringChildren \cup {"replaces_id"} : Place[After[f]] = Place[f] + 1
  BY DEF Place, After, StringChildren
<1>2. \A f \in StringHints \cup {"urgency"} : f \in DOMAIN After
  BY DEF After, StringHints
<1>3. \A f \in StringHints : Place[After[f]] = Place[f]
  BY DEF Place, After, StringHints
<1>4. \A f \in Statements : Place[f] \in 0..8
  BY DEF Place, Statements, Rank
<1>5. StringChildren \cup {"replaces_id"} \subseteq DOMAIN After
  BY DEF After, StringChildren
<1>6. \A f \in DOMAIN After : After[f] \in DOMAIN After \cup {"actions", "expire_timeout"}
  BY DEF After
<1>7. Len(Children) = 8
  BY DEF Children
<1>8. QED
  BY <1>1, <1>2, <1>3, <1>4, <1>5, <1>6, <1>7

\* A step that reads one string, and moves on as After says.
LEMMA ReadOneString ==
  ASSUME IInv, phase \in StringChildren \cup StringHints, variant[phase] \in Texts,
         ReadString(variant[phase]), phase' = After[phase],
         it' = it + (IF phase \in StringChildren THEN 1 ELSE 0),
         UNCHANGED <<variant, actions, members>>,
         G_ASSERT \/ phase = "app_name"
  PROVE  IInv'
<1>0. TypeOK /\ ViewsAreStable /\ Progress /\ variant \in Variants
  BY DEF IInv, TypeOK
<1>1. /\ m_buffer' \in Seq(Nat)
      /\ DOMAIN views' = DOMAIN views \cup {phase}
      /\ views' \in [DOMAIN views' -> Views]
      /\ ViewsAreStable'
  BY <1>0, ReadStringStable
<1>2. phase \in DOMAIN After /\ phase' \in Statements /\ Rank[phase'] = Rank[phase] + 1
      /\ phase \in Statements
  BY PlaceFacts, RankFacts
<1>3. ~(StringChildren \cap StringHints # {})
  BY DEF StringChildren, StringHints
<1>4. Progress'
  <2>1. CASE G_ASSERT
    <3>0. ReadSoFar
      BY <2>1, <1>0 DEF Progress
    <3>1. it' = Place[phase']
      <4>1. it = Place[phase] /\ Place[phase] \in 0..8
        BY <3>0, PlaceFacts DEF ReadSoFar
      <4>2. QED
        BY <4>1, <1>3, PlaceFacts
    <3>2. phase \in Strings
      BY TextFacts DEF Strings
    <3>3. DOMAIN views' = {x \in Strings : Rank[x] < Rank[phase']}
      <4>1. DOMAIN views = {x \in Strings : Rank[x] < Rank[phase]}
        BY <3>0 DEF ReadSoFar
      <4>2. {x \in Strings : Rank[x] < Rank[phase']}
              = {x \in Strings : Rank[x] < Rank[phase]} \cup ({phase} \cap Strings)
        BY <1>2, StringsBefore
      <4>3. QED
        BY <4>1, <4>2, <3>2, <1>1
    <3>4. Strings' = Strings
      BY DEF Strings
    <3>5. Rank[phase] \in 1..12 /\ Rank[phase'] \in 1..12
      BY <1>2, RankFacts
    <3>6. Rank[phase] \notin {2, 6, 7, 10}
      BY DEF Rank, StringChildren, StringHints
    <3>7. /\ Rank[phase'] > 6 => Len(actions) = Len(variant.actions)
          /\ Rank[phase'] > 2 => m_replaces_id = variant.replaces_id /\ m_id = variant.replaces_id
          /\ Rank[phase'] > 7 => urgency = IF variant.urgency = NoHint THEN 0 ELSE variant.urgency
          /\ Rank[phase'] > 10 => m_expire_timeout = variant.expire_timeout
      BY <1>2, <3>0, <3>5, <3>6 DEF ReadSoFar
    <3>8. Len(actions) <= Len(variant.actions)
      BY <3>0 DEF ReadSoFar
    <3>9. ReadSoFar'
      BY <1>2, <3>1, <3>3, <3>4, <3>7, <3>8 DEF ReadSoFar, members
    <3>10. QED
      BY <2>1, <3>9 DEF Progress
  <2>2. CASE ~G_ASSERT
    <3>1. StoppedEarly /\ phase = "app_name"
      BY <2>2, <1>0 DEF Progress
    <3>2. phase' = "replaces_id" /\ it' = 1
      BY <3>1 DEF After, StoppedEarly, StringChildren
    <3>3. DOMAIN views' = {"app_name"}
      BY <3>1, <1>1 DEF StoppedEarly
    <3>4. StoppedEarly'
      BY <3>1, <3>2, <3>3 DEF StoppedEarly
    <3>5. QED
      BY <2>2, <3>4 DEF Progress
  <2>3. QED
    BY <2>1, <2>2
<1>5. it' \in 0..Len(Children)
  <2>1. CASE G_ASSERT
    BY <2>1, <1>4, PlaceFacts DEF Progress, ReadSoFar
  <2>2. CASE ~G_ASSERT
    BY <2>2, <1>4, PlaceFacts DEF Progress, StoppedEarly
  <2>3. QED
    BY <2>1, <2>2
<1>6. TypeOK'
  <2>1. phase' \in DOMAIN After \cup {"actions", "expire_timeout"}
    BY <1>2, PlaceFacts
  <2>2. DOMAIN views' \subseteq StringChildren \cup StringHints
    BY <1>0, <1>1 DEF TypeOK
  <2>3. QED
    BY <1>0, <1>1, <1>5, <2>1, <2>2 DEF TypeOK, members
<1>7. QED
  BY <1>1, <1>4, <1>6 DEF IInv

\* The statements for the four strings.
LEMMA ReadStringChildIInv == IInv /\ ReadStringChild => IInv'
<1> SUFFICES ASSUME IInv, ReadStringChild PROVE IInv'
  OBVIOUS
<1>0. /\ TypeOK /\ ViewsAreStable /\ Progress /\ variant \in Variants
      /\ phase \in StringChildren
      /\ UNCHANGED <<variant, actions, members>>
  BY DEF IInv, TypeOK, ReadStringChild
<1>1. variant[phase] \in Texts
  BY <1>0, VariantFacts
<1>2. CASE Child = phase /\ (G_ASSERT \/ phase = "app_name")
  <2>1. ReadString(variant[phase]) /\ it' = it + 1 /\ phase' = After[phase]
    BY <1>0, <1>2 DEF ReadStringChild
  <2>2. QED
    BY <1>0, <1>1, <1>2, <2>1, ReadOneString
<1>3. CASE ~G_ASSERT /\ phase = "app_icon" /\ Child = "replaces_id"
  <2>1. Child \notin StringChildren
    BY <1>3 DEF StringChildren
  <2>2. phase' = "undefined" /\ UNCHANGED <<it, m_buffer, views>>
    BY <1>0, <2>1 DEF ReadStringChild
  <2>3. StoppedEarly'
    BY <1>0, <1>3, <2>2 DEF Progress, StoppedEarly
  <2>4. TypeOK' /\ ViewsAreStable'
    BY <1>0, <2>2, ViewsKept DEF TypeOK, members
  <2>5. QED
    BY <1>3, <2>3, <2>4 DEF IInv, Progress
<1>4. QED
  <2>1. phase # "replaces_id"
    BY <1>0 DEF StringChildren
  <2>2. QED
    BY <1>0, <1>2, <1>3, <2>1, ChildIsPhase

\* A step that reads no string, and moves on to the next statement.
LEMMA ReadNoString ==
  ASSUME IInv, G_ASSERT, phase \in Statements \ Strings, phase' \in Statements,
         Rank[phase'] = Rank[phase] + 1, it' = Place[phase'],
         UNCHANGED <<variant, m_buffer, views, actions>>,
         urgency' \in 0..255, m_replaces_id' \in Nat, m_id' \in Nat, m_expire_timeout' \in Int,
         phase = "actions" => Len(actions) = Len(variant.actions),
         IF phase = "replaces_id"
         THEN m_replaces_id' = variant.replaces_id /\ m_id' = variant.replaces_id
         ELSE UNCHANGED <<m_replaces_id, m_id>>,
         IF phase = "urgency"
         THEN urgency' = IF variant.urgency = NoHint THEN 0 ELSE variant.urgency
         ELSE UNCHANGED urgency,
         IF phase = "expire_timeout" THEN m_expire_timeout' = variant.expire_timeout
         ELSE UNCHANGED m_expire_timeout
  PROVE  IInv'
<1>0. TypeOK /\ ViewsAreStable /\ ReadSoFar
  BY DEF IInv, Progress
<1>1. Rank[phase] \in 1..12 /\ Rank[phase'] \in 1..12
  BY RankFacts
<1>2. /\ Rank[phase] = 2 <=> phase = "replaces_id"
      /\ Rank[phase] = 6 <=> phase = "actions"
      /\ Rank[phase] = 7 <=> phase = "urgency"
      /\ Rank[phase] = 10 <=> phase = "expire_timeout"
  BY DEF Rank, Statements
<1>3. DOMAIN views' = {x \in Strings : Rank[x] < Rank[phase']}
  <2>1. {x \in Strings : Rank[x] < Rank[phase']}
          = {x \in Strings : Rank[x] < Rank[phase]} \cup ({phase} \cap Strings)
    BY StringsBefore
  <2>2. QED
    BY <2>1, <1>0 DEF ReadSoFar
<1>4. Strings' = Strings
  BY DEF Strings
<1>5. Len(actions) <= Len(variant.actions)
  BY <1>0 DEF ReadSoFar
<1>6. Rank[phase'] > 6 => Len(actions) = Len(variant.actions)
  BY <1>0, <1>1, <1>2 DEF ReadSoFar
<1>7. Rank[phase'] > 2 => m_replaces_id' = variant.replaces_id /\ m_id' = variant.replaces_id
  BY <1>0, <1>1, <1>2 DEF ReadSoFar
<1>8. Rank[phase'] > 10 => m_expire_timeout' = variant.expire_timeout
  BY <1>0, <1>1, <1>2 DEF ReadSoFar
<1>15. Rank[phase'] > 7 => urgency' = IF variant.urgency = NoHint THEN 0 ELSE variant.urgency
  BY <1>0, <1>1, <1>2 DEF ReadSoFar
<1>9. ReadSoFar'
  BY <1>3, <1>4, <1>5, <1>6, <1>7, <1>8, <1>15 DEF ReadSoFar
<1>10. it' \in 0..Len(Children)
  BY PlaceFacts
<1>11. phase' \in DOMAIN After \cup {"actions", "expire_timeout", "assign", "done", "undefined"}
  BY DEF Statements, Rank, After
<1>12. TypeOK'
  BY <1>0, <1>10, <1>11 DEF TypeOK
<1>13. ViewsAreStable'
  BY <1>0, ViewsKept
<1>14. QED
  BY <1>9, <1>12, <1>13 DEF IInv, Progress

\* The statement for the id.
LEMMA ReadReplacesIdIInv == IInv /\ ReadReplacesId => IInv'
<1> SUFFICES ASSUME IInv, ReadReplacesId PROVE IInv'
  OBVIOUS
<1>0. /\ TypeOK /\ ViewsAreStable /\ Progress /\ variant \in Variants
      /\ phase = "replaces_id" /\ phase' = "app_icon"
      /\ UNCHANGED <<variant, m_buffer, views, actions, urgency, m_expire_timeout>>
  BY DEF IInv, TypeOK, ReadReplacesId, After
<1>1. CASE G_ASSERT
  <2>1. Child = "replaces_id"
    BY <1>0, <1>1, ChildIsPhase
  <2>2. it' = it + 1 /\ m_replaces_id' = variant.replaces_id /\ m_id' = m_replaces_id'
    BY <1>1, <2>1 DEF ReadReplacesId
  <2>3. it' = Place[phase']
    BY <1>0, <1>1, <2>2 DEF Progress, ReadSoFar, Place
  <2>4. variant.replaces_id \in Nat
    BY <1>0, VariantFacts
  <2>5. /\ phase \in Statements \ Strings /\ phase' \in Statements
        /\ Rank[phase'] = Rank[phase] + 1
    BY <1>0 DEF Statements, Rank, Strings, StringChildren, StringHints
  <2>6. urgency' \in 0..255 /\ m_expire_timeout' \in Int
    BY <1>0 DEF TypeOK
  <2>7. QED
    BY <1>0, <1>1, <2>2, <2>3, <2>4, <2>5, <2>6, ReadNoString
<1>2. CASE ~G_ASSERT
  <2>1. UNCHANGED <<it, m_replaces_id>> /\ m_id' = m_replaces_id
    BY <1>2 DEF ReadReplacesId
  <2>2. StoppedEarly'
    BY <1>0, <1>2, <2>1 DEF Progress, StoppedEarly
  <2>3. TypeOK' /\ ViewsAreStable'
    <3>1. phase' \in DOMAIN After
      BY <1>0 DEF After
    <3>2. QED
      BY <1>0, <2>1, <3>1, ViewsKept DEF TypeOK
  <2>4. QED
    BY <1>2, <2>2, <2>3 DEF IInv, Progress
<1>3. QED
  BY <1>1, <1>2

\* The statements behind the icon's are reached in the build with g_assert.
LEMMA Reached ==
  ASSUME Progress,
         phase \in {"actions", "urgency", "category", "desktop_entry", "expire_timeout", "assign"}
  PROVE  G_ASSERT /\ ReadSoFar
<1>1. CASE ~G_ASSERT
  BY <1>1 DEF Progress, StoppedEarly
<1>2. QED
  BY <1>1 DEF Progress

\* The array of actions, one string at a time.
LEMMA ReadActionIInv == IInv /\ ReadAction => IInv'
<1> SUFFICES ASSUME IInv, ReadAction PROVE IInv'
  OBVIOUS
<1>0. /\ TypeOK /\ ViewsAreStable /\ Progress /\ variant \in Variants
      /\ phase = "actions" /\ Len(actions) < Len(variant.actions)
      /\ UNCHANGED <<variant, phase, it, views, members>>
  BY DEF IInv, TypeOK, ReadAction
<1>1. G_ASSERT /\ ReadSoFar
  BY <1>0, Reached
<1>2. /\ m_buffer' \in Seq(Nat)
      /\ actions' \in Seq(Views)
      /\ Len(actions') = Len(actions) + 1
      /\ ViewsAreStable'
  BY <1>0, ReadActionStable
<1>3. Len(actions) \in Nat /\ Len(variant.actions) \in Nat
  BY <1>0, VariantFacts, LenProperties DEF TypeOK
<1>4. Rank[phase] = 6 /\ Strings' = Strings
  BY <1>0 DEF Rank, Strings
<1>5. ReadSoFar'
  <2>1. Len(actions') <= Len(variant.actions)
    BY <1>0, <1>2, <1>3
  <2>2. QED
    BY <1>0, <1>1, <1>4, <2>1 DEF ReadSoFar, members
<1>6. TypeOK'
  BY <1>0, <1>2 DEF TypeOK, members
<1>7. QED
  BY <1>1, <1>2, <1>5, <1>6 DEF IInv, Progress

\* The end of the array, and the hint urgency.
LEMMA ReadActionsEndIInv == IInv /\ (ReadActionsEnd \/ ReadUrgency) => IInv'
<1> SUFFICES ASSUME IInv, ReadActionsEnd \/ ReadUrgency PROVE IInv'
  OBVIOUS
<1>0. TypeOK /\ Progress /\ variant \in Variants
  BY DEF IInv, TypeOK
<1>1. CASE ReadActionsEnd
  <2>1. /\ phase = "actions" /\ phase' = "urgency" /\ it' = it + 1
        /\ Len(actions) = Len(variant.actions)
        /\ UNCHANGED <<variant, m_buffer, views, actions, members>>
    BY <1>1 DEF ReadActionsEnd
  <2>2. G_ASSERT /\ ReadSoFar
    BY <1>0, <2>1, Reached
  <2>3. it' = Place[phase']
    BY <2>1, <2>2 DEF ReadSoFar, Place
  <2>4. /\ phase \in Statements \ Strings /\ phase' \in Statements
        /\ Rank[phase'] = Rank[phase] + 1
    BY <2>1 DEF Statements, Rank, Strings, StringChildren, StringHints
  <2>5. /\ urgency' \in 0..255 /\ m_expire_timeout' \in Int
        /\ m_replaces_id' \in Nat /\ m_id' \in Nat
        /\ UNCHANGED <<urgency, m_replaces_id, m_id, m_expire_timeout>>
    BY <1>0, <2>1 DEF TypeOK, members
  <2>6. QED
    BY <2>1, <2>2, <2>3, <2>4, <2>5, ReadNoString
<1>2. CASE ReadUrgency
  <2>1. /\ phase = "urgency" /\ phase' = "category" /\ it' = it + 1
        /\ UNCHANGED <<variant, m_buffer, views, actions, m_replaces_id, m_id, m_expire_timeout>>
    BY <1>2 DEF ReadUrgency, After
  <2>2. G_ASSERT /\ ReadSoFar
    BY <1>0, <2>1, Reached
  <2>3. it' = Place[phase']
    BY <2>1, <2>2 DEF ReadSoFar, Place
  <2>4. /\ phase \in Statements \ Strings /\ phase' \in Statements
        /\ Rank[phase'] = Rank[phase] + 1
    BY <2>1 DEF Statements, Rank, Strings, StringChildren, StringHints
  <2>5. /\ urgency' = IF variant.urgency = NoHint THEN 0 ELSE variant.urgency
        /\ urgency' \in 0..255
    BY <1>0, <1>2, VariantFacts DEF ReadUrgency
  <2>6. m_expire_timeout' \in Int /\ m_replaces_id' \in Nat /\ m_id' \in Nat
    BY <1>0, <2>1 DEF TypeOK
  <2>7. QED
    BY <2>1, <2>2, <2>3, <2>4, <2>5, <2>6, ReadNoString
<1>3. QED
  BY <1>1, <1>2

\* The hints that are strings.
LEMMA ReadStringHintIInv == IInv /\ ReadStringHint => IInv'
<1> SUFFICES ASSUME IInv, ReadStringHint PROVE IInv'
  OBVIOUS
<1>0. /\ TypeOK /\ Progress /\ variant \in Variants
      /\ phase \in StringHints /\ phase' = After[phase]
      /\ UNCHANGED <<variant, it, actions, members>>
  BY DEF IInv, TypeOK, ReadStringHint
<1>1. G_ASSERT /\ ReadSoFar
  BY <1>0, Reached DEF StringHints
<1>2. CASE variant[phase] = NoHint
  <2>1. UNCHANGED <<m_buffer, views>>
    BY <1>2 DEF ReadStringHint
  <2>2. phase \in Statements \ Strings
    BY <1>0, <1>2 DEF Statements, Rank, Strings, StringChildren, StringHints
  <2>3. phase' \in Statements /\ Rank[phase'] = Rank[phase] + 1 /\ Place[phase'] = Place[phase]
    BY <1>0, RankFacts, PlaceFacts
  <2>4. it' = Place[phase']
    BY <1>0, <1>1, <2>3 DEF ReadSoFar
  <2>5. phase \notin {"actions", "urgency", "replaces_id", "expire_timeout"}
    BY <1>0 DEF StringHints
  <2>6. /\ urgency' \in 0..255 /\ m_expire_timeout' \in Int
        /\ m_replaces_id' \in Nat /\ m_id' \in Nat
        /\ UNCHANGED <<urgency, m_replaces_id, m_id, m_expire_timeout>>
    BY <1>0 DEF TypeOK, members
  <2>7. QED
    BY <1>0, <1>1, <2>1, <2>2, <2>3, <2>4, <2>5, <2>6, ReadNoString
<1>3. CASE variant[phase] # NoHint
  <2>1. variant[phase] \in Texts
    BY <1>0, <1>3, VariantFacts
  <2>2. ReadString(variant[phase])
    BY <1>3 DEF ReadStringHint
  <2>3. it' = it + (IF phase \in StringChildren THEN 1 ELSE 0)
    BY <1>0 DEF TypeOK, StringHints, StringChildren
  <2>4. QED
    BY <1>0, <1>1, <2>1, <2>2, <2>3, ReadOneString
<1>4. QED
  BY <1>2, <1>3

\* The timeout, and the map of the actions.
LEMMA ReadExpireTimeoutIInv == IInv /\ (ReadExpireTimeout \/ Assign) => IInv'
<1> SUFFICES ASSUME IInv, ReadExpireTimeout \/ Assign PROVE IInv'
  OBVIOUS
<1>0. TypeOK /\ Progress /\ variant \in Variants
  BY DEF IInv, TypeOK
<1>1. CASE ReadExpireTimeout
  <2>1. /\ phase = "expire_timeout" /\ phase' = "assign"
        /\ UNCHANGED <<variant, m_buffer, views, actions, urgency, m_replaces_id, m_id>>
    BY <1>1 DEF ReadExpireTimeout
  <2>2. G_ASSERT /\ ReadSoFar
    BY <1>0, <2>1, Reached
  <2>3. Child = "expire_timeout"
    BY <1>0, <2>1, <2>2, ChildIsPhase
  <2>4. it' = it + 1 /\ m_expire_timeout' = variant.expire_timeout
    BY <1>1, <2>2, <2>3 DEF ReadExpireTimeout
  <2>5. it' = Place[phase']
    BY <2>1, <2>2, <2>4 DEF ReadSoFar, Place
  <2>6. /\ phase \in Statements \ Strings /\ phase' \in Statements
        /\ Rank[phase'] = Rank[phase] + 1
    BY <2>1 DEF Statements, Rank, Strings, StringChildren, StringHints
  <2>7. /\ urgency' \in 0..255 /\ m_expire_timeout' \in Int
        /\ m_replaces_id' \in Nat /\ m_id' \in Nat
    BY <1>0, <2>1, <2>4, VariantFacts DEF TypeOK
  <2>8. QED
    BY <2>1, <2>2, <2>4, <2>5, <2>6, <2>7, ReadNoString
<1>2. CASE Assign
  <2>1. /\ phase = "assign" /\ phase' = "done"
        /\ UNCHANGED <<variant, it, m_buffer, views, actions, urgency, m_replaces_id, m_id,
                       m_expire_timeout>>
    BY <1>2 DEF Assign
  <2>2. G_ASSERT /\ ReadSoFar
    BY <1>0, <2>1, Reached
  <2>3. it' = Place[phase']
    BY <2>1, <2>2 DEF ReadSoFar, Place
  <2>4. /\ phase \in Statements \ Strings /\ phase' \in Statements
        /\ Rank[phase'] = Rank[phase] + 1
    BY <2>1 DEF Statements, Rank, Strings, StringChildren, StringHints
  <2>5. /\ urgency' \in 0..255 /\ m_expire_timeout' \in Int
        /\ m_replaces_id' \in Nat /\ m_id' \in Nat
    BY <1>0, <2>1 DEF TypeOK
  <2>6. QED
    BY <2>1, <2>2, <2>3, <2>4, <2>5, ReadNoString
<1>3. QED
  BY <1>1, <1>2

-----------------------------------------------------------------------------
(* The map of the actions                                                  *)

\* try_emplace keeps the label behind the first string that is the key.
LEMMA AssignFindsPairs ==
  ASSUME IInv, Assign, NEW i \in 1..(Len(variant.actions) - 1),
         \A j \in 1..(i - 1) : variant.actions[j] # variant.actions[i]
  PROVE  /\ variant.actions[i] \in DOMAIN m_actions'
         /\ m_actions'[variant.actions[i]] = variant.actions[i + 1]
<1>1. phase = "assign" /\ TypeOK /\ ViewsAreStable /\ variant' = variant
  BY DEF Assign, IInv
<1>2. Len(actions) = Len(variant.actions) /\ Len(actions) \in Nat
  <2>1. ReadSoFar
    BY <1>1, Reached DEF IInv
  <2>2. actions \in Seq(Views)
    BY <1>1 DEF TypeOK
  <2>3. QED
    BY <1>1, <2>1, <2>2, LenProperties DEF ReadSoFar, Rank
<1>3. \A j \in 1..Len(actions) : Shown(actions[j]) = variant.actions[j]
  <2>1. actions \in Seq(Views)
    BY <1>1 DEF TypeOK
  <2>2. DOMAIN actions = 1..Len(actions)
    BY <2>1, LenProperties
  <2>3. QED
    BY <1>1, <2>2 DEF ViewsAreStable, Holds
<1> DEFINE text == variant.actions
           first(k, key) == /\ k \in 1..(Len(actions) - 1)
                            /\ Shown(actions[k]) = key
                            /\ \A j \in 1..(k - 1) : Shown(actions[j]) # key
<1>4. i \in 1..Len(actions) /\ i + 1 \in 1..Len(actions) /\ \A j \in 1..(i - 1) : j \in 1..Len(actions)
  BY <1>2
<1>5. first(i, text[i])
  BY <1>3, <1>4
<1>6. ASSUME NEW k, first(k, text[i]) PROVE k = i
  <2>1. k \in 1..Len(actions) /\ k \in Nat /\ i \in Nat
    BY <1>2, <1>6
  <2>2. ~(k < i)
    <3> SUFFICES ASSUME k < i PROVE FALSE
      OBVIOUS
    <3>1. k \in 1..(i - 1)
      BY <2>1, <1>6
    <3>2. text[k] # text[i]
      BY <3>1
    <3>3. QED
      BY <1>3, <1>6, <2>1, <3>2
  <2>3. ~(i < k)
    <3> SUFFICES ASSUME i < k PROVE FALSE
      OBVIOUS
    <3>1. i \in 1..(k - 1)
      BY <2>1
    <3>2. QED
      BY <1>3, <1>4, <1>6, <3>1
  <2>4. QED
    BY <2>1, <2>2, <2>3
<1>7. text[i] \in ActionKeys(Len(actions) - 1)
  BY <1>3, <1>4 DEF ActionKeys
<1>8. m_actions' =
        [key \in ActionKeys(Len(actions) - 1) |->
           LET k == CHOOSE k \in 1..(Len(actions) - 1) :
                      /\ Shown(actions[k]) = key
                      /\ \A j \in 1..(k - 1) : Shown(actions[j]) # key
           IN  Shown(actions[k + 1])]
  BY DEF Assign
<1> DEFINE chosen == CHOOSE k \in 1..(Len(actions) - 1) :
                       /\ Shown(actions[k]) = text[i]
                       /\ \A j \in 1..(k - 1) : Shown(actions[j]) # text[i]
<1>9. chosen = i
  <2>1. first(chosen, text[i])
    BY <1>5, Zenon
  <2>2. QED
    BY <1>6, <2>1
<1>10. text[i] \in DOMAIN m_actions' /\ m_actions'[text[i]] = Shown(actions[chosen + 1])
  BY <1>7, <1>8, Zenon
<1>11. QED
  BY <1>3, <1>4, <1>9, <1>10

\* What the loop makes of the array: every text but the last is a key, its value
\* is the text behind the first place where it stands.
MapIsOfPairs ==
  phase = "done" =>
    /\ DOMAIN m_actions = {variant.actions[i] : i \in 1..(Len(variant.actions) - 1)}
    /\ \A i \in 1..(Len(variant.actions) - 1) :
         (\A j \in 1..(i - 1) : variant.actions[j] # variant.actions[i])
           => m_actions[variant.actions[i]] = variant.actions[i + 1]

\* Every label but the last is the same as some key.
InnerLabelsAreKeys ==
  \A i \in 1..(Len(variant.actions) - 1) :
    i % 2 = 0 => \E j \in DOMAIN variant.actions : j % 2 = 1 /\ variant.actions[j] = variant.actions[i]

\* Nothing else is in the map.
LEMMA AssignMakesPairs ==
  ASSUME IInv, Assign
  PROVE  MapIsOfPairs'
<1>1. phase = "assign" /\ TypeOK /\ ViewsAreStable /\ variant' = variant
  BY DEF Assign, IInv
<1>2. Len(actions) = Len(variant.actions) /\ Len(actions) \in Nat
  <2>1. ReadSoFar
    BY <1>1, Reached DEF IInv
  <2>2. actions \in Seq(Views)
    BY <1>1 DEF TypeOK
  <2>3. QED
    BY <1>1, <2>1, <2>2, LenProperties DEF ReadSoFar, Rank
<1>3. \A j \in 1..Len(actions) : Shown(actions[j]) = variant.actions[j]
  <2>1. actions \in Seq(Views)
    BY <1>1 DEF TypeOK
  <2>2. DOMAIN actions = 1..Len(actions)
    BY <2>1, LenProperties
  <2>3. QED
    BY <1>1, <2>2 DEF ViewsAreStable, Holds
<1>4. DOMAIN m_actions' = ActionKeys(Len(actions) - 1)
  BY DEF Assign
<1>5. \A j \in 1..(Len(actions) - 1) : j \in 1..Len(actions)
  BY <1>2
<1>6. DOMAIN m_actions' = {variant'.actions[i] : i \in 1..(Len(variant'.actions) - 1)}
  BY <1>1, <1>2, <1>3, <1>4, <1>5 DEF ActionKeys
<1>7. ASSUME NEW i \in 1..(Len(variant.actions) - 1),
             \A j \in 1..(i - 1) : variant.actions[j] # variant.actions[i]
      PROVE  m_actions'[variant.actions[i]] = variant.actions[i + 1]
  BY <1>7, AssignFindsPairs
<1>8. QED
  BY <1>1, <1>6, <1>7 DEF MapIsOfPairs

-----------------------------------------------------------------------------
(* The theorems                                                            *)

LEMMA InitIInv == Init => IInv
<1> SUFFICES ASSUME Init PROVE IInv
  OBVIOUS
<1> USE DEF Init
<1>1. TypeOK
  <2>1. phase \in DOMAIN After
    BY DEF After
  <2>2. m_buffer \in Seq(Nat) /\ actions \in Seq(Views)
    BY EmptySeq
  <2>3. views \in [DOMAIN views -> Views] /\ DOMAIN views = {}
    OBVIOUS
  <2>4. it \in 0..Len(Children)
    BY PlaceFacts
  <2>5. variant \in Variants /\ urgency \in 0..255
    OBVIOUS
  <2>6. m_replaces_id \in Nat /\ m_id \in Nat /\ m_expire_timeout \in Int
    OBVIOUS
  <2> HIDE DEF Init
  <2>7. QED
    BY <2>1, <2>2, <2>3, <2>4, <2>5, <2>6 DEF TypeOK
<1>2. ViewsAreStable
  BY DEF ViewsAreStable
<1>3. Len(actions) = 0 /\ Len(variant.actions) \in Nat
  BY VariantFacts, EmptySeq
<1>4. ReadSoFar
  <2>1. phase \in Statements /\ it = Place[phase] /\ Rank[phase] = 1
    BY DEF Statements, Rank, Place
  <2>2. \A x \in Strings : Rank[x] \in 1..12
    BY RankFacts DEF Strings
  <2>3. DOMAIN views = {x \in Strings : Rank[x] < Rank[phase]}
    BY <2>1, <2>2
  <2>4. QED
    BY <2>1, <2>3, <1>3 DEF ReadSoFar
<1>5. StoppedEarly
  BY DEF StoppedEarly
<1>6. QED
  BY <1>1, <1>2, <1>4, <1>5 DEF IInv, Progress

\* The invariant holds in every reachable state, in both builds.
THEOREM Inductive == Spec => []IInv
<1>1. IInv /\ [Next]_vars => IInv'
  <2> SUFFICES ASSUME IInv, [Next]_vars PROVE IInv'
    OBVIOUS
  <2>1. CASE UNCHANGED vars
    <3>1. TypeOK' /\ ViewsAreStable'
      BY <2>1, ViewsKept DEF IInv, TypeOK, vars, members
    <3>2. Progress'
      BY <2>1 DEF IInv, Progress, ReadSoFar, StoppedEarly, Strings, vars, members
    <3>3. QED
      BY <3>1, <3>2 DEF IInv
  <2>2. CASE Next
    BY <2>2, ReadStringChildIInv, ReadReplacesIdIInv, ReadActionIInv, ReadActionsEndIInv,
       ReadStringHintIInv, ReadExpireTimeoutIInv DEF Next
  <2>3. QED
    BY <2>1, <2>2
<1>2. QED
  BY InitIInv, <1>1, PTL DEF Spec

\* The variables keep their types.
THEOREM TypeCorrect == Spec => []TypeOK
<1>1. IInv => TypeOK
  BY DEF IInv
<1>2. QED
  BY <1>1, Inductive, PTL

\* No string is lost or cut short by the strings read after it.
THEOREM StableViews == Spec => []ViewsAreStable
<1>1. IInv => ViewsAreStable
  BY DEF IInv
<1>2. QED
  BY <1>1, Inductive, PTL

\* from_variant returns with all children read into their members.
THEOREM AllFieldsRead == Spec => []FieldsAreRead
<1>1. IInv => FieldsAreRead
  <2> SUFFICES ASSUME IInv, phase = "done" PROVE FieldsAreRead
    BY DEF FieldsAreRead
  <2>1. ReadSoFar
    BY DEF IInv, Progress, StoppedEarly
  <2>2. Rank[phase] = 12 /\ Place[phase] = 8
    BY DEF Rank, Place
  <2>3. \A x \in Strings : Rank[x] < 12
    BY DEF Strings, StringChildren, StringHints, Rank
  <2>4. DOMAIN views = Strings
    BY <2>1, <2>2, <2>3 DEF ReadSoFar
  <2>5. QED
    BY <2>1, <2>2, <2>4, PlaceFacts DEF FieldsAreRead, ReadSoFar, Strings
<1>2. QED
  BY <1>1, Inductive, PTL

\* The map is the pairs of texts that follow each other, the first of the pairs
\* that begin alike: for any array, and whatever is repeated in it.
THEOREM MapHasPairs == Spec => []MapIsOfPairs
<1>1. Init => MapIsOfPairs
  BY DEF Init, MapIsOfPairs
<1>2. IInv /\ MapIsOfPairs /\ [Next]_vars => MapIsOfPairs'
  <2> SUFFICES ASSUME IInv, MapIsOfPairs, [Next]_vars PROVE MapIsOfPairs'
    OBVIOUS
  <2>1. CASE Assign
    BY <2>1, AssignMakesPairs
  <2>2. CASE UNCHANGED vars
    BY <2>2 DEF vars, members, MapIsOfPairs
  <2>3. CASE Next /\ ~Assign
    <3>1. phase' # "done"
      BY <2>3 DEF Next, ReadStringChild, ReadReplacesId, ReadAction, ReadActionsEnd, ReadUrgency,
                  ReadStringHint, ReadExpireTimeout, After, StringChildren, StringHints
    <3>2. QED
      BY <3>1 DEF MapIsOfPairs
  <2>4. QED
    BY <2>1, <2>2, <2>3
<1>3. QED
  BY <1>1, <1>2, Inductive, PTL DEF Spec

\* A key finds its label, whatever the other keys and labels are: the loop that
\* takes labels for keys as well does no harm to that.
THEOREM KeysFindLabels == Spec => []KeysFindTheirLabels
<1>1. IInv /\ MapIsOfPairs => KeysFindTheirLabels
  BY DEF MapIsOfPairs, KeysFindTheirLabels
<1>2. QED
  BY <1>1, Inductive, MapHasPairs, PTL

\* Only keys find something just when every label that is not the last is the
\* same as some key.
THEOREM OnlyKeysWhen ==
  Spec => [](phase = "done" => (OnlyKeysAreActions <=> InnerLabelsAreKeys))
<1>1. IInv /\ MapIsOfPairs => (phase = "done" => (OnlyKeysAreActions <=> InnerLabelsAreKeys))
  <2> SUFFICES ASSUME IInv, MapIsOfPairs, phase = "done"
               PROVE  OnlyKeysAreActions <=> InnerLabelsAreKeys
    OBVIOUS
  <2>1. /\ Len(variant.actions) \in Nat
        /\ DOMAIN variant.actions = 1..Len(variant.actions)
    BY VariantFacts, LenProperties DEF IInv, TypeOK
  <2>2. DOMAIN m_actions = {variant.actions[i] : i \in 1..(Len(variant.actions) - 1)}
    BY DEF MapIsOfPairs
  <2>3. \A i \in 1..(Len(variant.actions) - 1) :
          i \in DOMAIN variant.actions /\ (i % 2 = 0 \/ i % 2 = 1)
    BY <2>1
  <2>4. OnlyKeysAreActions => InnerLabelsAreKeys
    BY <2>2 DEF OnlyKeysAreActions, InnerLabelsAreKeys
  <2>5. InnerLabelsAreKeys => OnlyKeysAreActions
    BY <2>2, <2>3 DEF OnlyKeysAreActions, InnerLabelsAreKeys
  <2>6. QED
    BY <2>4, <2>5
<1>2. QED
  BY <1>1, Inductive, MapHasPairs, PTL

\* One action with its label is right: the calls the tests make.
THEOREM OneActionIsRight == Spec => [](Len(variant.actions) <= 2 => OnlyKeysAreActions)
<1>1. IInv /\ (phase = "done" => (OnlyKeysAreActions <=> InnerLabelsAreKeys))
        => (Len(variant.actions) <= 2 => OnlyKeysAreActions)
  <2>1. ASSUME IInv, Len(variant.actions) <= 2 PROVE InnerLabelsAreKeys
    <3>1. Len(variant.actions) \in Nat
      BY <2>1, VariantFacts DEF IInv, TypeOK
    <3>2. \A i \in 1..(Len(variant.actions) - 1) : i % 2 = 1
      BY <2>1, <3>1
    <3>3. QED
      BY <3>2 DEF InnerLabelsAreKeys
  <2>2. QED
    BY <2>1 DEF OnlyKeysAreActions
<1>2. QED
  BY <1>1, Inductive, OnlyKeysWhen, PTL

\* With g_assert every string is read from a child that is one.
THEOREM DebugReadsAreDefined == G_ASSERT => (Spec => []ReadsAreDefined)
<1> SUFFICES ASSUME G_ASSERT PROVE Spec => []ReadsAreDefined
  OBVIOUS
<1>1. IInv => ReadsAreDefined
  BY DEF IInv, Progress, ReadSoFar, Statements, Rank, ReadsAreDefined
<1>2. QED
  BY <1>1, Inductive, PTL

\* Without g_assert from_variant never returns with the members read: it gets
\* no further than the icon.
THEOREM ReleaseStopsEarly == ~G_ASSERT => (Spec => [](phase # "done"))
<1> SUFFICES ASSUME ~G_ASSERT PROVE Spec => [](phase # "done")
  OBVIOUS
<1>1. IInv => phase # "done"
  BY DEF IInv, Progress, StoppedEarly
<1>2. QED
  BY <1>1, Inductive, PTL

=============================================================================
