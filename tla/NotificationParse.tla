------------------------- MODULE NotificationParse -------------------------
(***************************************************************************)
(* Notification::from_variant: the eight children of a Notify call's       *)
(* parameters are read in turn.  All strings go into one buffer, which     *)
(* grows, and so moves, while they are read; until the last one is in, a   *)
(* string is known by where it starts and how long it is.                  *)
(*                                                                         *)
(* A text is a sequence of positive numbers, its characters; 0 is the      *)
(* terminator.                                                             *)
(***************************************************************************)
EXTENDS Integers, Sequences

CONSTANTS
  Texts,      \* the texts in the clients' calls
  NoHint,     \* a hint that is missing or has the wrong type
  ReplacesIds,
  Timeouts,   \* the values of expire_timeout
  Urgencies,  \* the bytes of the hint urgency
  MaxActions, \* bound: the length of the array of actions
  G_ASSERT    \* FALSE in Release and MinSizeRel, built with G_DISABLE_ASSERT

ASSUME TextsAssumption == Texts \subseteq Seq(Nat \ {0}) /\ NoHint \notin Texts
ASSUME NumbersAssumption == ReplacesIds \subseteq Nat /\ Timeouts \subseteq Int
ASSUME UrgenciesAssumption == Urgencies \subseteq 0..255 /\ NoHint \notin Urgencies
ASSUME MaxActionsAssumption == MaxActions \in Nat
ASSUME GAssertAssumption == G_ASSERT \in BOOLEAN

VARIABLES
  variant,  \* the parameters, which is_valid_type let pass
  phase,    \* the child that the next statement means to read
  it,       \* the GVariantIter: how many children it has given
  m_buffer,
  views,    \* the StringView of each string read so far
  actions,  \* and those of the array of actions
  urgency,
  m_replaces_id,
  m_id,
  m_expire_timeout,
  m_actions \* the map; defined at the end

members == <<urgency, m_replaces_id, m_id, m_expire_timeout, m_actions>>
vars == <<variant, phase, it, m_buffer, views, actions, members>>

\* The children of (susssasa{sv}i) in their order.
Children == <<"app_name", "replaces_id", "app_icon", "summary", "body", "actions", "hints",
              "expire_timeout">>

StringChildren == {"app_name", "app_icon", "summary", "body"}
StringHints    == {"category", "desktop_entry"}

Variants ==
  [app_name : Texts, replaces_id : ReplacesIds, app_icon : Texts, summary : Texts, body : Texts,
   actions : UNION {[1..n -> Texts] : n \in 0..MaxActions},
   urgency : Urgencies \cup {NoHint}, category : Texts \cup {NoHint},
   desktop_entry : Texts \cup {NoHint}, expire_timeout : Timeouts]

Views == [start : Nat, size : Nat]

NUL == 0

\* What a view shows of the buffer: std::string_view.
Shown(view) == SubSeq(m_buffer, view.start + 1, view.start + view.size)

Init ==
  /\ variant \in Variants
  /\ phase = "app_name"
  /\ it = 0
  /\ m_buffer = <<>>
  /\ views = [field \in {} |-> [start |-> 0, size |-> 0]]
  /\ actions = <<>>
  /\ urgency = 0
  /\ m_replaces_id = 0
  /\ m_id = 0
  /\ m_expire_timeout = 0
  /\ m_actions = [key \in {} |-> <<>>]

\* g_variant_iter_next and g_variant_iter_next_value.
Child == Children[it + 1]

\* Mutant: the view of a buffer before the string is in it.
ReadStringTooEarly(text) ==
  /\ m_buffer' = m_buffer \o text \o <<NUL>>
  /\ views' = [field \in DOMAIN views \cup {phase} |->
                 IF field = phase THEN [start |-> Len(m_buffer) - 1, size |-> Len(text)]
                 ELSE views[field]]

\* Mutant: the terminator is not copied.
ReadStringUnterminated(text) ==
  /\ m_buffer' = m_buffer \o text
  /\ views' = [field \in DOMAIN views \cup {phase} |->
                 IF field = phase THEN [start |-> Len(m_buffer') - Len(text), size |-> Len(text)]
                 ELSE views[field]]

\* read_string copies the text and its terminator; StringView counts back from
\* the end of the buffer.
View(text) == [start |-> Len(m_buffer') - Len(text) - 1, size |-> Len(text)]

ReadString(text) ==
  /\ m_buffer' = m_buffer \o text \o <<NUL>>
  /\ views' = [field \in DOMAIN views \cup {phase} |->
                 IF field = phase THEN View(text) ELSE views[field]]

After ==
  [app_name |-> "replaces_id", replaces_id |-> "app_icon", app_icon |-> "summary",
   summary |-> "body", body |-> "actions", urgency |-> "category", category |-> "desktop_entry",
   desktop_entry |-> "expire_timeout"]

\* A statement that reads a string takes the next child for one.  If it is
\* none, g_variant_get_string returns NULL and leaves `length', which
\* read_string never initialised.
ReadStringChild ==
  /\ phase \in StringChildren
  /\ IF Child \in StringChildren
     THEN ReadString(variant[Child]) /\ it' = it + 1 /\ phase' = After[phase]
     ELSE phase' = "undefined" /\ UNCHANGED <<it, m_buffer, views>>
  /\ UNCHANGED <<variant, actions, members>>

\* Mutant: m_id is assigned before the read.
ReadReplacesIdLate ==
  /\ phase = "replaces_id"
  /\ IF G_ASSERT THEN it' = it + 1 /\ m_replaces_id' = variant[Child]
     ELSE UNCHANGED <<it, m_replaces_id>>
  /\ m_id' = m_replaces_id
  /\ phase' = After[phase]
  /\ UNCHANGED <<variant, m_buffer, views, actions, urgency, m_expire_timeout, m_actions>>

\* The read is an operand of g_assert.
ReadReplacesId ==
  /\ phase = "replaces_id"
  /\ IF G_ASSERT THEN it' = it + 1 /\ m_replaces_id' = variant[Child]
     ELSE UNCHANGED <<it, m_replaces_id>>
  /\ m_id' = m_replaces_id'
  /\ phase' = After[phase]
  /\ UNCHANGED <<variant, m_buffer, views, actions, urgency, m_expire_timeout, m_actions>>

\* One iteration of read_string_array.
ReadAction ==
  /\ phase = "actions"
  /\ Len(actions) < Len(variant.actions)
  /\ LET text == variant.actions[Len(actions) + 1]
     IN  /\ m_buffer' = m_buffer \o text \o <<NUL>>
         /\ actions' = Append(actions, View(text))
  /\ UNCHANGED <<variant, phase, it, views, members>>

ReadActionsEnd ==
  /\ phase = "actions"
  /\ Len(actions) = Len(variant.actions)
  /\ it' = it + 1
  /\ phase' = "urgency"
  /\ UNCHANGED <<variant, m_buffer, views, actions, members>>

\* read_hints looks three hints up; the other two are strings.
ReadUrgency ==
  /\ phase = "urgency"
  /\ it' = it + 1
  /\ urgency' = IF variant.urgency = NoHint THEN 0 ELSE variant.urgency
  /\ phase' = After[phase]
  /\ UNCHANGED <<variant, m_buffer, views, actions, m_replaces_id, m_id, m_expire_timeout, m_actions>>

ReadStringHint ==
  /\ phase \in StringHints
  /\ IF variant[phase] = NoHint THEN UNCHANGED <<m_buffer, views>>
     ELSE ReadString(variant[phase])
  /\ phase' = After[phase]
  /\ UNCHANGED <<variant, it, actions, members>>

ReadExpireTimeout ==
  /\ phase = "expire_timeout"
  /\ IF G_ASSERT THEN it' = it + 1 /\ m_expire_timeout' = variant[Child]
     ELSE UNCHANGED <<it, m_expire_timeout>>
  /\ phase' = "assign"
  /\ UNCHANGED <<variant, m_buffer, views, actions, urgency, m_replaces_id, m_id, m_actions>>

ActionKeys(last) == {Shown(actions[i]) : i \in 1..last}

\* Mutant: a key that is there already gets the new value.
AssignLast ==
  /\ phase = "assign"
  /\ phase' = "done"
  /\ m_actions' =
       [key \in ActionKeys(Len(actions) - 1) |->
          LET i == CHOOSE i \in 1..(Len(actions) - 1) :
                     /\ Shown(actions[i]) = key
                     /\ \A j \in (i + 1)..(Len(actions) - 1) : Shown(actions[j]) # key
          IN  Shown(actions[i + 1])]
  /\ UNCHANGED <<variant, it, m_buffer, views, actions, urgency, m_replaces_id, m_id, m_expire_timeout>>

\* The buffer is complete.  The loop over the actions goes on by one, not by
\* two: every string but the last is a key.  try_emplace keeps the first.
Assign ==
  /\ phase = "assign"
  /\ phase' = "done"
  /\ m_actions' =
       [key \in ActionKeys(Len(actions) - 1) |->
          LET i == CHOOSE i \in 1..(Len(actions) - 1) :
                     /\ Shown(actions[i]) = key
                     /\ \A j \in 1..(i - 1) : Shown(actions[j]) # key
          IN  Shown(actions[i + 1])]
  /\ UNCHANGED <<variant, it, m_buffer, views, actions, urgency, m_replaces_id, m_id, m_expire_timeout>>

Next ==
  \/ ReadStringChild
  \/ ReadReplacesId
  \/ ReadAction
  \/ ReadActionsEnd
  \/ ReadUrgency
  \/ ReadStringHint
  \/ ReadExpireTimeout
  \/ Assign

Spec == Init /\ [][Next]_vars

-----------------------------------------------------------------------------

\* Every variable has its type.
TypeOK ==
  /\ variant \in Variants
  /\ phase \in DOMAIN After \cup {"actions", "expire_timeout", "assign", "done", "undefined"}
  /\ it \in 0..Len(Children)
  /\ m_buffer \in Seq(Nat)
  /\ DOMAIN views \subseteq StringChildren \cup StringHints
  /\ views \in [DOMAIN views -> Views]
  /\ actions \in Seq(Views)
  /\ urgency \in 0..255
  /\ m_replaces_id \in Nat
  /\ m_id \in Nat
  /\ m_expire_timeout \in Int

\* The view shows the text, and the text ends where the view ends: the getters
\* return it as a C string.
Holds(view, text) ==
  /\ view.start + view.size + 1 <= Len(m_buffer)
  /\ Shown(view) = text
  /\ m_buffer[view.start + view.size + 1] = NUL

\* Whatever is read into the buffer afterwards, a view that was taken goes on
\* to show the text it was taken of.
ViewsAreStable ==
  /\ \A field \in DOMAIN views : Holds(views[field], variant[field])
  /\ \A i \in DOMAIN actions : Holds(actions[i], variant.actions[i])

\* At the end every child was read, by the statement meant for it, and a hint
\* is there if the call has it; an urgency that is not given is zero.
FieldsAreRead ==
  phase = "done" =>
    /\ it = Len(Children)
    /\ DOMAIN views =
         StringChildren \cup {hint \in StringHints : variant[hint] # NoHint}
    /\ Len(actions) = Len(variant.actions)
    /\ m_replaces_id = variant.replaces_id
    /\ m_id = variant.replaces_id
    /\ m_expire_timeout = variant.expire_timeout
    /\ urgency = IF variant.urgency = NoHint THEN 0 ELSE variant.urgency

\* The label of an action is found by its key, if no string before the key is
\* the same: keys and labels share one map.
KeysFindTheirLabels ==
  phase = "done" =>
    \A i \in 1..(Len(variant.actions) - 1) :
      i % 2 = 1 /\ (\A j \in 1..(i - 1) : variant.actions[j] # variant.actions[i])
        => /\ variant.actions[i] \in DOMAIN m_actions
           /\ m_actions[variant.actions[i]] = variant.actions[i + 1]

\* notification.test.cpp:69 and 70: a key finds its label, a text that is no
\* key finds nothing.
OnlyKeysAreActions ==
  phase = "done" =>
    \A text \in DOMAIN m_actions :
      \E i \in DOMAIN variant.actions : i % 2 = 1 /\ variant.actions[i] = text

\* notification.test.cpp:36 to 41: the members are those of the call.  The test
\* is built with the options of the build it belongs to.
ReadsAreDefined == phase # "undefined"

=============================================================================
