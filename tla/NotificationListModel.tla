----------------------- MODULE NotificationListModel -----------------------
(***************************************************************************)
(* The notifications in the popup window, on the main thread: the list     *)
(* model, and the part of the window that shows, hides and removes.        *)
(*                                                                         *)
(* `rows' is what the window's list view holds; it changes by what         *)
(* items_changed tells it.  A notification that is removed lives on while  *)
(* the view's widgets hold it, and the window is hidden from the weak      *)
(* reference's callback when it dies: `condemned' is those notifications.  *)
(***************************************************************************)
EXTENDS NotificationServer

CONSTANT IdSpace  \* ids are counted modulo this: 2^32 for a guint32

ASSUME IdSpaceAssumption == IdSpace \in Nat \ {0}

VARIABLES
  m_notifications, \* the notifications, each the call it came with and its id
  s_next_id,
  visible,         \* the window is presented
  rows,
  condemned,
  assigned,        \* history: how many ids were counted
  strayShown       \* history: the window was presented for a call that adds nothing

listVars == <<m_notifications, s_next_id, visible, rows, condemned, assigned, strayShown>>

vars == <<serverVars, listVars>>

Notifications == [call : 1..MaxCalls, id : Nat]

ListTypeOK ==
  /\ m_notifications \in Seq(Notifications)
  /\ s_next_id \in 0..(IdSpace - 1)
  /\ visible \in BOOLEAN
  /\ rows \in Seq(Notifications)
  /\ condemned \subseteq Notifications
  /\ assigned \in Nat
  /\ strayShown \in BOOLEAN

ListInit ==
  /\ m_notifications = <<>>
  /\ s_next_id = 0
  /\ visible = FALSE
  /\ rows = <<>>
  /\ condemned = {}
  /\ assigned = 0
  /\ strayShown = FALSE

\* std::ranges::lower_bound by id: the first place, halving the range.
LowerBound(list, id) ==
  LET Ranges == {r \in (1..Len(list) + 1) \X (0..Len(list)) : r[1] + r[2] <= Len(list) + 1}
      search[r \in Ranges] ==
        LET first  == r[1]
            len    == r[2]
            middle == first + len \div 2
        IN  IF len = 0 THEN first
            ELSE IF list[middle].id < id
            THEN search[<<middle + 1, len - len \div 2 - 1>>]
            ELSE search[<<first, len \div 2>>]
  IN  search[<<1, Len(list)>>]

\* Mutant: the newest notification comes first.
AddInFront(c) ==
  LET id == (s_next_id + 1) % IdSpace
      n  == [call |-> c, id |-> id]
  IN  /\ s_next_id' = id
      /\ assigned' = assigned + 1
      /\ m_notifications' = <<n>> \o m_notifications
      /\ rows' = <<n>> \o rows
      /\ Answer(c, id)

\* Mutant: items_changed names the place behind the new notification's.
AddAnnouncedInFront(c) ==
  LET id == (s_next_id + 1) % IdSpace
      n  == [call |-> c, id |-> id]
  IN  /\ s_next_id' = id
      /\ assigned' = assigned + 1
      /\ m_notifications' = Append(m_notifications, n)
      /\ rows' = <<n>> \o rows
      /\ Answer(c, id)

Add(c) ==
  LET id == (s_next_id + 1) % IdSpace
      n  == [call |-> c, id |-> id]
  IN  /\ s_next_id' = id
      /\ assigned' = assigned + 1
      /\ m_notifications' = Append(m_notifications, n)
      /\ rows' = Append(rows, n)
      /\ Answer(c, id)

\* Mutant: whatever lower_bound found is replaced.
ReplaceUnchecked(c, replaces) ==
  LET pos == LowerBound(m_notifications, replaces)
  IN  /\ m_notifications' =
           IF pos \in DOMAIN m_notifications
           THEN [m_notifications EXCEPT ![pos] = [call |-> c, id |-> replaces]]
           ELSE m_notifications
      /\ Answer(c, replaces)
      /\ UNCHANGED <<s_next_id, assigned, rows>>

\* items_changed(pos, 0, 0) removes and adds nothing: the row keeps the
\* notification that was replaced.  The answer is the id the client asked for,
\* found or not.
Replace(c, replaces) ==
  LET pos == LowerBound(m_notifications, replaces)
  IN  /\ m_notifications' =
           IF pos \in DOMAIN m_notifications /\ m_notifications[pos].id = replaces
           THEN [m_notifications EXCEPT ![pos] = [call |-> c, id |-> replaces]]
           ELSE m_notifications
      /\ Answer(c, replaces)
      /\ UNCHANGED <<s_next_id, assigned, rows>>

\* Mutant: the window is not presented for the first notification.
OnNewNotificationNeverShows(c) ==
  /\ UNCHANGED <<visible, strayShown>>
  /\ IF calls[c].replaces = 0 THEN Add(c) ELSE Replace(c, calls[c].replaces)
  /\ UNCHANGED condemned

\* The signal not-empty comes first, whatever becomes of the notification.
OnNewNotification(c) ==
  /\ visible' = (visible \/ m_notifications = <<>>)
  /\ strayShown' = (strayShown \/ (m_notifications = <<>> /\ calls[c].replaces # 0))
  /\ IF calls[c].replaces = 0 THEN Add(c) ELSE Replace(c, calls[c].replaces)
  /\ UNCHANGED condemned

\* The closure of command_notify: the signal, then the answer.
DispatchNotify ==
  /\ queue # <<>>
  /\ queue' = Tail(queue)
  /\ OnNewNotification(Head(queue))
  /\ UNCHANGED <<name, memberVars, calls, received>>

Without(s, pos) == SubSeq(s, 1, pos - 1) \o SubSeq(s, pos + 1, Len(s))

\* A click on a row: on_activate, which calls remove.
OnActivate(pos) ==
  /\ condemned' = condemned \cup {m_notifications[pos]}
  /\ m_notifications' = Without(m_notifications, pos)
  /\ rows' = Without(rows, pos)
  /\ UNCHANGED <<s_next_id, visible, assigned, strayShown>>

\* Mutant: the window is hidden whenever a notification dies.
DisposeNotifyAlways(n) ==
  /\ condemned' = condemned \ {n}
  /\ visible' = FALSE
  /\ strayShown' = FALSE
  /\ UNCHANGED <<m_notifications, s_next_id, rows, assigned>>

\* Mutant: the window is hidden when the last but one dies.
DisposeNotifyAtOne(n) ==
  /\ condemned' = condemned \ {n}
  /\ visible' = (visible /\ Len(m_notifications) # 1)
  /\ UNCHANGED <<m_notifications, s_next_id, rows, assigned, strayShown>>

\* The last reference to a removed notification goes, at once or later: the
\* window is hidden if the list is empty by then.
DisposeNotify(n) ==
  /\ condemned' = condemned \ {n}
  /\ visible' = (visible /\ m_notifications # <<>>)
  /\ strayShown' = (strayShown /\ m_notifications # <<>>)
  /\ UNCHANGED <<m_notifications, s_next_id, rows, assigned>>

=============================================================================
