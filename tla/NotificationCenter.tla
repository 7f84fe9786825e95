------------------------- MODULE NotificationCenter -------------------------
(***************************************************************************)
(* The clients, the worker thread that serves the bus, and the main thread *)
(* with the list, the window and the user.                                 *)
(***************************************************************************)
EXTENDS NotificationListModel

Init == ServerInit /\ ListInit

Clients  == (\E call \in Calls : ClientCalls(call)) /\ UNCHANGED listVars
Worker   == WorkerStep /\ UNCHANGED listVars
Main     == DispatchNotify
User     == (\E pos \in DOMAIN rows : OnActivate(pos)) /\ UNCHANGED serverVars
Widgets  == (\E n \in condemned : DisposeNotify(n)) /\ UNCHANGED serverVars

Next == Clients \/ Worker \/ Main \/ User \/ Widgets

Spec == Init /\ [][Next]_vars

\* Both loops iterate as long as a source of theirs is ready, GDBus delivers
\* what has arrived, and the list view lets go of the rows it has dropped.
Fairness ==
  /\ WF_vars((BusMethodCall \/ BusRejectsCall) /\ UNCHANGED listVars)
  /\ WF_vars(Main)
  /\ WF_vars(Widgets)

FairSpec == Spec /\ Fairness

-----------------------------------------------------------------------------
(* Safety                                                                  *)

\* Every variable has its type.
TypeOK == ServerTypeOK /\ ListTypeOK

\* The list is ordered by id, which lower_bound takes for granted, until the
\* counter wraps: removals and replacements leave gaps and never disorder.
ListIsSorted ==
  assigned < IdSpace =>
    \A i, j \in DOMAIN m_notifications :
      i < j => m_notifications[i].id < m_notifications[j].id

\* A call that replaces a listed notification finds that one.
ReplaceFinds ==
  assigned < IdSpace =>
    \A i \in DOMAIN m_notifications : LowerBound(m_notifications, m_notifications[i].id) = i

\* The row the user clicks stands for the notification that on_activate
\* removes, even if the row still shows the text it had before a replacement.
RowsMatch ==
  /\ Len(rows) = Len(m_notifications)
  /\ \A i \in DOMAIN rows : rows[i].id = m_notifications[i].id

\* While there is a notification the window is shown: an older one that dies
\* late does not hide it.
ShownWhileListed == m_notifications # <<>> => visible

\* A window without notifications waits for one to die, or was presented for
\* a call that replaces a notification that is gone.
EmptyWindowIsExplained ==
  m_notifications = <<>> /\ visible => condemned # {} \/ strayShown

\* No two new notifications were given the same id.
IdsAreFresh ==
  assigned < IdSpace =>
    \A c, d \in DOMAIN calls :
      /\ c # d
      /\ calls[c].replaces = 0 /\ calls[d].replaces = 0
      /\ reply[c] >= 0 /\ reply[d] >= 0
      => reply[c] # reply[d]

\* A call is answered once, by one of the two threads: a second answer would
\* use an invocation that is gone.
AnsweredOnce ==
  [][\A c \in DOMAIN calls : reply[c] # NoReply => reply'[c] = reply[c]]_vars

-----------------------------------------------------------------------------
(* The service                                                             *)

Listed == {m_notifications[i] : i \in DOMAIN m_notifications}

Service == INSTANCE NotificationService WITH listed <- Listed, given <- assigned

\* Until the counter wraps, two threads, a queue, a sorted list and a search by
\* halves are one service that deals with a call in one step: calls to Notify
\* take effect in their order, with their answers, and a replacement touches
\* the notification with its id and no other.
ImplementsService ==
  Service!Init /\ [][assigned' < IdSpace => Service!Next]_(Service!vars)

-----------------------------------------------------------------------------
(* Liveness                                                                *)

Answered(c) == c \in DOMAIN reply /\ reply[c] # NoReply

\* Every Notify that reaches the server is answered, whatever other calls come
\* with it and even if the name is lost before the main thread gets to it.
NotifyIsAnswered ==
  \A c \in 1..MaxCalls :
    (received >= c /\ calls[c].method \in {"Notify", "InvalidNotify"}) ~> Answered(c)

\* The window of an empty list is hidden in the end, but for one that was
\* presented for a call that adds nothing.
WindowHides ==
  (m_notifications = <<>>) ~> (~visible \/ m_notifications # <<>> \/ strayShown)

\* notification.hpp:236 to 242 declares CloseNotification as a method without
\* annotations, among them org.freedesktop.DBus.Method.NoReply: a client that
\* calls it waits for an answer.
EveryCallIsAnswered ==
  \A c \in 1..MaxCalls : (received >= c) ~> Answered(c)

=============================================================================
