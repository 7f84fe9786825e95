--------------------------- MODULE MCApplication ---------------------------
(* Configs for the application: sequences cannot be written in a cfg.      *)
EXTENDS Application

Lists(s, c) == [l \in Locations |-> CASE l = "start" -> s [] l = "center" -> c [] l = "end" -> <<>>]

MCTables == {Lists(<<1, 2>>, <<>>), Lists(<<>>, <<1>>), Lists(<<>>, <<>>)}

WindowCall(table) == [function |-> "window", table |-> table, position |-> 0]
TimeCall          == [function |-> "time_module"]
NotificationCall  == [function |-> "notification_module"]
ErrorCall         == [function |-> "error"]
EndlessCall       == [function |-> "endless"]

\* A config with both modules and their functions; one that has dropped the
\* notifications and still calls theirs; one that has dropped the time and still
\* calls its function; one that only positions and then fails; one that is
\* half written; one that has lost its modules and does not end.
MCConfigs == {
  [loads |-> TRUE,  calls |-> <<WindowCall(Lists(<<1, 2>>, <<>>)), TimeCall, NotificationCall>>],
  [loads |-> TRUE,  calls |-> <<WindowCall(Lists(<<>>, <<1>>)), TimeCall, NotificationCall>>],
  [loads |-> TRUE,  calls |-> <<WindowCall(Lists(<<>>, <<>>)), TimeCall>>],
  [loads |-> TRUE,  calls |-> <<WindowCall(NoTable), ErrorCall>>],
  [loads |-> TRUE,  calls |-> <<WindowCall(Lists(<<>>, <<>>)), EndlessCall>>],
  [loads |-> FALSE, calls |-> <<>>]}
=============================================================================
