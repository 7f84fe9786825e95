------------------------------- MODULE Layout -------------------------------
(***************************************************************************)
(* One window and every sequence of calls that configs can make to its     *)
(* function, calls that are broken off by an error among them.  The files  *)
(* the configs are read from, and the program around, are in Application.  *)
(***************************************************************************)
EXTENDS Window

Next ==
  \/ \E table \in Tables, value \in Arguments : VinWindow(table, value)
  \/ \E value \in Arguments : VinWindowWithoutModules(value)
  \/ WindowStep
  \/ Raise
  \/ Return

Spec == WindowInit /\ [][Next]_windowVars

=============================================================================
