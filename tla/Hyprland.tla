------------------------------ MODULE Hyprland ------------------------------
(***************************************************************************)
(* The compositor, as vin sees it through its two sockets.  It is not part *)
(* of the repository: this module says what hyprland_event_listener.cpp    *)
(* and hyprland_workspace_list_model.cpp take for granted about it.        *)
(*                                                                         *)
(*   .socket2.sock  one line per change, in the order of the changes, to   *)
(*                  the clients connected when the change happens: `wire'. *)
(*   .socket.sock   answers j/workspaces and j/activeworkspace with the    *)
(*                  state at the moment of the answer: `exists', `focused'.*)
(***************************************************************************)
EXTENDS Integers, Sequences, FiniteSets

CONSTANTS
  Ids,        \* workspace ids; the special workspaces have the negative ones
  OtherLines, \* names of the lines that are not about workspaces
  MaxEvents   \* bound: how many lines the compositor emits in a behaviour

\* Zero is no workspace id: the members of a fresh GObject are zero, and
\* parse_workspace_id returns zero when there is no number to parse.
ASSUME IdsAssumption == Ids \subseteq Int \ {0} /\ IsFiniteSet(Ids)
ASSUME OtherLinesAssumption == OtherLines \subseteq {"openwindow", "workspace"}
ASSUME MaxEventsAssumption == MaxEvents \in Nat

VARIABLES
  exists,     \* the workspaces there are
  focused,    \* the active workspace, always a normal one
  shown,      \* the special workspace on display, or None
  subscribed, \* vin is connected to .socket2.sock
  wire,       \* lines written to that connection and not yet read
  emitted     \* number of lines emitted, for MaxEvents

hyprlandVars == <<exists, focused, shown, subscribed, wire, emitted>>

None == 0

Special == {w \in Ids : w < 0}
Normal  == {w \in Ids : w > 0}

\* A line names a workspace that suits the event.
Events ==
  [name : {"createworkspacev2", "destroyworkspacev2", "moveworkspacev2"}, id : Ids]
    \cup [name : {"workspacev2"}, id : Normal]
    \cup [name : {"activespecialv2"}, id : Special \cup {None}]
    \cup [name : OtherLines, id : {None}]

HyprlandTypeOK ==
  /\ exists \subseteq Ids
  /\ focused \in exists \cap Normal
  /\ shown \in (exists \cap Special) \cup {None}
  /\ subscribed \in BOOLEAN
  /\ wire \in Seq(Events)
  /\ emitted \in 0..MaxEvents

\* vin may start in any state of the compositor.
HyprlandInit ==
  /\ exists \in SUBSET Ids
  /\ focused \in exists \cap Normal
  /\ shown \in (exists \cap Special) \cup {None}
  /\ subscribed = FALSE
  /\ wire = <<>>
  /\ emitted = 0

\* One line on .socket2.sock; nobody keeps it for a client that connects later.
Emit(name, id) ==
  /\ emitted < MaxEvents
  /\ emitted' = emitted + 1
  /\ wire' = IF subscribed THEN Append(wire, [name |-> name, id |-> id]) ELSE wire
  /\ UNCHANGED subscribed

CreateWorkspace(w) ==
  /\ w \notin exists
  /\ exists' = exists \cup {w}
  /\ Emit("createworkspacev2", w)
  /\ UNCHANGED <<focused, shown>>

DestroyWorkspace(w) ==
  /\ w \in exists \ {focused, shown}
  /\ exists' = exists \ {w}
  /\ Emit("destroyworkspacev2", w)
  /\ UNCHANGED <<focused, shown>>

\* The workspace goes to another monitor and still exists.
MoveWorkspace(w) ==
  /\ w \in exists
  /\ Emit("moveworkspacev2", w)
  /\ UNCHANGED <<exists, focused, shown>>

FocusWorkspace(w) ==
  /\ w \in (exists \cap Normal) \ {focused}
  /\ focused' = w
  /\ Emit("workspacev2", w)
  /\ UNCHANGED <<exists, shown>>

\* The line that hides the special workspace carries no id: activespecialv2>>,,MON.
ShowSpecial(w) ==
  /\ w \in ((exists \cap Special) \cup {None}) \ {shown}
  /\ shown' = w
  /\ Emit("activespecialv2", w)
  /\ UNCHANGED <<exists, focused>>

\* A line the listener knows and the list model does not use, or one that
\* the listener does not know.
OtherLine(name) ==
  /\ Emit(name, None)
  /\ UNCHANGED <<exists, focused, shown>>

HyprlandStep ==
  \/ \E w \in Ids : CreateWorkspace(w)
  \/ \E w \in Ids : DestroyWorkspace(w)
  \/ \E w \in Ids : MoveWorkspace(w)
  \/ \E w \in Ids : FocusWorkspace(w)
  \/ \E w \in Ids \cup {None} : ShowSpecial(w)
  \/ \E name \in OtherLines : OtherLine(name)

=============================================================================
