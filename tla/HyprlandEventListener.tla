----------------------- MODULE HyprlandEventListener -----------------------
(***************************************************************************)
(* The object that turns lines of .socket2.sock into GObject signals.      *)
(* Its IO watch is attached to the worker thread's context.  The watch     *)
(* reads one line and, when it knows the event, has the main context emit  *)
(* the signal: g_main_context_invoke, called on the thread that does not   *)
(* own that context, adds an idle source to it, and the idle sources of    *)
(* one priority run in the order they were added.  `queue' is the closures *)
(* that wait for the main thread.                                          *)
(***************************************************************************)
EXTENDS Hyprland

VARIABLES queue

listenerVars == <<queue>>

\* The lines with a TRY_EMIT_EVENT; any other line is freed.
KnownEvents ==
  {"pin", "bell", "kill", "urgent", "submap", "minimized", "openlayer",
   "lockgroups", "fullscreen", "closelayer", "openwindow", "togglegroup",
   "closewindow", "workspacev2", "activelayout", "focusedmonv2",
   "movewindowv2", "screencastv2", "windowtitlev2", "moveintogroup",
   "moveoutofgroup", "configreloaded", "activewindowv2", "monitoraddedv2",
   "renameworkspace", "activespecialv2", "moveworkspacev2", "ignoregrouplock",
   "monitorremovedv2", "createworkspacev2", "destroyworkspacev2",
   "changefloatingmode"}

ListenerTypeOK == queue \in Seq(Events)

ListenerInit == queue = <<>>

\* vfunc_init, called on the main thread: connect to the socket and attach
\* the watch.  The kernel buffers the lines from the connection on.
Subscribe ==
  /\ subscribed' = TRUE
  /\ UNCHANGED <<exists, focused, shown, wire, emitted, queue>>

\* Mutant: a line read while the main thread is behind is thrown away.
ReadLineWhenIdle ==
  /\ wire # <<>>
  /\ wire' = Tail(wire)
  /\ queue' = IF Head(wire).name \in KnownEvents /\ queue = <<>>
              THEN Append(queue, Head(wire)) ELSE queue
  /\ UNCHANGED <<exists, focused, shown, subscribed, emitted>>

\* The watch's callback, on the worker thread.
ReadLine ==
  /\ wire # <<>>
  /\ wire' = Tail(wire)
  /\ queue' = IF Head(wire).name \in KnownEvents THEN Append(queue, Head(wire)) ELSE queue
  /\ UNCHANGED <<exists, focused, shown, subscribed, emitted>>

=============================================================================
