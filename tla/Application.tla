---------------------------- MODULE Application ----------------------------
(***************************************************************************)
(* The life of the program: startup, the worker thread that watches the    *)
(* user's files, the activation that opens the window and loads the        *)
(* config, reloads, and what other invocations of the program ask of it.   *)
(*                                                                         *)
(* An invocation sends an activation and then the action of its option, if *)
(* any.  The first one is the program itself, which does both before its   *)
(* loop runs; those of the others arrive as messages, in order for each.   *)
(***************************************************************************)
EXTENDS Config

CONSTANTS
  Clients,   \* bound: the invocations, 1 the program itself
  G_ASSERT   \* whether the build evaluates g_assert's operand

ASSUME GAssertAssumption == G_ASSERT \in BOOLEAN
ASSUME ClientsAssumption == Clients \subseteq Nat /\ 1 \in Clients

VARIABLES
  main,           \* where the main thread is
  worker,         \* where the worker thread is
  window,         \* get_active_window, and whether it is visible
  opened,         \* the application has had a window
  m_exit_status,
  requests        \* for each invocation what it still asks for

appVars == <<main, worker, window, opened, m_exit_status, requests>>
vars == <<windowVars, configVars, appVars>>

Options == {<<"activate">>, <<"activate", "toggle">>, <<"activate", "quit">>}

\* Every variable has its type.
ApplicationTypeOK ==
  /\ TypeOK
  /\ ConfigTypeOK
  /\ main \in {"startup", "style", "ready", "activating", "reloading",
               "exited", "aborted", "undefined"}
  /\ worker \in {"off", "css", "config", "loop"}
  /\ window \in {"none", "hidden", "shown"}
  /\ opened \in BOOLEAN
  /\ m_exit_status \in 0..1
  /\ requests \in [Clients -> Seq({"activate", "toggle", "quit"})]

ApplicationInit ==
  /\ main = "startup"
  /\ worker = "off"
  /\ window = "none"
  /\ opened = FALSE
  /\ m_exit_status = 0
  /\ requests \in [Clients -> Options]

Init == WindowInit /\ ConfigInit /\ ApplicationInit

-----------------------------------------------------------------------------
(* The worker thread                                                       *)

WorkerMonitors ==
  /\ \/ worker = "css"    /\ worker' = "config" /\ Monitor("css")
     \/ worker = "config" /\ worker' = "loop"   /\ Monitor("config")
  /\ UNCHANGED <<windowVars, main, window, opened, m_exit_status, requests>>

WorkerListens == worker = "loop" /\ OnFileEvent /\ UNCHANGED <<windowVars, appVars>>

-----------------------------------------------------------------------------
(* The main thread                                                         *)

\* Mutant: the status of a program that failed to start is out of range.
Mutant_Startup ==
  /\ main = "startup"
  /\ \/ main' = "style" /\ worker' = "css" /\ UNCHANGED m_exit_status
     \/ main' = "ready" /\ m_exit_status' = m_exit_status - 1 /\ UNCHANGED worker
  /\ UNCHANGED <<windowVars, configVars, window, opened, requests>>

\* on_startup up to the worker thread's start; without a home there is no
\* config, and the program ends.
Startup ==
  /\ main = "startup"
  /\ \/ main' = "style" /\ worker' = "css" /\ UNCHANGED m_exit_status
     \/ main' = "ready" /\ m_exit_status' = 1 /\ UNCHANGED worker
  /\ UNCHANGED <<windowVars, configVars, window, opened, requests>>

\* The end of on_startup: the style is loaded.
LoadStyle ==
  /\ main = "style"
  /\ main' = "ready"
  /\ Read("css")
  /\ UNCHANGED <<windowVars, file, edits, monitored, events, posted, load, calls,
                 worker, window, opened, m_exit_status, requests>>

\* The next request of an invocation; the program's own come first.
Asks(c, request) ==
  /\ main = "ready"
  /\ c # 1 => requests[1] = <<>>
  /\ requests[c] # <<>>
  /\ Head(requests[c]) = request
  /\ requests' = [requests EXCEPT ![c] = Tail(@)]

\* Mutant: the table of the window that was closed is kept.
Mutant_OnActivate(c) ==
  /\ Asks(c, "activate")
  /\ IF m_exit_status > 0 \/ window # "none"
     THEN UNCHANGED <<windowVars, configVars, main, window, opened>>
     ELSE /\ m_modules' = [m \in Modules |-> NoEntry]
          /\ m_boxes' = [l \in Locations |-> <<>>]
          /\ UNCHANGED <<anchored, oriented, vin, call, list, next, do_not_remove, argument, kept>>
          /\ LoadConfig
          /\ UNCHANGED posted
          /\ main' = "activating"
          /\ window' = "hidden"
          /\ opened' = TRUE
  /\ UNCHANGED <<worker, m_exit_status>>

\* on_activate: a new window, a new Lua state that has its function, and
\* load_config, which the steps of LoadStep bring to its end.
OnActivate(c) ==
  /\ Asks(c, "activate")
  /\ IF m_exit_status > 0 \/ window # "none"
     THEN UNCHANGED <<windowVars, configVars, main, window, opened>>
     ELSE /\ NewWindow
          /\ LoadConfig
          /\ UNCHANGED posted
          /\ main' = "activating"
          /\ window' = "hidden"
          /\ opened' = TRUE
  /\ UNCHANGED <<worker, m_exit_status>>

Loads == main \in {"activating", "reloading"} /\ LoadStep /\ UNCHANGED appVars

\* load_config has returned: on_activate presents the window if it was loaded,
\* on_config_changed says what was wrong.
Loaded ==
  /\ main \in {"activating", "reloading"}
  /\ load \in {"ok", "error", "undefined"}
  /\ load' = "idle"
  /\ main' = IF load = "undefined" THEN "undefined" ELSE "ready"
  /\ window' = IF main = "activating" /\ load = "ok" THEN "shown" ELSE window
  /\ UNCHANGED <<windowVars, file, edits, monitored, events, posted, calls, read, silent,
                 worker, opened, m_exit_status, requests>>

\* Without a window g_assert ends the program, and a build without it only
\* gets a warning from GTK.
NoWindow == main' = (IF G_ASSERT THEN "aborted" ELSE main) /\ UNCHANGED window

\* The actions are there if startup came to its end.
OnToggle(c) ==
  /\ m_exit_status = 0
  /\ Asks(c, "toggle")
  /\ IF window = "none"
     THEN NoWindow
     ELSE window' = (IF window = "shown" THEN "hidden" ELSE "shown") /\ UNCHANGED main
  /\ UNCHANGED <<windowVars, configVars, worker, opened, m_exit_status>>

OnQuit(c) ==
  /\ m_exit_status = 0
  /\ Asks(c, "quit")
  /\ IF window = "none"
     THEN NoWindow
     ELSE window' = "none" /\ UNCHANGED main
  /\ UNCHANGED <<windowVars, configVars, worker, opened, m_exit_status>>

\* The loop dispatches what the worker posted.
Dispatch(f) ==
  /\ main = "ready"
  /\ requests[1] = <<>>
  /\ posted # <<>>
  /\ Head(posted) = f
  /\ posted' = Tail(posted)

OnCssChanged ==
  /\ Dispatch("css")
  /\ Read("css")
  /\ UNCHANGED <<windowVars, file, edits, monitored, events, load, calls, appVars>>

\* Mutant: a hidden window is taken for none.
Mutant_OnConfigChangedVisible ==
  /\ Dispatch("config")
  /\ IF window # "shown"
     THEN UNCHANGED <<file, edits, monitored, events, load, calls, read, silent, main>>
     ELSE LoadConfig /\ main' = "reloading"
  /\ UNCHANGED <<windowVars, worker, window, opened, m_exit_status, requests>>

\* on_config_changed: without a window there is nothing to reload.
OnConfigChanged ==
  /\ Dispatch("config")
  /\ IF window = "none"
     THEN UNCHANGED <<file, edits, monitored, events, load, calls, read, silent, main>>
     ELSE LoadConfig /\ main' = "reloading"
  /\ UNCHANGED <<windowVars, worker, window, opened, m_exit_status, requests>>

\* Nothing holds the application any more, or it could not start.
Exit ==
  /\ main = "ready"
  /\ window = "none"
  /\ opened \/ m_exit_status > 0
  /\ main' = "exited"
  /\ UNCHANGED <<windowVars, configVars, worker, window, opened, m_exit_status, requests>>

-----------------------------------------------------------------------------

Main == Startup \/ LoadStyle \/ Loads \/ Loaded \/ OnCssChanged \/ OnConfigChanged \/ Exit

Worker == WorkerMonitors \/ WorkerListens

Users ==
  \/ \E c \in Clients : OnActivate(c) \/ OnToggle(c) \/ OnQuit(c)
  \/ /\ \E f \in Files : \E content \in Contents(f), inPlace \in BOOLEAN : Edit(f, content, inPlace)
     /\ UNCHANGED <<windowVars, appVars>>

Running == main \notin {"exited", "aborted", "undefined"}

Next == Running /\ (Main \/ Worker \/ Users)

Spec == Init /\ [][Next]_vars

\* Both loops iterate while a source of theirs is ready.  The program's own
\* requests are not waited for: it makes them before its loop.
FairSpec ==
  /\ Spec
  /\ WF_vars(Running /\ Main)
  /\ WF_vars(Running /\ Worker)
  /\ WF_vars(Running /\ (OnActivate(1) \/ OnToggle(1) \/ OnQuit(1)))

-----------------------------------------------------------------------------
(* Properties                                                              *)

\* A file that is not as it was read last will be read: an event of it is on
\* its way, or it is read before anything is done with it.  But for a change
\* that no CHANGED tells: one made before the monitor was there, although
\* the file had been read, or in another way than by writing in place.
ChangesArePending ==
  \A f \in Files :
    read[f] # file[f] =>
      \/ f \in silent
      \/ \E i \in DOMAIN events : events[i] = [file |-> f, changed |-> TRUE]
      \/ \E i \in DOMAIN posted : posted[i] = f
      \/ f = "css" /\ main \in {"startup", "style"}
      \/ f = "config" /\ window = "none"
      \/ m_exit_status > 0

\* The table of an open window has the functions of that window's modules
\* alone, also after another window was closed.
OpenWindowIsSound == window # "none" => FunctionsAreLive /\ BoxesMatchEntries

\* What the user writes takes effect: a file that stays as it is is read, and
\* the load comes to its end, unless no event told of it or nobody needs it,
\* or a config has the main thread for ever.
FilesAreFollowed ==
  \A f \in Files :
    (read[f] # file[f] /\ (f = "config" => window # "none")) ~>
      \/ read[f] = file[f] /\ (f = "config" => load \in {"ok", "error"})
      \/ f \in silent
      \/ f = "config" /\ window = "none"
      \/ Endless
      \/ ~Running
      \/ m_exit_status > 0

\* The assertions at application.cpp:210 and 218 hold: that there is a window to toggle or to
\* close.
ActionsFindAWindow == main # "aborted"

=============================================================================
