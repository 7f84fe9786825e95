------------------------------- MODULE Config -------------------------------
(***************************************************************************)
(* The two files of the user, config.lua and main.css: who edits them, the *)
(* monitors that the worker thread registers and listens to, and           *)
(* load_config, which runs the config against the window's function.       *)
(*                                                                         *)
(* A config is whether it can be loaded, and the calls it makes, one after *)
(* the other, to the functions of the table vin.  What a style says is not *)
(* looked into.                                                            *)
(***************************************************************************)
EXTENDS Window

CONSTANTS
  Configs,   \* contents of config.lua: whether it loads, and its calls
  Styles,    \* contents of main.css
  NoTable,   \* of a call to window without modules
  NotRead,   \* of a file that was not read yet
  MaxEdits   \* bound: how often the files are written

Files == {"config", "css"}

Calls ==
  [function : {"window"}, table : Tables \cup {NoTable}, position : Arguments]
    \cup [function : {"time_module", "notification_module", "error", "endless"}]

ASSUME ConfigsAssumption == Configs \subseteq [loads : BOOLEAN, calls : Seq(Calls)]
ASSUME MaxEditsAssumption == MaxEdits \in Nat

VARIABLES
  file,       \* the contents of the files
  edits,
  monitored,  \* the files that have a monitor
  events,     \* the worker's queue: the events of the monitors
  posted,     \* the main thread's queue: the signals to be emitted
  load,       \* how far load_config is
  calls,      \* the calls the running config has still to make
  read,       \* history: for each file the contents that were read last
  silent      \* history: the files that were last written without an event to follow

configVars == <<file, edits, monitored, events, posted, load, calls, read, silent>>

Contents(f) == IF f = "config" THEN Configs ELSE Styles

ConfigTypeOK ==
  /\ \A f \in Files : file[f] \in Contents(f) /\ read[f] \in Contents(f) \cup {NotRead}
  /\ edits \in 0..MaxEdits
  /\ monitored \subseteq Files
  /\ events \in Seq([file : Files, changed : BOOLEAN])
  /\ posted \in Seq(Files)
  /\ load \in {"idle", "running", "ok", "error", "undefined"}
  /\ calls \in Seq(Calls)
  /\ silent \subseteq Files

ConfigInit ==
  /\ file \in {[config |-> c, css |-> s] : c \in Configs, s \in Styles}
  /\ edits = 0
  /\ monitored = {}
  /\ events = <<>>
  /\ posted = <<>>
  /\ load = "idle"
  /\ calls = <<>>
  /\ read = [f \in Files |-> NotRead]
  /\ silent = {}

-----------------------------------------------------------------------------
(* The files and their monitors                                            *)

\* The user writes a file.  A monitor tells, as CHANGED when the file was
\* written in place, otherwise, as when it was replaced by another, not so.
Edit(f, content, inPlace) ==
  /\ edits < MaxEdits
  /\ content # file[f]
  /\ file' = [file EXCEPT ![f] = content]
  /\ edits' = edits + 1
  /\ events' = IF f \in monitored THEN Append(events, [file |-> f, changed |-> inPlace]) ELSE events
  /\ silent' = IF f \in monitored /\ inPlace THEN silent \ {f} ELSE silent \cup {f}
  /\ UNCHANGED <<monitored, posted, load, calls, read>>

\* monitor_css, monitor_config: it fails, or the events come from now on.
Monitor(f) ==
  /\ \/ monitored' = monitored \cup {f}
     \/ UNCHANGED monitored
  /\ UNCHANGED <<file, edits, events, posted, load, calls, read, silent>>

\* Mutant: a signal is posted only if none waits, of the other file either.
Mutant_OnFileEvent ==
  /\ events # <<>>
  /\ events' = Tail(events)
  /\ posted' = IF Head(events).changed /\ posted = <<>> THEN Append(posted, Head(events).file) ELSE posted
  /\ UNCHANGED <<file, edits, monitored, load, calls, read, silent>>

\* on_css_changed, on_config_changed: the worker posts the signal, for a
\* CHANGED and for nothing else.
OnFileEvent ==
  /\ events # <<>>
  /\ events' = Tail(events)
  /\ posted' = IF Head(events).changed THEN Append(posted, Head(events).file) ELSE posted
  /\ UNCHANGED <<file, edits, monitored, load, calls, read, silent>>

Read(f) ==
  /\ read' = [read EXCEPT ![f] = file[f]]
  /\ silent' = silent \ {f}

-----------------------------------------------------------------------------
(* load_config                                                             *)

\* luaL_loadfile: what cannot be loaded is not run.
LoadConfig ==
  /\ Read("config")
  /\ IF file["config"].loads
     THEN load' = "running" /\ calls' = file["config"].calls
     ELSE load' = "error"   /\ calls' = <<>>
  /\ UNCHANGED <<file, edits, monitored, events>>

\* One step of lua_pcall on the config.
Run(status, rest) ==
  /\ load = "running"
  /\ load' = status
  /\ calls' = rest
  /\ UNCHANGED <<file, edits, monitored, events, posted, read, silent>>

Calling(function) == Idle /\ calls # <<>> /\ Head(calls).function = function

CallWindow ==
  /\ Calling("window")
  /\ IF Head(calls).table # NoTable
     THEN VinWindow(Head(calls).table, Head(calls).position)
     ELSE VinWindowWithoutModules(Head(calls).position)
  /\ Run("running", Tail(calls))

\* The function of a module.  A function that is not in the table is nil, and
\* calling it an error; one that is there after its module is gone has a
\* pointer to a widget that was freed.
ModuleWith(function) == IF function = "time_module" THEN time ELSE notification

CallModule(function) ==
  /\ Calling(function)
  /\ \/ function \notin vin /\ Run("error", <<>>)
     \/ function \in vin /\ m_modules[ModuleWith(function)] = NoEntry /\ Run("undefined", <<>>)
     \/ function \in vin /\ m_modules[ModuleWith(function)] # NoEntry /\ Run("running", Tail(calls))
  /\ UNCHANGED windowVars

\* Any other error: of the language, or of the arguments.
CallFails ==
  /\ Calling("error")
  /\ Run("error", <<>>)
  /\ UNCHANGED windowVars

\* A loop that does not end: the config stays where it is, and the main thread
\* with it, since the timeout source of load_config is attached to no context.
Endless == Idle /\ load = "running" /\ calls # <<>> /\ Head(calls).function = "endless"

\* lua_pcall returns with the error that vin_window raised, or at the end.
WindowRuns   == (WindowStep \/ Return) /\ Run("running", calls)
WindowRaises == Raise /\ Run("error", <<>>)
EndOfConfig  == Idle /\ calls = <<>> /\ Run("ok", <<>>) /\ UNCHANGED windowVars

LoadStep ==
  \/ CallWindow
  \/ \E function \in {"time_module", "notification_module"} : CallModule(function)
  \/ CallFails
  \/ WindowRuns
  \/ WindowRaises
  \/ EndOfConfig

=============================================================================
