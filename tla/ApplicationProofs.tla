-------------------------- MODULE ApplicationProofs --------------------------
(***************************************************************************)
(* Proofs about Application, for all configs and styles, any number of     *)
(* invocations and edits, and both builds.                                 *)
(*                                                                         *)
(* The window's part is not proved again.  What a config that runs does to *)
(* the window is a step of Layout, and the invariant of Layout holds for a *)
(* new window as it does at the start, so it holds through every load,     *)
(* reload and window there is.                                             *)
(***************************************************************************)
EXTENDS Application, SequenceTheorems, TLAPS

L == INSTANCE LayoutProofs

-----------------------------------------------------------------------------
(* The window                                                              *)

\* What Layout assumes of its constants is what Window assumes of them.
LEMMA Assumptions ==
  /\ L!TablesAssumption /\ L!ArgumentsAssumption
  /\ L!NoEntryAssumption /\ L!NotIntegerAssumption
BY TablesAssumption, ArgumentsAssumption, NoEntryAssumption, NotIntegerAssumption
   DEF TablesAssumption, ArgumentsAssumption, NoEntryAssumption, NotIntegerAssumption,
       L!TablesAssumption, L!ArgumentsAssumption, L!NoEntryAssumption, L!NotIntegerAssumption,
       L!Locations, Locations

\* Every step of Layout keeps its invariant.
LEMMA LayoutKeeps == L!IInv /\ [L!Next]_windowVars => L!IInv'
<1>1. L!windowVars = windowVars
  BY DEF L!windowVars, windowVars
<1>2. /\ L!TypeOK /\ [L!Next]_L!windowVars => L!TypeOK'
      /\ L!TypeOK /\ L!Matched /\ [L!Next]_L!windowVars => L!Matched'
      /\ L!TypeOK /\ L!Progress /\ [L!Next]_L!windowVars => L!Progress'
      /\ L!TypeOK /\ L!Matched /\ L!Progress /\ L!Behind /\ [L!Next]_L!windowVars => L!Behind'
      /\ L!TypeOK /\ L!FunctionsAreLive /\ [L!Next]_L!windowVars => L!FunctionsAreLive'
      /\ L!TypeOK /\ L!Oriented /\ [L!Next]_L!windowVars => L!Oriented'
  BY Assumptions, L!TypeStep, L!MatchedStep, L!ProgressStep, L!BehindStep, L!FunctionsStep,
     L!OrientedStep
<1>3. QED
  BY <1>2 DEF L!IInv, windowVars, L!windowVars

\* It holds for the first window, and for every other.
LEMMA FirstWindow == WindowInit => L!IInv
<1>1. WindowInit => L!WindowInit
  BY DEF WindowInit, L!WindowInit, NewTable, L!NewTable, Modules, L!Modules, Locations, L!Locations
<1>2. L!WindowInit => L!IInv
  BY Assumptions, L!InitIInv
<1>3. QED
  BY <1>1, <1>2

LEMMA NextWindow == NewWindow => L!IInv'
<1>1. NewWindow => WindowInit'
  BY DEF NewWindow, WindowInit
<1>2. QED
  BY <1>1, FirstWindow, PTL

\* What the invariant says of the window.
LEMMA WindowFacts ==
  ASSUME L!IInv
  PROVE  TypeOK /\ FunctionsAreLive /\ BoxesMatchEntries
<1>1. TypeOK
  BY DEF L!IInv, L!TypeOK, TypeOK, L!Elements, Elements, L!Entries, Entries, L!Modules, Modules,
         L!Positions, Positions, L!Locations, Locations, L!Functions, Functions
<1>2. FunctionsAreLive
  BY DEF L!IInv, L!FunctionsAreLive, FunctionsAreLive, L!time, time, L!notification, notification
<1>3. L!BoxesMatchEntries
  BY Assumptions, L!MatchedIsBoxesMatchEntries DEF L!IInv
<1>4. BoxesMatchEntries
  BY <1>3 DEF L!BoxesMatchEntries, BoxesMatchEntries, L!Locations, Locations, L!Modules, Modules
<1>5. QED
  BY <1>1, <1>2, <1>4

\* The calls of a config are the calls that Layout knows.
LEMMA CallsAreLayout ==
  ASSUME NEW value
  PROVE  /\ \A table : VinWindow(table, value) => L!VinWindow(table, value)
         /\ VinWindowWithoutModules(value) => L!VinWindowWithoutModules(value)
<1>1. \A table : VinWindow(table, value) => L!VinWindow(table, value)
  BY DEF VinWindow, L!VinWindow, Idle, L!Idle, ListOf, L!ListOf, ElementsOf, L!ElementsOf
<1>2. VinWindowWithoutModules(value) => L!VinWindowWithoutModules(value)
  BY DEF VinWindowWithoutModules, L!VinWindowWithoutModules, Idle, L!Idle, Reposition,
         L!Reposition, PositionOf, L!PositionOf, Positions, L!Positions, Present, L!Present,
         Modules, L!Modules
<1>3. QED
  BY <1>1, <1>2

\* gtk_box_remove is the same for both.
LEMMA WithoutIsLayout == \A box, m : Without(box, m) = L!Without(box, m)
BY Zenon DEF Without, L!Without, RemoveAt, L!RemoveAt

LEMMA ElementsAreLayout == ConfigureElement => L!ConfigureElement
<1> SUFFICES ASSUME ConfigureElement PROVE L!ConfigureElement
  OBVIOUS
<1>1. AtElement /\ L!AtElement
  BY DEF ConfigureElement, AtElement, L!AtElement
<1>2. PICK m \in Modules : Names(Element, m) /\ ConfigureModule(m)
  BY DEF ConfigureElement
<1>3. m \in L!Modules /\ L!Names(L!Element, m)
  BY <1>2 DEF Names, L!Names, Element, L!Element, ModuleOf, L!ModuleOf, Modules, L!Modules
<1>4. KeepModule(m) => L!KeepModule(m)
  BY DEF KeepModule, L!KeepModule, InPlace, L!InPlace, Element, L!Element, Wanted, L!Wanted
<1>5. CreateModule(m) => L!CreateModule(m)
  BY DEF CreateModule, L!CreateModule, Element, L!Element, Wanted, L!Wanted, EntryOf, L!EntryOf,
         Configure, L!Configure, time, L!time, notification, L!notification
<1>6. MoveModule(m) => L!MoveModule(m)
  BY WithoutIsLayout
     DEF MoveModule, L!MoveModule, InPlace, L!InPlace, Element, L!Element, Wanted, L!Wanted,
         EntryOf, L!EntryOf, Configure, L!Configure, time, L!time, notification, L!notification
<1>7. QED
  BY <1>1, <1>2, <1>3, <1>4, <1>5, <1>6
     DEF ConfigureModule, L!ConfigureModule, L!ConfigureElement

LEMMA StepsAreLayout == WindowStep \/ Return \/ Raise => L!Next
<1>1. ConfigureElement => L!ConfigureElement
  BY ElementsAreLayout
<1>2. SkipElement => L!SkipElement
  BY DEF SkipElement, L!SkipElement, AtElement, L!AtElement, Element, L!Element, Names, L!Names,
         ModuleOf, L!ModuleOf, Modules, L!Modules
<1>3. EndOfLists => L!EndOfLists
  BY DEF EndOfLists, L!EndOfLists
<1>4. RemoveModule => L!RemoveModule
  BY WithoutIsLayout
     DEF RemoveModule, L!RemoveModule, Unwanted, L!Unwanted, Present, L!Present, Modules,
         L!Modules, Unconfigure, L!Unconfigure, time, L!time
<1>5. Return => L!Return
  BY DEF Return, L!Return, Unwanted, L!Unwanted, Present, L!Present, Modules, L!Modules,
         Reposition, L!Reposition, PositionOf, L!PositionOf, Positions, L!Positions
<1>6. Raise => L!Raise
  BY DEF Raise, L!Raise, AtElement, L!AtElement, Element, L!Element, Names, L!Names, ModuleOf,
         L!ModuleOf, worksapce, L!worksapce, notification, L!notification
<1>7. QED
  BY <1>1, <1>2, <1>3, <1>4, <1>5, <1>6 DEF WindowStep, L!WindowStep, L!Next

-----------------------------------------------------------------------------
(* Queues                                                                  *)

Waits(queue, x) == \E i \in DOMAIN queue : queue[i] = x

\* What waits still waits behind it when something is appended, which waits too.
LEMMA AppendWaits ==
  ASSUME NEW S, NEW queue \in Seq(S), NEW x \in S
  PROVE  /\ Append(queue, x) \in Seq(S)
         /\ Waits(Append(queue, x), x)
         /\ \A y : Waits(queue, y) => Waits(Append(queue, x), y)
<1>1. /\ Append(queue, x) \in Seq(S)
      /\ Len(Append(queue, x)) = Len(queue) + 1
      /\ \A i \in 1..Len(queue) : Append(queue, x)[i] = queue[i]
      /\ Append(queue, x)[Len(queue) + 1] = x
  BY AppendProperties
<1>2. /\ Len(queue) \in Nat
      /\ DOMAIN queue = 1..Len(queue)
      /\ DOMAIN Append(queue, x) = 1..(Len(queue) + 1)
  BY <1>1, LenProperties
<1>3. QED
  BY <1>1, <1>2 DEF Waits

\* What waits is the head of the queue, or waits in its tail.
LEMMA TailWaits ==
  ASSUME NEW S, NEW queue \in Seq(S), queue # <<>>
  PROVE  /\ Tail(queue) \in Seq(S)
         /\ Head(queue) \in S
         /\ \A y : Waits(queue, y) => y = Head(queue) \/ Waits(Tail(queue), y)
<1>1. /\ Tail(queue) \in Seq(S)
      /\ Len(Tail(queue)) = Len(queue) - 1
      /\ \A i \in 1..(Len(queue) - 1) : Tail(queue)[i] = queue[i + 1]
      /\ Head(queue) = queue[1] /\ Head(queue) \in S
  BY HeadTailProperties
<1>2. /\ Len(queue) \in Nat
      /\ DOMAIN queue = 1..Len(queue)
      /\ DOMAIN Tail(queue) = 1..(Len(queue) - 1)
  BY <1>1, LenProperties
<1>3. ASSUME NEW y, NEW i \in DOMAIN queue, queue[i] = y, i # 1
      PROVE  Waits(Tail(queue), y)
  <2>1. i - 1 \in DOMAIN Tail(queue) /\ Tail(queue)[i - 1] = queue[(i - 1) + 1] /\ (i - 1) + 1 = i
    BY <1>1, <1>2, <1>3
  <2>2. QED
    BY <1>3, <2>1 DEF Waits
<1>4. QED
  BY <1>1, <1>3 DEF Waits

-----------------------------------------------------------------------------
(* The invariant                                                           *)

ThreadsTypeOK ==
  /\ main \in {"startup", "style", "ready", "activating", "reloading",
               "exited", "aborted", "undefined"}
  /\ worker \in {"off", "css", "config", "loop"}
  /\ window \in {"none", "hidden", "shown"}
  /\ opened \in BOOLEAN
  /\ m_exit_status \in 0..1
  /\ requests \in [Clients -> Seq({"activate", "toggle", "quit"})]

FilesAreKnown == DOMAIN file = Files /\ DOMAIN read = Files

\* A config is loaded into a window.
LoadsIntoAWindow == main \in {"activating", "reloading"} => window # "none"

AInv ==
  /\ L!IInv
  /\ FilesAreKnown
  /\ ConfigTypeOK
  /\ ThreadsTypeOK
  /\ LoadsIntoAWindow

LEMMA InitAInv == Init => AInv
<1> SUFFICES ASSUME Init PROVE AInv
  OBVIOUS
<1>1. L!IInv
  BY FirstWindow DEF Init
<1>2. FilesAreKnown /\ LoadsIntoAWindow
  BY DEF Init, ConfigInit, ApplicationInit, FilesAreKnown, LoadsIntoAWindow, Files
<1>3. ConfigTypeOK
  <2>1. edits \in 0..MaxEdits
    BY MaxEditsAssumption DEF Init, ConfigInit
  <2>2. events \in Seq([file : Files, changed : BOOLEAN]) /\ posted \in Seq(Files) /\ calls \in Seq(Calls)
    BY DEF Init, ConfigInit
  <2>3. \A f \in Files : file[f] \in Contents(f) /\ read[f] \in Contents(f) \cup {NotRead}
    BY DEF Init, ConfigInit, Files, Contents
  <2>4. QED
    BY <2>1, <2>2, <2>3 DEF Init, ConfigInit, ConfigTypeOK
<1>4. ThreadsTypeOK
  <2>1. Options \subseteq Seq({"activate", "toggle", "quit"})
    BY DEF Options
  <2>2. requests \in [Clients -> Seq({"activate", "toggle", "quit"})]
    BY <2>1 DEF Init, ApplicationInit
  <2>3. m_exit_status = 0 /\ opened = FALSE
    BY DEF Init, ApplicationInit
  <2>4. m_exit_status \in 0..1
    BY <2>3
  <2>5. opened \in BOOLEAN
    BY <2>3, Zenon
  <2>6. QED
    BY <2>2, <2>4, <2>5 DEF Init, ApplicationInit, ThreadsTypeOK
<1>5. QED
  BY <1>1, <1>2, <1>3, <1>4 DEF AInv

-----------------------------------------------------------------------------
(* The steps of the window                                                 *)

\* The calls of a config give lists and positions that configs can give.
LEMMA CallsKeep ==
  ASSUME L!IInv, ConfigTypeOK, LoadStep
  PROVE  L!IInv'
<1>1. ASSUME CallWindow PROVE L!Next
  <2>1. calls \in Seq(Calls) /\ calls # <<>>
    BY <1>1 DEF CallWindow, Calling, ConfigTypeOK
  <2>2. Head(calls) \in Calls
    BY <2>1, HeadTailProperties
  <2>3. Head(calls) \in [function : {"window"}, table : Tables \cup {NoTable}, position : Arguments]
    BY <1>1, <2>2 DEF Calls, CallWindow, Calling
  <2>4. Head(calls).position \in Arguments
    BY <2>3
  <2>5. CASE Head(calls).table # NoTable
    <3>1. Head(calls).table \in Tables
      BY <2>3, <2>5
    <3>2. VinWindow(Head(calls).table, Head(calls).position)
      BY <1>1, <2>5 DEF CallWindow
    <3>3. QED
      BY <2>4, <3>1, <3>2, CallsAreLayout DEF L!Next
  <2>6. CASE Head(calls).table = NoTable
    <3>1. VinWindowWithoutModules(Head(calls).position)
      BY <1>1, <2>6 DEF CallWindow
    <3>2. QED
      BY <2>4, <3>1, CallsAreLayout DEF L!Next
  <2>7. QED
    BY <2>5, <2>6
<1>2. WindowRuns \/ WindowRaises => L!Next
  BY StepsAreLayout DEF WindowRuns, WindowRaises
<1>3. (\E function \in {"time_module", "notification_module"} : CallModule(function))
        \/ CallFails \/ EndOfConfig => UNCHANGED windowVars
  BY DEF CallModule, CallFails, EndOfConfig
<1>4. QED
  BY <1>1, <1>2, <1>3, LayoutKeeps DEF LoadStep

\* The window after any step.
LEMMA WindowStaysSound ==
  ASSUME L!IInv, ConfigTypeOK, [Next]_vars
  PROVE  L!IInv'
<1>1. CASE Loads
  BY <1>1, CallsKeep DEF Loads
<1>2. ASSUME NEW c \in Clients, OnActivate(c) PROVE NewWindow \/ UNCHANGED windowVars
  BY <1>2 DEF OnActivate
<1>3. ASSUME UNCHANGED windowVars PROVE L!IInv'
  BY <1>3, LayoutKeeps
<1>4. CASE Startup \/ LoadStyle \/ Loaded \/ OnCssChanged \/ OnConfigChanged \/ Exit
  BY <1>3, <1>4 DEF Startup, LoadStyle, Loaded, OnCssChanged, OnConfigChanged, Exit
<1>5. CASE Worker
  BY <1>3, <1>5 DEF Worker, WorkerMonitors, WorkerListens
<1>6. CASE Users
  <2>1. ASSUME NEW c \in Clients, OnToggle(c) \/ OnQuit(c) PROVE UNCHANGED windowVars
    BY <2>1 DEF OnToggle, OnQuit
  <2>2. QED
    BY <1>2, <1>3, <1>6, <2>1, NextWindow DEF Users
<1>7. CASE UNCHANGED vars
  BY <1>3, <1>7 DEF vars
<1>8. QED
  BY <1>1, <1>4, <1>5, <1>6, <1>7 DEF Next, Main

-----------------------------------------------------------------------------
(* The steps of the files, the queues and the threads                      *)

LEMMA EditKeeps ==
  ASSUME FilesAreKnown, ConfigTypeOK, NEW f \in Files, NEW content \in Contents(f),
         NEW inPlace \in BOOLEAN, Edit(f, content, inPlace)
  PROVE  FilesAreKnown' /\ ConfigTypeOK'
<1>1. FilesAreKnown' /\ \A g \in Files : file'[g] \in Contents(g) /\ read'[g] \in Contents(g) \cup {NotRead}
  BY DEF Edit, FilesAreKnown, ConfigTypeOK
<1>2. edits' \in 0..MaxEdits
  BY MaxEditsAssumption DEF Edit, ConfigTypeOK
<1>3. events' \in Seq([file : Files, changed : BOOLEAN])
  BY AppendProperties DEF Edit, ConfigTypeOK
<1>4. silent' \subseteq Files
  BY DEF Edit, ConfigTypeOK
<1>5. QED
  BY <1>1, <1>2, <1>3, <1>4 DEF Edit, ConfigTypeOK

LEMMA EventKeeps ==
  ASSUME FilesAreKnown, ConfigTypeOK, OnFileEvent
  PROVE  FilesAreKnown' /\ ConfigTypeOK'
<1>1. events \in Seq([file : Files, changed : BOOLEAN]) /\ events # <<>> /\ posted \in Seq(Files)
  BY DEF OnFileEvent, ConfigTypeOK
<1>2. events' \in Seq([file : Files, changed : BOOLEAN]) /\ Head(events) \in [file : Files, changed : BOOLEAN]
  BY <1>1, TailWaits DEF OnFileEvent
<1>3. Append(posted, Head(events).file) \in Seq(Files)
  BY <1>1, <1>2, AppendProperties
<1>4. posted' \in Seq(Files)
  BY <1>1, <1>3 DEF OnFileEvent
<1>5. QED
  BY <1>2, <1>4 DEF OnFileEvent, FilesAreKnown, ConfigTypeOK

\* Reading a file.
LEMMA ReadKeeps ==
  ASSUME FilesAreKnown, ConfigTypeOK, NEW f \in Files, Read(f), UNCHANGED file
  PROVE  /\ FilesAreKnown'
         /\ \A g \in Files : file'[g] \in Contents(g) /\ read'[g] \in Contents(g) \cup {NotRead}
         /\ silent' \subseteq Files
BY DEF FilesAreKnown, ConfigTypeOK, Read

LEMMA LoadConfigKeeps ==
  ASSUME FilesAreKnown, ConfigTypeOK, LoadConfig
  PROVE  /\ FilesAreKnown'
         /\ posted' \in Seq(Files) => ConfigTypeOK'
<1>1. "config" \in Files /\ Contents("config") = Configs
  BY DEF Files, Contents
<1>2. /\ FilesAreKnown'
      /\ \A g \in Files : file'[g] \in Contents(g) /\ read'[g] \in Contents(g) \cup {NotRead}
      /\ silent' \subseteq Files
  BY <1>1, ReadKeeps DEF LoadConfig
<1>3. file["config"].calls \in Seq(Calls)
  BY <1>1, ConfigsAssumption DEF ConfigTypeOK
<1>4. calls' \in Seq(Calls) /\ load' \in {"running", "error"}
  <2>1. \/ load' = "running" /\ calls' = file["config"].calls
        \/ load' = "error"   /\ calls' = <<>>
    BY Zenon DEF LoadConfig
  <2>2. <<>> \in Seq(Calls)
    OBVIOUS
  <2>3. QED
    BY <1>3, <2>1, <2>2
<1>5. QED
  BY <1>2, <1>4 DEF LoadConfig, ConfigTypeOK

LEMMA LoadStepKeeps ==
  ASSUME FilesAreKnown, ConfigTypeOK, LoadStep
  PROVE  FilesAreKnown' /\ ConfigTypeOK'
<1>1. calls \in Seq(Calls)
  BY DEF ConfigTypeOK
<1>2. calls # <<>> => Tail(calls) \in Seq(Calls)
  BY <1>1, HeadTailProperties
<1>3. <<>> \in Seq(Calls)
  OBVIOUS
<1>4. ASSUME NEW status \in {"running", "ok", "error", "undefined"}, NEW rest \in Seq(Calls),
             Run(status, rest)
      PROVE  FilesAreKnown' /\ ConfigTypeOK'
  BY <1>4 DEF Run, FilesAreKnown, ConfigTypeOK
<1>5. CallWindow => calls # <<>> /\ Run("running", Tail(calls))
  BY DEF CallWindow, Calling
<1>6. ASSUME NEW function, CallModule(function)
      PROVE  \/ Run("error", <<>>)
             \/ Run("undefined", <<>>)
             \/ calls # <<>> /\ Run("running", Tail(calls))
  BY <1>6 DEF CallModule, Calling
<1>7. CallFails \/ WindowRaises => Run("error", <<>>)
  BY DEF CallFails, WindowRaises
<1>8. WindowRuns => Run("running", calls)
  BY DEF WindowRuns
<1>9. EndOfConfig => Run("ok", <<>>)
  BY DEF EndOfConfig
<1>10. QED
  BY <1>1, <1>2, <1>3, <1>4, <1>5, <1>6, <1>7, <1>8, <1>9 DEF LoadStep

\* An invocation's next request.
LEMMA AskKeeps ==
  ASSUME ThreadsTypeOK, NEW c \in Clients, NEW request, Asks(c, request)
  PROVE  requests' \in [Clients -> Seq({"activate", "toggle", "quit"})]
<1>1. requests[c] \in Seq({"activate", "toggle", "quit"}) /\ requests[c] # <<>>
  BY DEF ThreadsTypeOK, Asks
<1>2. Tail(requests[c]) \in Seq({"activate", "toggle", "quit"})
  BY <1>1, HeadTailProperties
<1>3. QED
  BY <1>2 DEF ThreadsTypeOK, Asks

LEMMA DispatchKeeps ==
  ASSUME ConfigTypeOK, NEW f, Dispatch(f)
  PROVE  posted' \in Seq(Files)
<1>1. posted \in Seq(Files) /\ posted # <<>>
  BY DEF ConfigTypeOK, Dispatch
<1>2. QED
  BY <1>1, HeadTailProperties DEF Dispatch

\* Every step keeps the types.
LEMMA FilesStep ==
  ASSUME FilesAreKnown, ConfigTypeOK, [Next]_vars
  PROVE  FilesAreKnown' /\ ConfigTypeOK'
<1> "css" \in Files /\ "config" \in Files
  BY DEF Files
<1>1. CASE UNCHANGED configVars
  BY <1>1 DEF configVars, FilesAreKnown, ConfigTypeOK
<1>2. CASE LoadStyle
  BY <1>2, ReadKeeps DEF LoadStyle, ConfigTypeOK
<1>3. CASE Loads
  BY <1>3, LoadStepKeeps DEF Loads
<1>4. CASE Loaded
  BY <1>4 DEF Loaded, FilesAreKnown, ConfigTypeOK
<1>5. CASE OnCssChanged
  <2>1. posted' \in Seq(Files)
    BY <1>5, DispatchKeeps DEF OnCssChanged
  <2>2. QED
    BY <1>5, <2>1, ReadKeeps DEF OnCssChanged, ConfigTypeOK
<1>6. CASE OnConfigChanged
  <2>1. posted' \in Seq(Files)
    BY <1>6, DispatchKeeps DEF OnConfigChanged
  <2>2. CASE LoadConfig
    BY <2>1, <2>2, LoadConfigKeeps
  <2>3. CASE UNCHANGED <<file, edits, monitored, events, load, calls, read, silent>>
    BY <2>1, <2>3 DEF FilesAreKnown, ConfigTypeOK
  <2>4. QED
    BY <1>6, <2>2, <2>3 DEF OnConfigChanged
<1>7. CASE WorkerMonitors
  <2>1. PICK f \in Files : Monitor(f)
    BY <1>7 DEF WorkerMonitors
  <2>2. QED
    BY <2>1 DEF Monitor, FilesAreKnown, ConfigTypeOK
<1>8. CASE WorkerListens
  BY <1>8, EventKeeps DEF WorkerListens
<1>9. ASSUME NEW c \in Clients, OnActivate(c) PROVE FilesAreKnown' /\ ConfigTypeOK'
  <2>1. UNCHANGED configVars \/ (LoadConfig /\ UNCHANGED posted)
    BY <1>9 DEF OnActivate
  <2>2. posted \in Seq(Files)
    BY DEF ConfigTypeOK
  <2>3. QED
    BY <1>1, <2>1, <2>2, LoadConfigKeeps
<1>10. CASE Users
  <2>1. ASSUME NEW c \in Clients, OnToggle(c) \/ OnQuit(c) PROVE UNCHANGED configVars
    BY <2>1 DEF OnToggle, OnQuit
  <2>2. QED
    BY <1>1, <1>9, <1>10, <2>1, EditKeeps DEF Users
<1>11. Startup \/ Exit \/ UNCHANGED vars => UNCHANGED configVars
  BY DEF Startup, Exit, vars
<1>12. QED
  BY <1>1, <1>2, <1>3, <1>4, <1>5, <1>6, <1>7, <1>8, <1>10, <1>11 DEF Next, Main, Worker

LEMMA ThreadsStep ==
  ASSUME ThreadsTypeOK, LoadsIntoAWindow, [Next]_vars
  PROVE  ThreadsTypeOK' /\ LoadsIntoAWindow'
<1>1. CASE UNCHANGED appVars
  BY <1>1 DEF appVars, ThreadsTypeOK, LoadsIntoAWindow
<1>2. CASE Startup
  <2>1. m_exit_status' \in 0..1
    BY <1>2 DEF Startup, ThreadsTypeOK
  <2>2. QED
    BY <1>2, <2>1 DEF Startup, ThreadsTypeOK, LoadsIntoAWindow
<1>3. CASE LoadStyle
  BY <1>3 DEF LoadStyle, ThreadsTypeOK, LoadsIntoAWindow
<1>4. CASE Loaded
  BY <1>4 DEF Loaded, ThreadsTypeOK, LoadsIntoAWindow
<1>5. CASE OnConfigChanged
  BY <1>5 DEF OnConfigChanged, Dispatch, ThreadsTypeOK, LoadsIntoAWindow
<1>6. CASE Exit
  BY <1>6 DEF Exit, ThreadsTypeOK, LoadsIntoAWindow
<1>7. CASE Worker
  BY <1>1, <1>7 DEF Worker, WorkerMonitors, WorkerListens, ThreadsTypeOK, LoadsIntoAWindow
<1>8. ASSUME NEW c \in Clients, OnActivate(c) PROVE ThreadsTypeOK' /\ LoadsIntoAWindow'
  <2>1. requests' \in [Clients -> Seq({"activate", "toggle", "quit"})]
    BY <1>8, AskKeeps DEF OnActivate
  <2>2. QED
    BY <1>8, <2>1 DEF OnActivate, Asks, ThreadsTypeOK, LoadsIntoAWindow
<1>9. ASSUME NEW c \in Clients, OnToggle(c) PROVE ThreadsTypeOK' /\ LoadsIntoAWindow'
  <2>1. requests' \in [Clients -> Seq({"activate", "toggle", "quit"})]
    BY <1>9, AskKeeps DEF OnToggle
  <2>2. QED
    BY <1>9, <2>1 DEF OnToggle, NoWindow, Asks, ThreadsTypeOK, LoadsIntoAWindow
<1>10. ASSUME NEW c \in Clients, OnQuit(c) PROVE ThreadsTypeOK' /\ LoadsIntoAWindow'
  <2>1. requests' \in [Clients -> Seq({"activate", "toggle", "quit"})]
    BY <1>10, AskKeeps DEF OnQuit
  <2>2. QED
    BY <1>10, <2>1 DEF OnQuit, NoWindow, Asks, ThreadsTypeOK, LoadsIntoAWindow
<1>11. CASE Users
  BY <1>1, <1>8, <1>9, <1>10, <1>11 DEF Users
<1>12. Loads \/ OnCssChanged \/ UNCHANGED vars => UNCHANGED appVars
  BY DEF Loads, OnCssChanged, vars
<1>13. QED
  BY <1>1, <1>2, <1>3, <1>4, <1>5, <1>6, <1>7, <1>11, <1>12 DEF Next, Main

LEMMA StepAInv == AInv /\ [Next]_vars => AInv'
BY WindowStaysSound, FilesStep, ThreadsStep DEF AInv

-----------------------------------------------------------------------------
(* Changes are pending                                                     *)

Told(f) == Waits(events, [file |-> f, changed |-> TRUE]) \/ Waits(posted, f)

\* The file is read before anything is done with it, or is not needed.
Early(f) ==
  \/ f = "css" /\ main \in {"startup", "style"}
  \/ f = "config" /\ window = "none"
  \/ m_exit_status > 0

Pending(f) == read[f] # file[f] => f \in silent \/ Told(f) \/ Early(f)

LEMMA PendingIs == ChangesArePending <=> \A f \in Files : Pending(f)
BY DEF ChangesArePending, Pending, Told, Early, Waits

\* A file that is read now is as it was read.
LEMMA ReadIsPending ==
  ASSUME FilesAreKnown, NEW f \in Files, Pending(f), NEW g \in Files, Read(g), UNCHANGED file,
         UNCHANGED events,
         f # g => (Early(f) => Early(f)'),
         f # g => (Waits(posted, f) => Waits(posted', f))
  PROVE  Pending(f)'
<1>1. CASE f = g
  BY <1>1 DEF Read, Pending, FilesAreKnown
<1>2. CASE f # g
  BY <1>2 DEF Read, Pending, Told, FilesAreKnown
<1>3. QED
  BY <1>1, <1>2

\* A change is told by an event, or is silent.
LEMMA EditIsPending ==
  ASSUME FilesAreKnown, ConfigTypeOK, NEW f \in Files, Pending(f), NEW g \in Files,
         NEW content, NEW inPlace \in BOOLEAN, Edit(g, content, inPlace), UNCHANGED appVars
  PROVE  Pending(f)'
<1> DEFINE event == [file |-> g, changed |-> inPlace]
<1>1. event \in [file : Files, changed : BOOLEAN] /\ events \in Seq([file : Files, changed : BOOLEAN])
  BY DEF ConfigTypeOK
<1> HIDE DEF event
<1>2. /\ Waits(Append(events, event), event)
      /\ \A y : Waits(events, y) => Waits(Append(events, event), y)
  BY <1>1, AppendWaits
<1>3. Told(f) => Told(f)'
  BY <1>2 DEF Told, Edit, event
<1>4. CASE f # g
  <2>1. file'[f] = file[f] /\ read'[f] = read[f] /\ (f \in silent => f \in silent')
    BY <1>4 DEF Edit, FilesAreKnown
  <2>2. Early(f) => Early(f)'
    BY DEF Early, appVars
  <2>3. QED
    BY <1>3, <2>1, <2>2 DEF Pending
<1>5. CASE f = g
  <2>1. f \in silent' \/ (inPlace = TRUE /\ events' = Append(events, event))
    BY <1>5 DEF Edit, event
  <2>2. inPlace = TRUE /\ events' = Append(events, event) => Told(f)'
    BY <1>2, <1>5 DEF Told, event
  <2>3. QED
    BY <2>1, <2>2 DEF Pending
<1>6. QED
  BY <1>4, <1>5

\* The worker makes a signal of a change.
LEMMA EventIsPending ==
  ASSUME ConfigTypeOK, NEW f \in Files, Told(f), OnFileEvent
  PROVE  Told(f)'
<1> DEFINE event == [file |-> f, changed |-> TRUE]
<1>1. events \in Seq([file : Files, changed : BOOLEAN]) /\ events # <<>> /\ posted \in Seq(Files)
  BY DEF ConfigTypeOK, OnFileEvent
<1>2. /\ Head(events) \in [file : Files, changed : BOOLEAN]
      /\ Waits(events, event) => event = Head(events) \/ Waits(Tail(events), event)
  BY <1>1, TailWaits
<1>3. Head(events).file \in Files
  BY <1>2
<1>4. /\ Waits(Append(posted, Head(events).file), Head(events).file)
      /\ \A y : Waits(posted, y) => Waits(Append(posted, Head(events).file), y)
  BY <1>1, <1>3, AppendWaits
<1>5. Waits(posted, f) => Waits(posted', f)
  BY <1>4 DEF OnFileEvent
<1>6. ASSUME event = Head(events) PROVE Waits(posted', f)
  <2>1. Head(events).changed = TRUE /\ Head(events).file = f
    BY <1>6
  <2>2. posted' = Append(posted, f)
    BY <2>1 DEF OnFileEvent
  <2>3. QED
    BY <1>4, <2>1, <2>2
<1>7. Waits(Tail(events), event) => Waits(events', event)
  BY DEF OnFileEvent
<1>8. QED
  BY <1>2, <1>5, <1>6, <1>7 DEF Told

\* Only the signal of the file itself is taken from the queue.
LEMMA DispatchIsPending ==
  ASSUME ConfigTypeOK, NEW f, NEW g, f # g, Dispatch(g), Waits(posted, f)
  PROVE  Waits(posted', f)
<1>1. posted \in Seq(Files) /\ posted # <<>>
  BY DEF ConfigTypeOK, Dispatch
<1>2. QED
  BY <1>1, TailWaits DEF Dispatch

\* LoadConfig reads, LoadStep does not.
LEMMA LoadStepIsPending ==
  LoadStep => UNCHANGED <<file, read, silent, events, posted>>
BY DEF LoadStep, CallWindow, CallModule, CallFails, WindowRuns, WindowRaises, EndOfConfig, Run

LEMMA PendingStep ==
  ASSUME AInv, ChangesArePending, [Next]_vars
  PROVE  ChangesArePending'
<1> SUFFICES ASSUME NEW f \in Files PROVE Pending(f)'
  <2>1. (\A f \in Files : Pending(f)') => ChangesArePending'
    BY DEF ChangesArePending, Pending, Told, Early, Waits
  <2>2. QED
    BY <2>1
<1> "css" \in Files /\ "config" \in Files
  BY DEF Files
<1>1. /\ FilesAreKnown /\ ConfigTypeOK /\ ThreadsTypeOK /\ LoadsIntoAWindow
      /\ Pending(f)
  BY PendingIs DEF AInv
<1>2. ASSUME UNCHANGED <<file, read, silent, events, posted>>, Early(f) => Early(f)'
      PROVE  Pending(f)'
  BY <1>1, <1>2 DEF Pending, Told
<1>3. CASE UNCHANGED vars
  BY <1>2, <1>3 DEF vars, configVars, appVars, Early
<1>4. CASE Startup
  <2>1. Early(f) => Early(f)'
    BY <1>1, <1>4 DEF Startup, Early, ThreadsTypeOK
  <2>2. QED
    BY <1>2, <1>4, <2>1 DEF Startup, configVars
<1>5. CASE LoadStyle
  <2>1. f # "css" => (Early(f) => Early(f)')
    BY <1>5 DEF LoadStyle, Early
  <2>2. QED
    BY <1>1, <1>5, <2>1, ReadIsPending DEF LoadStyle
<1>6. CASE Loads
  BY <1>2, <1>6, LoadStepIsPending DEF Loads, appVars, Early
<1>7. CASE Loaded
  <2>1. Early(f) => Early(f)'
    BY <1>1, <1>7 DEF Loaded, Early, LoadsIntoAWindow
  <2>2. QED
    BY <1>2, <1>7, <2>1 DEF Loaded
<1>8. CASE OnCssChanged
  <2>1. f # "css" => (Waits(posted, f) => Waits(posted', f))
    BY <1>1, <1>8, DispatchIsPending DEF OnCssChanged
  <2>2. Early(f) => Early(f)'
    BY <1>8 DEF OnCssChanged, appVars, Early
  <2>3. QED
    BY <1>1, <1>8, <2>1, <2>2, ReadIsPending DEF OnCssChanged
<1>9. CASE OnConfigChanged
  <2>1. f # "config" => (Waits(posted, f) => Waits(posted', f))
    BY <1>1, <1>9, DispatchIsPending DEF OnConfigChanged
  <2>2. main = "ready" /\ Early(f) => Early(f)'
    BY <1>9 DEF OnConfigChanged, Early
  <2>3. main = "ready"
    BY <1>9 DEF OnConfigChanged, Dispatch
  <2>4. CASE window = "none"
    <3>1. UNCHANGED <<file, read, silent, events>>
      BY <1>9, <2>4 DEF OnConfigChanged
    <3>2. f = "config" => Early(f)'
      BY <1>9, <2>4 DEF OnConfigChanged, Early
    <3>3. QED
      BY <1>1, <2>1, <2>2, <2>3, <3>1, <3>2 DEF Pending, Told
  <2>5. CASE window # "none"
    <3>1. LoadConfig
      BY <1>9, <2>5 DEF OnConfigChanged
    <3>2. QED
      BY <1>1, <2>1, <2>2, <2>3, <3>1, ReadIsPending DEF LoadConfig
  <2>6. QED
    BY <2>4, <2>5
<1>10. CASE Exit
  <2>1. Early(f) => Early(f)'
    BY <1>10 DEF Exit, Early
  <2>2. QED
    BY <1>2, <1>10, <2>1 DEF Exit, configVars
<1>11. CASE WorkerMonitors
  <2>1. UNCHANGED <<file, read, silent, events, posted>>
    BY <1>11 DEF WorkerMonitors, Monitor
  <2>2. Early(f) => Early(f)'
    BY <1>11 DEF WorkerMonitors, Early
  <2>3. QED
    BY <1>2, <2>1, <2>2
<1>12. CASE WorkerListens
  <2>1. Told(f) => Told(f)'
    BY <1>1, <1>12, EventIsPending DEF WorkerListens
  <2>2. UNCHANGED <<file, read, silent>> /\ (Early(f) => Early(f)')
    BY <1>12 DEF WorkerListens, OnFileEvent, Early, appVars
  <2>3. QED
    BY <1>1, <2>1, <2>2 DEF Pending
<1>13. ASSUME NEW c \in Clients, OnActivate(c) PROVE Pending(f)'
  <2>1. main = "ready"
    BY <1>13 DEF OnActivate, Asks
  <2>2. CASE UNCHANGED <<windowVars, configVars, main, window, opened>>
    BY <1>2, <1>13, <2>2 DEF OnActivate, configVars, Early
  <2>3. CASE LoadConfig /\ UNCHANGED posted
    <3>1. f # "config" => (Early(f) => Early(f)')
      BY <1>13, <2>1 DEF OnActivate, Early
    <3>2. QED
      BY <1>1, <2>3, <3>1, ReadIsPending DEF LoadConfig
  <2>4. QED
    BY <1>13, <2>2, <2>3 DEF OnActivate
<1>14. ASSUME NEW c \in Clients, OnToggle(c) PROVE Pending(f)'
  <2>1. Early(f) => Early(f)'
    BY <1>14 DEF OnToggle, NoWindow, Asks, Early
  <2>2. QED
    BY <1>2, <1>14, <2>1 DEF OnToggle, configVars
<1>15. ASSUME NEW c \in Clients, OnQuit(c) PROVE Pending(f)'
  <2>1. Early(f) => Early(f)'
    BY <1>15 DEF OnQuit, NoWindow, Asks, Early
  <2>2. QED
    BY <1>2, <1>15, <2>1 DEF OnQuit, configVars
<1>16. CASE Users
  BY <1>1, <1>13, <1>14, <1>15, <1>16, EditIsPending DEF Users
<1>17. QED
  BY <1>3, <1>4, <1>5, <1>6, <1>7, <1>8, <1>9, <1>10, <1>11, <1>12, <1>16 DEF Next, Main, Worker

-----------------------------------------------------------------------------
(* The theorems                                                            *)

\* The invariant.
THEOREM InvariantHolds == Spec => []AInv
BY InitAInv, StepAInv, PTL DEF Spec

\* Every variable has its type.
THEOREM TypeCorrect == Spec => []ApplicationTypeOK
<1>1. AInv => ApplicationTypeOK
  BY WindowFacts DEF AInv, ThreadsTypeOK, ApplicationTypeOK
<1>2. QED
  BY <1>1, InvariantHolds, PTL

\* What was changed is read, or will be: the monitors, the two queues and the
\* order of what on_startup, on_activate and the handlers do leave no other
\* change unread than the two kinds that no event tells of.
THEOREM ChangesPending == Spec => []ChangesArePending
<1>1. Init => ChangesArePending
  <2>1. ASSUME Init PROVE \A f \in Files : Early(f)
    BY <2>1 DEF Init, ApplicationInit, Files, Early
  <2>2. QED
    BY <2>1, PendingIs DEF Pending
<1>2. AInv /\ ChangesArePending /\ [Next]_vars => ChangesArePending'
  BY PendingStep
<1>3. QED
  BY <1>1, <1>2, InvariantHolds, PTL DEF Spec

\* The functions in the table of an open window are those of that window's
\* modules, and its widgets are where its entries say: through every load,
\* reload, error of a config, and every window that was closed before.
THEOREM WindowIsSound == Spec => []OpenWindowIsSound
<1>1. AInv => OpenWindowIsSound
  BY WindowFacts DEF AInv, OpenWindowIsSound
<1>2. QED
  BY <1>1, InvariantHolds, PTL
-----------------------------------------------------------------------------
(* When the assertions hold                                                *)
(*                                                                         *)
(* The assertions that an action finds a window can fail: one invocation's *)
(* quit may come between the activation and the action of another.  They   *)
(* hold when that is excluded.                                             *)

\* When one of the other invocations asks the program to quit, none of the rest
\* has an action for it.
Undisturbed ==
  \A c, d \in Clients \ {1} :
    c # d /\ requests[d] = <<"activate", "quit">> => requests[c] = <<"activate">>

Rests == Options \cup {<<>>, <<"toggle">>, <<"quit">>}

\* Between the activation and the action.
Acting(c) == requests[c] \in {<<"toggle">>, <<"quit">>}
Acts(c)   == requests[c] \in {<<"activate", "toggle">>, <<"activate", "quit">>, <<"toggle">>, <<"quit">>}
Quits(c)  == requests[c] \in {<<"activate", "quit">>, <<"quit">>}

\* Who is between the two finds a window, or a program that could not start.
FoundAWindow ==
  /\ requests \in [Clients -> Rests]
  /\ requests[1] # <<>> => \A c \in Clients \ {1} : requests[c] \in Options
  /\ \A c, d \in Clients \ {1} : c # d /\ Quits(d) => ~Acts(c)
  /\ \A c \in Clients : Acting(c) => window # "none" \/ m_exit_status # 0
  /\ ActionsFindAWindow

\* The requests are made from the first on.
LEMMA RestsShrink ==
  ASSUME NEW r \in Rests, r # <<>>
  PROVE  /\ Tail(r) \in Rests \ Options
         /\ Head(r) = "activate" => r \in Options
         /\ Head(r) \in {"toggle", "quit"} => r = <<Head(r)>> /\ Tail(r) = <<>>
         /\ Tail(r) = <<"quit">> => r = <<"activate", "quit">>
         /\ Tail(r) = <<"toggle">> => r = <<"activate", "toggle">>
<1>1. \/ r = <<"activate">> /\ Head(r) = "activate" /\ Tail(r) = <<>>
      \/ r = <<"activate", "toggle">> /\ Head(r) = "activate" /\ Tail(r) = <<"toggle">>
      \/ r = <<"activate", "quit">> /\ Head(r) = "activate" /\ Tail(r) = <<"quit">>
      \/ r = <<"toggle">> /\ Head(r) = "toggle" /\ Tail(r) = <<>>
      \/ r = <<"quit">> /\ Head(r) = "quit" /\ Tail(r) = <<>>
  <2>1. /\ Head(<<"activate">>) = "activate" /\ Head(<<"toggle">>) = "toggle" /\ Head(<<"quit">>) = "quit"
        /\ Head(<<"activate", "toggle">>) = "activate" /\ Head(<<"activate", "quit">>) = "activate"
    OBVIOUS
  <2>2. Tail(<<"activate">>) = <<>> /\ Tail(<<"toggle">>) = <<>> /\ Tail(<<"quit">>) = <<>>
    OBVIOUS
  <2>3. Tail(<<"activate", "toggle">>) = <<"toggle">>
    OBVIOUS
  <2>4. Tail(<<"activate", "quit">>) = <<"quit">>
    OBVIOUS
  <2>5. r \in {<<"activate">>, <<"activate", "toggle">>, <<"activate", "quit">>, <<"toggle">>, <<"quit">>}
    BY Zenon DEF Rests, Options
  <2>6. QED
    BY <2>1, <2>2, <2>3, <2>4, <2>5, Zenon
<1>2. /\ <<>> # <<"toggle">> /\ <<>> # <<"quit">> /\ <<"toggle">> # <<"quit">>
      /\ \A x \in {<<>>, <<"toggle">>, <<"quit">>} : x \in Rests \ Options
  <2>1. /\ Len(<<>>) = 0 /\ Len(<<"toggle">>) = 1 /\ Len(<<"quit">>) = 1 /\ Len(<<"activate">>) = 1
        /\ Len(<<"activate", "toggle">>) = 2 /\ Len(<<"activate", "quit">>) = 2
        /\ Head(<<"toggle">>) = "toggle" /\ Head(<<"quit">>) = "quit" /\ Head(<<"activate">>) = "activate"
    OBVIOUS
  <2>2. /\ <<>> # <<"toggle">> /\ <<>> # <<"quit">> /\ <<"toggle">> # <<"quit">>
        /\ <<>> \notin Options /\ <<"toggle">> \notin Options /\ <<"quit">> \notin Options
    BY <2>1 DEF Options
  <2>3. QED
    BY <2>2 DEF Rests
<1>3. QED
  BY <1>1, <1>2 DEF Options

\* What the others have still to ask for only gets less.
LEMMA AskingKeeps ==
  ASSUME ClientsAssumption, FoundAWindow, NEW c \in Clients, NEW request, Asks(c, request)
  PROVE  /\ requests' \in [Clients -> Rests]
         /\ \A d \in Clients : d # c => requests'[d] = requests[d]
         /\ requests'[1] # <<>> => \A d \in Clients \ {1} : requests'[d] \in Options
         /\ \A d, e \in Clients \ {1} : d # e /\ Quits(e)' => ~Acts(d)'
         /\ Acting(c)' => request = "activate"
         /\ request \in {"toggle", "quit"} => Acting(c) /\ requests'[c] = <<>>
<1> DEFINE r == requests[c]
<1>1. /\ r \in Rests /\ r # <<>> /\ Head(r) = request /\ requests \in [Clients -> Rests]
      /\ requests' = [requests EXCEPT ![c] = Tail(r)]
      /\ c # 1 => requests[1] = <<>>
  BY DEF FoundAWindow, Asks
<1> HIDE DEF r
<1>2. /\ Tail(r) \in Rests \ Options
      /\ Head(r) = "activate" => r \in Options
      /\ Head(r) \in {"toggle", "quit"} => r = <<Head(r)>> /\ Tail(r) = <<>>
      /\ Tail(r) = <<"quit">> => r = <<"activate", "quit">>
      /\ Tail(r) = <<"toggle">> => r = <<"activate", "toggle">>
  BY <1>1, RestsShrink
<1>3. /\ requests' \in [Clients -> Rests]
      /\ \A d \in Clients : d # c => requests'[d] = requests[d]
      /\ requests'[c] = Tail(r)
  BY <1>1, <1>2
<1>4. requests'[1] # <<>> => \A d \in Clients \ {1} : requests'[d] \in Options
  <2>1. CASE c = 1
    BY <2>1, <1>1, <1>3 DEF FoundAWindow, r
  <2>2. CASE c # 1
    BY <2>2, <1>1, <1>3, ClientsAssumption DEF ClientsAssumption
  <2>3. QED
    BY <2>1, <2>2
<1>5. Tail(r) \notin {<<"activate", "toggle">>, <<"activate", "quit">>}
  BY <1>2 DEF Options
<1>6. \A d \in Clients : (Quits(d)' => Quits(d)) /\ (Acts(d)' => Acts(d))
  <2>1. ASSUME NEW d \in Clients, d # c PROVE (Quits(d)' => Quits(d)) /\ (Acts(d)' => Acts(d))
    BY <2>1, <1>3 DEF Quits, Acts
  <2>2. (Quits(c)' => Quits(c)) /\ (Acts(c)' => Acts(c))
    BY <1>2, <1>3, <1>5 DEF Quits, Acts, r
  <2>3. QED
    BY <2>1, <2>2
<1>7. \A d, e \in Clients \ {1} : d # e /\ Quits(e)' => ~Acts(d)'
  BY <1>6 DEF FoundAWindow
<1>8. Acting(c)' => request = "activate"
  <2>1. Acting(c)' => r \in {<<"activate", "toggle">>, <<"activate", "quit">>}
    BY <1>2, <1>3 DEF Acting
  <2>2. Head(<<"activate", "toggle">>) = "activate" /\ Head(<<"activate", "quit">>) = "activate"
    OBVIOUS
  <2>3. QED
    BY <2>1, <2>2, <1>1
<1>9. request \in {"toggle", "quit"} => Acting(c) /\ requests'[c] = <<>>
  BY <1>1, <1>2, <1>3 DEF Acting, r
<1>10. QED
  BY <1>3, <1>4, <1>7, <1>8, <1>9

\* Nobody closes the window of one who is between the two.
LEMMA FindsStep ==
  ASSUME AInv, FoundAWindow, [Next]_vars
  PROVE  FoundAWindow'
<1>0. ClientsAssumption
  BY ClientsAssumption
<1> USE DEF ActionsFindAWindow
<1>1. ASSUME UNCHANGED requests, main' # "aborted", m_exit_status' = m_exit_status \/ m_exit_status' = 1,
             window # "none" => window' # "none"
      PROVE  FoundAWindow'
  <2>1. \A c \in Clients : Acting(c)' => window' # "none" \/ m_exit_status' # 0
    BY <1>1 DEF FoundAWindow, Acting
  <2>2. QED
    BY <1>1, <2>1 DEF FoundAWindow, Quits, Acts
<1>2. ASSUME NEW c \in Clients, OnActivate(c) PROVE FoundAWindow'
  <2>1. /\ Asks(c, "activate") /\ UNCHANGED m_exit_status /\ m_exit_status \in 0..1
        /\ window' # "none" \/ m_exit_status > 0
        /\ window # "none" => window' # "none"
        /\ main' # "aborted"
    BY <1>2 DEF OnActivate, AInv, ThreadsTypeOK, FoundAWindow
  <2>2. \A d \in Clients : Acting(d)' => window' # "none" \/ m_exit_status' # 0
    BY <2>1
  <2>3. QED
    BY <1>0, <2>1, <2>2, AskingKeeps DEF FoundAWindow
<1>3. ASSUME NEW c \in Clients, OnToggle(c) PROVE FoundAWindow'
  <2>1. /\ Asks(c, "toggle") /\ m_exit_status = 0 /\ UNCHANGED m_exit_status
    BY <1>3 DEF OnToggle
  <2>2. /\ Acting(c) /\ requests'[c] = <<>>
        /\ \A d \in Clients : d # c => requests'[d] = requests[d]
    BY <1>0, <2>1, AskingKeeps
  <2>3. window # "none"
    BY <2>1, <2>2 DEF FoundAWindow
  <2>4. window' # "none" /\ UNCHANGED main
    BY <1>3, <2>3 DEF OnToggle
  <2>5. QED
    BY <1>0, <2>1, <2>4, AskingKeeps DEF FoundAWindow
<1>4. ASSUME NEW c \in Clients, OnQuit(c) PROVE FoundAWindow'
  <2>1. /\ Asks(c, "quit") /\ m_exit_status = 0 /\ UNCHANGED m_exit_status
        /\ requests[c] # <<>> /\ Head(requests[c]) = "quit"
        /\ c # 1 => requests[1] = <<>>
    BY <1>4 DEF OnQuit, Asks
  <2>2. /\ Acting(c) /\ requests'[c] = <<>>
        /\ \A d \in Clients : d # c => requests'[d] = requests[d]
    BY <1>0, <2>1, AskingKeeps
  <2>3. window # "none"
    BY <2>1, <2>2 DEF FoundAWindow
  <2>4. UNCHANGED main
    BY <1>4, <2>3 DEF OnQuit
  <2>5. requests[c] = <<"quit">>
    BY <2>1, RestsShrink DEF FoundAWindow
  <2>6. ASSUME NEW d \in Clients PROVE ~Acting(d)'
    <3>1. CASE d = c
      BY <3>1, <2>2 DEF Acting
    <3>2. CASE d # c /\ c = 1
      <4>1. requests[d] \in Options
        BY <3>2, <2>1 DEF FoundAWindow
      <4>2. QED
        BY <4>1, <3>2, <2>2 DEF Acting, Options
    <3>3. CASE d # c /\ d = 1
      BY <3>3, <2>1, <2>2 DEF Acting
    <3>4. CASE d # c /\ c # 1 /\ d # 1
      <4>1. Quits(c) /\ ~Acts(d)
        BY <3>4, <2>5 DEF FoundAWindow, Quits
      <4>2. QED
        BY <4>1, <3>4, <2>2 DEF Acting, Acts
    <3>5. QED
      BY <3>1, <3>2, <3>3, <3>4
  <2>7. QED
    BY <1>0, <2>1, <2>4, <2>6, AskingKeeps DEF FoundAWindow
<1>5. CASE Users
  <2>1. UNCHANGED appVars => FoundAWindow'
    BY <1>1 DEF appVars, FoundAWindow
  <2>2. QED
    BY <1>2, <1>3, <1>4, <1>5, <2>1 DEF Users
<1>6. CASE Startup
  BY <1>1, <1>6 DEF Startup
<1>7. CASE LoadStyle
  BY <1>1, <1>7 DEF LoadStyle
<1>8. CASE Loaded
  BY <1>1, <1>8 DEF Loaded
<1>9. CASE OnConfigChanged
  BY <1>1, <1>9 DEF OnConfigChanged, Dispatch
<1>10. CASE Exit
  BY <1>1, <1>10 DEF Exit
<1>11. CASE Worker
  BY <1>1, <1>11 DEF Worker, WorkerMonitors, WorkerListens, appVars, FoundAWindow
<1>12. CASE Loads \/ OnCssChanged \/ UNCHANGED vars
  BY <1>1, <1>12 DEF Loads, OnCssChanged, vars, appVars, FoundAWindow
<1>13. QED
  BY <1>5, <1>6, <1>7, <1>8, <1>9, <1>10, <1>11, <1>12 DEF Next, Main

\* An action finds a window unless another invocation quits between it and its
\* activation, for any number of invocations, edits and configs: neither a
\* config that fails, nor the program's own quit, nor a start that failed
\* breaks the assertions.
THEOREM ActionsFind == Spec /\ Undisturbed => []ActionsFindAWindow
<1>1. Init /\ Undisturbed => FoundAWindow
  <2> SUFFICES ASSUME Init, Undisturbed PROVE FoundAWindow
    OBVIOUS
  <2>1. requests \in [Clients -> Options] /\ main = "startup"
    BY DEF Init, ApplicationInit
  <2>2. \A c \in Clients : requests[c] \in Options /\ ~Acting(c)
    BY <2>1 DEF Options, Acting
  <2>3. \A c, d \in Clients \ {1} : c # d /\ Quits(d) => ~Acts(c)
    BY <2>2 DEF Undisturbed, Quits, Acts, Acting
  <2>4. QED
    BY <2>1, <2>2, <2>3 DEF FoundAWindow, Rests, ActionsFindAWindow
<1>2. AInv /\ FoundAWindow /\ [Next]_vars => FoundAWindow'
  BY FindsStep
<1>3. FoundAWindow => ActionsFindAWindow
  BY DEF FoundAWindow
<1>4. QED
  BY <1>1, <1>2, <1>3, InvariantHolds, PTL DEF Spec

=============================================================================
