------------------------------- MODULE Window -------------------------------
(***************************************************************************)
(* The bar: its modules, the three boxes they are in, and vin_window, the  *)
(* function with which a config says which modules it wants, and where.    *)
(*                                                                         *)
(* A call gives lists of integers, one list for each box, and a position.  *)
(* It runs on the main thread, one step here for each element of the lists *)
(* and for each module it removes, because an element can raise a Lua      *)
(* error, which leaves everything before it done and the rest undone.      *)
(***************************************************************************)
EXTENDS Integers, Sequences, SequencesExt

CONSTANTS
  Tables,      \* the lists that configs give: for each location a sequence
  Arguments,   \* the positions that configs give
  NotInteger,  \* an element, key or list that is none, or no position
  NoEntry,     \* of a module that has no widget
  Unset        \* of a widget that was not positioned

Modules   == 0..2
worksapce == 0
time      == 1
notification == 2

Locations == {"start", "center", "end"}
Positions == 0..3

ASSUME TablesAssumption == Tables \subseteq [Locations -> Seq(Int \cup {NotInteger})]
ASSUME ArgumentsAssumption == Arguments \subseteq Int \cup {NotInteger}
ASSUME NoEntryAssumption == NoEntry \notin [position : Nat, location : Locations]
ASSUME NotIntegerAssumption == NotInteger \notin Int

VARIABLES
  m_modules,      \* for each module its entry: the place in the lists and the box
  m_boxes,        \* for each location its widgets, in the order on the screen
  anchored,       \* the position of the window
  oriented,       \* for each module the position of its widget
  vin,            \* the functions in the Lua table of that name
  call,           \* how far the last call with lists is
  list,           \* the elements of the three lists in the order of the loops
  next,           \* the element the loops are at
  do_not_remove,
  argument,       \* the position the call gives
  kept            \* history: modules this call found in place

windowVars ==
  <<m_modules, m_boxes, anchored, oriented, vin, call, list, next, do_not_remove, argument, kept>>

\* The callers of vin_window give an enumerator or any other integer: both are
\* cast to an enum of eight bits.
ModuleOf(value) == value % 256
PositionOf(value) == value % 256

Entries == [position : Nat, location : Locations]
Elements == [location : Locations, position : Nat, value : Int \cup {NotInteger}]
Functions == {"window", "time_module", "notification_module"}

TypeOK ==
  /\ m_modules \in [Modules -> Entries \cup {NoEntry}]
  /\ m_boxes \in [Locations -> Seq(Modules)]
  /\ anchored \in Positions \cup {Unset}
  /\ oriented \in [Modules -> Positions \cup {Unset}]
  /\ vin \subseteq Functions
  /\ call \in {"configuring", "removing", "returned", "raised"}
  /\ list \in Seq(Elements)
  /\ next \in 1..(Len(list) + 1)
  /\ do_not_remove \subseteq Modules
  /\ argument \in Int \cup {NotInteger}
  /\ kept \subseteq Modules

\* init_state makes a new table, and the new window its function in it.
NewTable == {"window"}

\* A new window, whose vfunc_configure puts the function into the table.
WindowInit ==
  /\ m_modules = [m \in Modules |-> NoEntry]
  /\ m_boxes = [l \in Locations |-> <<>>]
  /\ anchored = Unset
  /\ oriented = [m \in Modules |-> Unset]
  /\ vin = NewTable
  /\ call = "returned"
  /\ list = <<>>
  /\ next = 1
  /\ do_not_remove = {}
  /\ argument = NotInteger
  /\ kept = {}

\* The next window's members, of a new object.
NewWindow ==
  /\ m_modules' = [m \in Modules |-> NoEntry]
  /\ m_boxes' = [l \in Locations |-> <<>>]
  /\ anchored' = Unset
  /\ oriented' = [m \in Modules |-> Unset]
  /\ vin' = NewTable
  /\ call' = "returned"
  /\ list' = <<>>
  /\ next' = 1
  /\ do_not_remove' = {}
  /\ argument' = NotInteger
  /\ kept' = {}

ElementsOf(table, l) ==
  [i \in 1..Len(table[l]) |-> [location |-> l, position |-> i - 1, value |-> table[l][i]]]

ListOf(table) ==
  ElementsOf(table, "start") \o ElementsOf(table, "center") \o ElementsOf(table, "end")

-----------------------------------------------------------------------------
(* The end of a call                                                       *)

Present == {m \in Modules : m_modules[m] # NoEntry}

\* Mutant: only the widgets that the call has put somewhere are positioned.
Mutant_RepositionConfigured(value) ==
  IF value # NotInteger /\ PositionOf(value) \in Positions
  THEN /\ anchored' = PositionOf(value)
       /\ oriented' = [m \in Modules |-> IF m \in do_not_remove \ kept THEN PositionOf(value) ELSE oriented[m]]
  ELSE UNCHANGED <<anchored, oriented>>

\* vfunc_position, for the window and the widgets it has.
Reposition(value) ==
  IF value # NotInteger /\ PositionOf(value) \in Positions
  THEN /\ anchored' = PositionOf(value)
       /\ oriented' = [m \in Modules |-> IF m \in Present THEN PositionOf(value) ELSE oriented[m]]
  ELSE UNCHANGED <<anchored, oriented>>

-----------------------------------------------------------------------------
(* vin_window                                                              *)

Idle == call \in {"returned", "raised"}

\* The config calls with lists of modules.
VinWindow(table, value) ==
  /\ Idle
  /\ call' = "configuring"
  /\ list' = ListOf(table)
  /\ next' = 1
  /\ do_not_remove' = {}
  /\ argument' = value
  /\ kept' = {}
  /\ UNCHANGED <<m_modules, m_boxes, anchored, oriented, vin>>

\* The config calls without "modules": the modules stay as they are.
VinWindowWithoutModules(value) ==
  /\ Idle
  /\ Reposition(value)
  /\ argument' = value
  /\ UNCHANGED <<m_modules, m_boxes, vin, call, list, next, do_not_remove, kept>>

-----------------------------------------------------------------------------
(* configure_modules and configure_module                                  *)

Element == list[next]

\* The element is m, when cast to Module.
Names(element, m) == element.value # NotInteger /\ ModuleOf(element.value) = m

\* gtk_box_remove: a widget that is not in the box stays where it is.
Without(box, m) ==
  IF \E i \in DOMAIN box : box[i] = m
  THEN RemoveAt(box, CHOOSE i \in DOMAIN box : box[i] = m)
  ELSE box

\* What vfunc_configure and vfunc_unconfigure do to the table.  The workspaces
\* have neither, and the notifications have no vfunc_unconfigure.
Configure(m) ==
  vin' = vin \cup (CASE m = time         -> {"time_module"}
                     [] m = notification -> {"notification_module"}
                     [] OTHER            -> {})

\* Mutant: the time's function stays in the table.
Mutant_Unconfigure(m) == UNCHANGED vin

Unconfigure(m) == vin' = IF m = time THEN vin \ {"time_module"} ELSE vin

\* The loop has dealt with the element: m is wanted.
Wanted(m) ==
  /\ next' = next + 1
  /\ do_not_remove' = do_not_remove \cup {m}
  /\ UNCHANGED <<anchored, call, list, argument>>

\* The widget is where the element puts it, and is left alone.
InPlace(m) ==
  /\ m_modules[m] # NoEntry
  /\ m_modules[m].position = Element.position
  /\ m_modules[m].location = Element.location

\* Mutant: a module at the same place of another box is taken for in place.
Mutant_KeepModule(m) ==
  /\ m_modules[m] # NoEntry
  /\ m_modules[m].position = Element.position
  /\ kept' = kept \cup {m}
  /\ Wanted(m)
  /\ UNCHANGED <<m_modules, m_boxes, oriented, vin>>

KeepModule(m) ==
  /\ InPlace(m)
  /\ kept' = kept \cup {m}
  /\ Wanted(m)
  /\ UNCHANGED <<m_modules, m_boxes, oriented, vin>>

EntryOf(element) == [position |-> element.position, location |-> element.location]

\* Mutant: gtk_box_prepend.
Mutant_CreateModule(m) ==
  /\ m_modules[m] = NoEntry
  /\ m_modules' = [m_modules EXCEPT ![m] = EntryOf(Element)]
  /\ m_boxes' = [m_boxes EXCEPT ![Element.location] = <<m>> \o @]
  /\ Configure(m)
  /\ kept' = kept \ {m}
  /\ Wanted(m)
  /\ UNCHANGED oriented

\* A module without a widget gets one, which is not positioned yet.
CreateModule(m) ==
  /\ m_modules[m] = NoEntry
  /\ m_modules' = [m_modules EXCEPT ![m] = EntryOf(Element)]
  /\ m_boxes' = [m_boxes EXCEPT ![Element.location] = Append(@, m)]
  /\ Configure(m)
  /\ kept' = kept \ {m}
  /\ Wanted(m)
  /\ UNCHANGED oriented

\* Mutant: the widget is removed from the box it goes to.
Mutant_MoveModule(m) ==
  /\ m_modules[m] # NoEntry
  /\ ~InPlace(m)
  /\ m_modules' = [m_modules EXCEPT ![m] = EntryOf(Element)]
  /\ LET emptied == [m_boxes EXCEPT ![Element.location] = Without(@, m)]
     IN  m_boxes' = [emptied EXCEPT ![Element.location] = Append(@, m)]
  /\ Configure(m)
  /\ kept' = kept \ {m}
  /\ Wanted(m)
  /\ UNCHANGED oriented

\* Another box or another place: the widget goes to the end of the box.
MoveModule(m) ==
  /\ m_modules[m] # NoEntry
  /\ ~InPlace(m)
  /\ m_modules' = [m_modules EXCEPT ![m] = EntryOf(Element)]
  /\ LET emptied == [m_boxes EXCEPT ![m_modules[m].location] = Without(@, m)]
     IN  m_boxes' = [emptied EXCEPT ![Element.location] = Append(@, m)]
  /\ Configure(m)
  /\ kept' = kept \ {m}
  /\ Wanted(m)
  /\ UNCHANGED oriented

ConfigureModule(m) == KeepModule(m) \/ CreateModule(m) \/ MoveModule(m)

AtElement == call = "configuring" /\ next \in DOMAIN list

\* The element is one of the modules.
ConfigureElement ==
  /\ AtElement
  /\ \E m \in Modules : Names(Element, m) /\ ConfigureModule(m)

\* Mutant: an integer that is no module is kept like one.
Mutant_SkipElement ==
  /\ AtElement
  /\ \A m \in Modules : ~Names(Element, m)
  /\ Element.value # NotInteger
  /\ next' = next + 1
  /\ do_not_remove' = do_not_remove \cup {ModuleOf(Element.value)}
  /\ UNCHANGED <<m_modules, m_boxes, anchored, oriented, vin, call, list, argument, kept>>

\* It is another integer, which takes a place and puts nothing there.
SkipElement ==
  /\ AtElement
  /\ Element.value # NotInteger
  /\ \A m \in Modules : ~Names(Element, m)
  /\ next' = next + 1
  /\ UNCHANGED <<m_modules, m_boxes, anchored, oriented, vin, call, list, do_not_remove, argument, kept>>

\* luaL_error: the element is no integer, or the widget for it cannot be
\* initialized.  Only the time never fails.  What the call knew goes with it.
Raise ==
  /\ AtElement
  /\ \/ Element.value = NotInteger
     \/ \E m \in {worksapce, notification} : Names(Element, m) /\ m_modules[m] = NoEntry
  /\ call' = "raised"
  /\ list' = <<>>
  /\ next' = 1
  /\ do_not_remove' = {}
  /\ kept' = {}
  /\ argument' = NotInteger
  /\ UNCHANGED <<m_modules, m_boxes, anchored, oriented, vin>>

-----------------------------------------------------------------------------
(* The rest of vin_window                                                  *)

EndOfLists ==
  /\ call = "configuring"
  /\ next = Len(list) + 1
  /\ call' = "removing"
  /\ UNCHANGED <<m_modules, m_boxes, anchored, oriented, vin, list, next, do_not_remove, argument, kept>>

Unwanted == Present \ do_not_remove

\* The loop over the modules, in their order.
RemoveModule ==
  /\ call = "removing"
  /\ \E m \in Unwanted :
       /\ \A n \in Unwanted : m <= n
       /\ Unconfigure(m)
       /\ m_boxes' = [m_boxes EXCEPT ![m_modules[m].location] = Without(@, m)]
       /\ m_modules' = [m_modules EXCEPT ![m] = NoEntry]
       /\ oriented' = [oriented EXCEPT ![m] = Unset]
  /\ UNCHANGED <<anchored, call, list, next, do_not_remove, argument, kept>>

Return ==
  /\ call = "removing"
  /\ Unwanted = {}
  /\ call' = "returned"
  /\ Reposition(argument)
  /\ UNCHANGED <<m_modules, m_boxes, vin, list, next, do_not_remove, argument, kept>>

WindowStep == ConfigureElement \/ SkipElement \/ EndOfLists \/ RemoveModule

-----------------------------------------------------------------------------
(* Properties                                                              *)

\* A widget is in the box its entry names, once, and no other widget is in a
\* box: between any two elements, and after an error.  A widget that is left
\* in a second box, or is in none, could not be moved or removed any more.
BoxesMatchEntries ==
  \A l \in Locations :
    /\ \A i, j \in DOMAIN m_boxes[l] : m_boxes[l][i] = m_boxes[l][j] => i = j
    /\ \A m \in Modules :
         (\E i \in DOMAIN m_boxes[l] : m_boxes[l][i] = m)
           <=> (m_modules[m] # NoEntry /\ m_modules[m].location = l)

\* The elements that name m.
Naming(m) == {i \in DOMAIN list : Names(list[i], m)}

\* A call that returns leaves exactly the modules of its lists, each in the
\* box and at the place where it is named last: whatever was there before and
\* wherever earlier calls had been broken off.
LayoutIsConfigured ==
  call = "returned" =>
    \A m \in Modules :
      /\ Naming(m) = {} => m_modules[m] = NoEntry
      /\ \A i \in Naming(m) :
           (\A j \in Naming(m) : j <= i) => m_modules[m] = EntryOf(list[i])

\* Two widgets of a box are in another order than the lists' only if the later
\* one was found in place, and so was not put behind what came before it.
OrderIsExplained ==
  call = "returned" =>
    \A l \in Locations : \A i, j \in DOMAIN m_boxes[l] :
      i < j /\ m_modules[m_boxes[l][i]].position > m_modules[m_boxes[l][j]].position
        => m_boxes[l][i] \in kept

\* The config can call a module's function while the module is there; the one
\* of the notifications alone stays in the table when its module is gone.
FunctionsAreLive ==
  /\ "time_module" \in vin <=> m_modules[time] # NoEntry
  /\ m_modules[notification] # NoEntry => "notification_module" \in vin

\* Widgets stand as the window does, or were not positioned: and they are all
\* positioned when a call that gives a position returns.
OrientedAsWindow ==
  \A m \in Modules :
    /\ oriented[m] \in {Unset, anchored}
    /\ /\ call = "returned" /\ m_modules[m] # NoEntry
       /\ argument # NotInteger /\ PositionOf(argument) \in Positions
       => oriented[m] = PositionOf(argument)

=============================================================================
