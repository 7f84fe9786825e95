----------------------------- MODULE TimeModule -----------------------------
(***************************************************************************)
(* The clock of the bar.  One buffer holds, one behind the other and       *)
(* without terminators between them, the time's format and the date's, and *)
(* then the two texts, each with its terminator:                           *)
(*                                                                         *)
(*    0            m_date_format    m_time         m_date            Size  *)
(*    | time format | date format   | time NUL     | date NUL   ...   |    *)
(*                                                                         *)
(* The timer calls update_time on the worker thread; the Lua function,     *)
(* init and dispose run on the main thread.  Nothing keeps them apart, so  *)
(* each load of one of the three pointers and each store of one is a step  *)
(* of its thread, also where one statement loads a pointer twice; the      *)
(* order of the loads within a statement is open.  What is done to the     *)
(* cells is a step per memcpy, text and label.                             *)
(*                                                                         *)
(* A format is a name with a length and the lengths its text can have as   *)
(* time goes by; the formatter throws at one that is malformed, after some *)
(* of the text.                                                            *)
(***************************************************************************)
EXTENDS Integers, Sequences

CONSTANTS
  Size,        \* of m_buffer: 256 in the program
  Formats,     \* the formats that configs give, and the defaults
  Length,      \* Length[f]: how many characters f has
  Malformed,   \* those that the formatter throws at
  Texts,       \* Texts[f]: how many characters f can be rendered to, or are
               \* before it throws; Texts[NoFormat]: of cells that are no format
  DefaultTime, \* DEFAULT_TIME_FORMAT
  DefaultDate, \* DEFAULT_DATE_FORMAT
  Calls,       \* the fields of the calls that configs make, or NoFormat
  MaxCalls     \* bound: how often the Lua function is called

\* A field that is not given; what is rendered when cells are no format.
NoFormat == "nil"

ASSUME SizeAssumption == Size \in Nat /\ Size >= 4
ASSUME FormatsAssumption ==
  /\ NoFormat \notin Formats
  /\ Malformed \subseteq Formats
  /\ Length \in [Formats -> Nat]
  /\ Texts \in [Formats \cup {NoFormat} -> (SUBSET Nat) \ {{}}]
\* A format is its characters, so there is one without any.
ASSUME EmptyAssumption ==
  \A f, g \in Formats : Length[f] = 0 /\ Length[g] = 0 => f = g
ASSUME DefaultsAssumption ==
  /\ {DefaultTime, DefaultDate} \subseteq Formats \ Malformed
  /\ Length[DefaultTime] + Length[DefaultDate] <= Size \div 4
ASSUME CallsAssumption ==
  Calls \subseteq [time : Formats \cup {NoFormat}, date : Formats \cup {NoFormat}]
ASSUME MaxAssumption == MaxCalls \in Nat

VARIABLES
  m_buffer,      \* cells at 0 to Size - 1
  m_date_format, \* the three pointers, as places in the buffer
  m_time,
  m_date,
  timeLabel,     \* what the two labels show
  dateLabel,
  m_timeout,     \* the timer: "created", "attached" or "destroyed"
  pc,            \* where each thread is
  view,          \* per thread: what it has loaded for the next text or label
  args,          \* the two string views of the call on the main thread
  calls,         \* number of calls made, for MaxCalls
  asked,         \* history: the formats that the calls have asked for
  tainted,       \* history: something undefined has touched the buffer
  met            \* history: a callback and a call have been under way at once

pointers == <<m_date_format, m_time, m_date>>
labels   == <<timeLabel, dateLabel>>
history  == <<calls, asked, tainted, met>>
vars     == <<m_buffer, pointers, labels, m_timeout, pc, view, args, history>>

Threads == {"main", "worker"}

\* A cell is a character of a format, of a text, or the terminator.
Character(f, i) == <<f, i>>
Rendered(f)     == <<f, -1>>
Nul             == <<NoFormat, 0>>
Cell            == (Formats \cup {NoFormat}) \X (Nat \cup {-1})

Place    == 0..Size
Arg      == [format : Formats \cup {NoFormat}, from : Place, size : 0..(Size \div 4)]

UpdatingFormat == {"storeDateFormat", "storeTime", "copyDate", "copyTime"}
UpdatingTime   == {"writeTime", "storeDate", "writeDate", "showTime", "showDate"}
Gone           == {"disposing", "disposed", "undefined", "outside"}

\* A view has the place of a text, the place its room is counted from, and
\* the two ends of the format; or what is not loaded yet.
Unloaded == -1
Loadable == Place \cup {Unloaded}
View     == [out : Loadable, base : Loadable, from : Loadable, to : Loadable]
NoView   == [out |-> Unloaded, base |-> Unloaded, from |-> Unloaded, to |-> Unloaded]

TypeOK ==
  /\ m_buffer \in [0..(Size - 1) -> Cell]
  /\ m_date_format \in 0..(Size \div 4)
  /\ m_time \in 0..(Size \div 4)
  /\ m_date \in Place
  /\ timeLabel \in Seq(Cell)
  /\ dateLabel \in Seq(Cell)
  /\ m_timeout \in {"created", "attached", "destroyed"}
  /\ pc \in [Threads -> {"idle"} \cup UpdatingFormat \cup UpdatingTime \cup Gone]
  /\ view \in [Threads -> View]
  /\ args \in [time : Arg, date : Arg]
  /\ calls \in 0..MaxCalls
  /\ asked \in [time : Formats, date : Formats]
  /\ tainted \in BOOLEAN
  /\ met \in BOOLEAN

Given(f)         == [format |-> f, from |-> 0, size |-> Length[f]]
Own(first, last) == [format |-> NoFormat, from |-> first, size |-> last - first]

Defaults == [time |-> Given(DefaultTime), date |-> Given(DefaultDate)]

\* The memory of a new object is zero; init begins with the default formats.
Init ==
  /\ m_buffer = [c \in 0..(Size - 1) |-> Nul]
  /\ m_date_format = 0 /\ m_time = 0 /\ m_date = 0
  /\ timeLabel = <<>> /\ dateLabel = <<>>
  /\ m_timeout = "created"
  /\ pc = [main |-> "storeDateFormat", worker |-> "idle"]
  /\ view = [t \in Threads |-> NoView]
  /\ args = Defaults
  /\ calls = 0
  /\ asked = [time |-> DefaultTime, date |-> DefaultDate]
  /\ tainted = FALSE
  /\ met = FALSE

Go(t, from, to) == pc[t] = from /\ pc' = [pc EXCEPT ![t] = to]

\* The program has done something whose effect C++ does not define: it has
\* used labels that are gone, or cells outside of the buffer, next to which
\* the pointers are.  What it does then is anything, and is not followed.
Ends(how) ==
  /\ pc' = [t \in Threads |-> how]
  /\ UNCHANGED <<m_buffer, pointers, labels, m_timeout, view, args, history>>

Undefined == Ends("undefined")
Outside   == Ends("outside")

-----------------------------------------------------------------------------
(* The Lua function, with its two optional fields, and update_format.      *)

\* A field that is not given is a view of the format in the buffer.
Views(fields) ==
  [time |-> IF fields.time = NoFormat THEN Own(0, m_date_format) ELSE Given(fields.time),
   date |-> IF fields.date = NoFormat THEN Own(m_date_format, m_time) ELSE Given(fields.date)]

\* Mutant: the length of the date's format is forgotten.
IsTimeShort(views) == views.time.size <= Size \div 4

AreShort(views) == views.time.size + views.date.size <= Size \div 4

\* A call that finds the timer in update_time, or is found by it (Tick), races
\* it.
CallTimeModule(fields) ==
  LET given == AreShort(Views(fields))
  IN /\ m_timeout = "attached"
     /\ calls < MaxCalls
     /\ Go("main", "idle", "storeDateFormat")
     /\ calls' = calls + 1
     /\ args' = IF given THEN Views(fields) ELSE Defaults
     /\ asked' = IF given THEN [k \in DOMAIN asked |->
                                  IF fields[k] = NoFormat THEN asked[k] ELSE fields[k]]
                 ELSE [time |-> DefaultTime, date |-> DefaultDate]
     /\ tainted' = \/ pc["worker"] # "idle"
                   \/ tainted /\ given /\ NoFormat \in {fields.time, fields.date}
     /\ met' = (met \/ pc["worker"] # "idle")
     /\ UNCHANGED <<m_buffer, pointers, labels, m_timeout, view>>

StoreDateFormat ==
  /\ Go("main", "storeDateFormat", "storeTime")
  /\ m_date_format' = args.time.size
  /\ UNCHANGED <<m_buffer, m_time, m_date, labels, m_timeout, view, args, history>>

StoreTime ==
  /\ Go("main", "storeTime", "copyDate")
  /\ m_time' = m_date_format + args.date.size
  /\ UNCHANGED <<m_buffer, m_date_format, m_date, labels, m_timeout, view, args, history>>

\* The buffer after a memcpy that reads all it copies before it writes.
Moved(arg, to) ==
  [c \in DOMAIN m_buffer |->
     IF c \notin to..(to + arg.size - 1) THEN m_buffer[c]
     ELSE IF arg.format = NoFormat THEN m_buffer[arg.from + (c - to)]
     ELSE Character(arg.format, c - to)]

\* The same of one that copies byte by byte, to a place inside its source.
Smeared(arg, to) ==
  [c \in DOMAIN m_buffer |->
     IF c \in to..(to + arg.size - 1)
     THEN m_buffer[arg.from + ((c - to) % (to - arg.from))] ELSE m_buffer[c]]

Overlaps(arg, to) ==
  arg.format = NoFormat /\ arg.from < to /\ to < arg.from + arg.size

\* The behaviour of memcpy is undefined when its arguments overlap, as they
\* do when only the time's format is given: it does one or the other.
Memcpy(arg, to) ==
  \/ m_buffer' = Moved(arg, to) /\ UNCHANGED tainted
  \/ Overlaps(arg, to) /\ m_buffer' = Smeared(arg, to) /\ tainted' = TRUE

\* Mutant: the first memcpy copies the time's format.
CopyTimeFirst ==
  /\ Go("main", "copyDate", "copyTime")
  /\ Memcpy(args.time, 0)
  /\ UNCHANGED <<pointers, labels, m_timeout, view, args, calls, asked, met>>

CopyDate ==
  /\ Go("main", "copyDate", "copyTime")
  /\ Memcpy(args.date, m_date_format)
  /\ UNCHANGED <<pointers, labels, m_timeout, view, args, calls, asked, met>>

CopyTime ==
  /\ Go("main", "copyTime", "writeTime")
  /\ Memcpy(args.time, 0)
  /\ args' = Defaults
  /\ UNCHANGED <<pointers, labels, m_timeout, view, calls, asked, met>>

-----------------------------------------------------------------------------
(* update_time, on either thread.                                          *)

\* The loads of the pointers that a thread needs for what it does next.
Loads(t) ==
  CASE pc[t] = "writeTime" -> [out |-> m_time, base |-> m_time, to |-> m_date_format]
    [] pc[t] = "writeDate" -> [out |-> m_date, base |-> m_date,
                               from |-> m_date_format, to |-> m_time]
    [] pc[t] = "showTime"  -> [out |-> m_time]
    [] pc[t] = "showDate"  -> [out |-> m_date]
    [] OTHER               -> <<>>

\* m_time and m_date_format are stored by the main thread alone: which of its
\* loads comes first cannot be told, and they are one step.
Together(t) ==
  IF t = "worker" THEN {{k} : k \in DOMAIN Loads(t)}
  ELSE CASE pc[t] = "writeTime" -> {{"out", "base", "to"}}
         [] pc[t] = "writeDate" -> {{"out"}, {"base"}, {"from", "to"}}
         [] OTHER               -> {DOMAIN Loads(t)}

\* One of the loads: the statements leave their order open.
Load(t) ==
  /\ \E K \in Together(t) :
       LET now(k) == IF k \in K THEN Loads(t)[k] ELSE view[t][k]
       IN /\ \E k \in K : view[t][k] = Unloaded
          /\ view' = [view EXCEPT ![t] = [out  |-> now("out"), base |-> now("base"),
                                         from |-> now("from"), to |-> now("to")]]
  /\ UNCHANGED <<m_buffer, pointers, labels, m_timeout, pc, args, history>>

At(t, where) == pc[t] = where /\ \A k \in DOMAIN Loads(t) : view[t][k] # Unloaded

IsFormat(f, from, to) ==
  /\ to = from + Length[f]
  /\ \A i \in 0..(Length[f] - 1) : m_buffer[from + i] = Character(f, i)

Rendering(f) ==
  [of : {f}, size : Texts[f],
   throws : IF f = NoFormat THEN BOOLEAN ELSE {f \in Malformed}]

\* What vformat_to_n makes of the cells from..(to - 1): of a text that it
\* writes over its own format, anything.
Renderings(out, from, to) ==
  LET is == {f \in Formats : IsFormat(f, from, to)}
  IN UNION {Rendering(f) : f \in IF is = {} \/ out < to THEN is \cup {NoFormat} ELSE is}

\* Not more than `room' characters are written; a negative distance is a
\* size that has no end.
End(r, out, room) == out + (IF r.size < room \/ room < 0 THEN r.size ELSE room)

\* The text, and the terminator of one that did not throw, are in the buffer.
Fits(r, out, room) == End(r, out, room) + (IF r.throws THEN 0 ELSE 1) <= Size

\* The text, and `*result.out = '\0'' unless it threw.
Written(r, out, room) ==
  [c \in DOMAIN m_buffer |->
     IF c \in out..(End(r, out, room) - 1) THEN Rendered(r.of)
     ELSE IF c = End(r, out, room) /\ ~r.throws THEN Nul
     ELSE m_buffer[c]]

\* The distances to m_buffer.end() - 1 and to m_buffer.end() - 2.
DateRoom(v) == Size - 1 - v.base

\* Mutant: the time's room is counted like the date's.
DateRoomForTime(v) == DateRoom(v)

TimeRoom(v) == Size - 2 - v.base

\* The timer's callback begins; a Lua call that is under way races it.
Tick ==
  /\ m_timeout = "attached"
  /\ pc["main"] \notin Gone
  /\ Go("worker", "idle", "writeTime")
  /\ tainted' = (tainted \/ pc["main"] # "idle")
  /\ met' = (met \/ pc["main"] # "idle")
  /\ UNCHANGED <<m_buffer, pointers, labels, m_timeout, view, args, calls, asked>>

\* A format_error leaves what was written, no terminator, and m_date alone.
WriteTime(t) ==
  /\ At(t, "writeTime")
  /\ \E r \in Renderings(view[t].out, 0, view[t].to) :
       /\ Fits(r, view[t].out, TimeRoom(view[t]))
       /\ m_buffer' = Written(r, view[t].out, TimeRoom(view[t]))
       /\ view' = [view EXCEPT ![t] =
                     IF r.throws THEN NoView
                     ELSE [NoView EXCEPT !.out = End(r, view[t].out, TimeRoom(view[t]))]]
       /\ pc' = [pc EXCEPT ![t] = IF r.throws THEN "showTime" ELSE "storeDate"]
  /\ UNCHANGED <<pointers, labels, m_timeout, args, history>>

\* Mutant: the date begins where the time ends, at its terminator.
StoreDateAtTheEnd(t) ==
  /\ Go(t, "storeDate", "writeDate")
  /\ m_date' = view[t].out
  /\ view' = [view EXCEPT ![t] = NoView]
  /\ UNCHANGED <<m_buffer, m_date_format, m_time, labels, m_timeout, args, history>>

\* The date begins behind the end of the time, which view[t].out holds.
StoreDate(t) ==
  /\ Go(t, "storeDate", "writeDate")
  /\ m_date' = view[t].out + 1
  /\ view' = [view EXCEPT ![t] = NoView]
  /\ UNCHANGED <<m_buffer, m_date_format, m_time, labels, m_timeout, args, history>>

WriteDate(t) ==
  /\ At(t, "writeDate")
  /\ view[t].from <= view[t].to
  /\ \E r \in Renderings(view[t].out, view[t].from, view[t].to) :
       /\ Fits(r, view[t].out, DateRoom(view[t]))
       /\ m_buffer' = Written(r, view[t].out, DateRoom(view[t]))
  /\ view' = [view EXCEPT ![t] = NoView]
  /\ pc' = [pc EXCEPT ![t] = "showTime"]
  /\ UNCHANGED <<pointers, labels, m_timeout, args, history>>

\* The two ends of the date's format are loaded one after the other, and
\* m_date_format and m_time are stored so: a view with a negative size.
ReadTornFormat(t) ==
  /\ At(t, "writeDate")
  /\ view[t].from > view[t].to
  /\ Outside

\* A pointer that is loaded twice is stored in between, so that the room is
\* not that of the place; or m_date, after such a time, has no room at all.
WriteOutside(t) ==
  /\ \/ /\ At(t, "writeTime")
        /\ \E r \in Renderings(view[t].out, 0, view[t].to) :
             ~Fits(r, view[t].out, TimeRoom(view[t]))
     \/ /\ At(t, "writeDate")
        /\ view[t].from <= view[t].to
        /\ \E r \in Renderings(view[t].out, view[t].from, view[t].to) :
             ~Fits(r, view[t].out, DateRoom(view[t]))
  /\ Outside

\* The text at a place goes to the first terminator.
IsEnded(from) == \E n \in from..(Size - 1) : m_buffer[n] = Nul

TextAt(from) ==
  LET nul == CHOOSE n \in from..(Size - 1) :
               /\ m_buffer[n] = Nul
               /\ \A c \in from..(n - 1) : m_buffer[c] # Nul
  IN [i \in 1..(nul - from) |-> m_buffer[from + i - 1]]

ShowTime(t) ==
  /\ At(t, "showTime")
  /\ IsEnded(view[t].out)
  /\ pc' = [pc EXCEPT ![t] = "showDate"]
  /\ timeLabel' = TextAt(view[t].out)
  /\ view' = [view EXCEPT ![t] = NoView]
  /\ UNCHANGED <<m_buffer, pointers, dateLabel, m_timeout, args, history>>

ShowDate(t) ==
  /\ At(t, "showDate")
  /\ IsEnded(view[t].out)
  /\ pc' = [pc EXCEPT ![t] = "idle"]
  /\ dateLabel' = TextAt(view[t].out)
  /\ view' = [view EXCEPT ![t] = NoView]
  /\ UNCHANGED <<m_buffer, pointers, timeLabel, m_timeout, args, history>>

\* A text that threw over the last terminator, or a time that took its cell.
ShowOutside(t) ==
  /\ At(t, "showTime") \/ At(t, "showDate")
  /\ ~IsEnded(view[t].out)
  /\ Outside

-----------------------------------------------------------------------------
(* The beginning and the end of the timer.                                 *)

Attach ==
  /\ m_timeout = "created"
  /\ pc["main"] = "idle"
  /\ m_timeout' = "attached"
  /\ UNCHANGED <<m_buffer, pointers, labels, pc, view, args, history>>

\* The labels go before the timer does; a callback that is running, or that
\* begins in between, uses them all the same.
DisposeTemplate ==
  /\ m_timeout = "attached"
  /\ pc["worker"] = "idle"
  /\ Go("main", "idle", "disposing")
  /\ UNCHANGED <<m_buffer, pointers, labels, m_timeout, view, args, history>>

DisposeDuringTick ==
  /\ pc["main"] = "idle"
  /\ pc["worker"] # "idle"
  /\ Undefined

TickDuringDispose ==
  /\ pc["main"] = "disposing"
  /\ pc["worker"] = "idle"
  /\ Undefined

DestroyTimeout ==
  /\ Go("main", "disposing", "disposed")
  /\ m_timeout' = "destroyed"
  /\ UNCHANGED <<m_buffer, pointers, labels, view, args, history>>

-----------------------------------------------------------------------------
UpdateTime(t) ==
  \/ Load(t)
  \/ WriteTime(t)
  \/ StoreDate(t)
  \/ WriteDate(t)
  \/ ReadTornFormat(t)
  \/ WriteOutside(t)
  \/ ShowTime(t)
  \/ ShowDate(t)
  \/ ShowOutside(t)

UpdateFormat == StoreDateFormat \/ StoreTime \/ CopyDate \/ CopyTime

Main == Attach \/ UpdateFormat \/ UpdateTime("main") \/ DestroyTimeout

Worker == Tick \/ UpdateTime("worker")

Next ==
  \/ \E fields \in Calls : CallTimeModule(fields)
  \/ Main
  \/ Worker
  \/ DisposeTemplate
  \/ DisposeDuringTick
  \/ TickDuringDispose

Spec == Init /\ [][Next]_vars

\* Both threads go on, and the timer comes back every half second.  Nobody
\* has to call the function or to dispose of the module.
FairSpec == Spec /\ WF_vars(Main) /\ WF_vars(Worker)

-----------------------------------------------------------------------------
(* Properties                                                              *)

\* As long as no callback and no call have been under way at once, whatever the
\* formats, their texts and what a format that threw has left: no text, and no
\* terminator, is written outside of the buffer, no format or label is read
\* there, and the last cell stays a terminator.
BufferIsSafe ==
  ~met => m_buffer[Size - 1] = Nul /\ \A t \in Threads : pc[t] # "outside"

\* Between two calls the buffer begins with the two formats that were asked
\* for last, each given or kept: no text is written over them, and moving the
\* date's format does not lose it.
FormatsAreKept ==
  ~tainted /\ pc["main"] \notin UpdatingFormat =>
    /\ IsFormat(asked.time, 0, m_date_format)
    /\ IsFormat(asked.date, m_date_format, m_time)

\* `size' characters of the rendering of f.
TextOf(f, size) == [i \in 1..size |-> Rendered(f)]

\* The time is cut off two cells before the end, and the date one.
LabelsAreRight ==
  asked.time \notin Malformed =>
    /\ \E n \in Texts[asked.time] :
         timeLabel = TextOf(asked.time, End([size |-> n], 0, Size - 2 - m_time))
    /\ asked.date \notin Malformed =>
         \E n \in Texts[asked.time], k \in Texts[asked.date] :
           LET date == End([size |-> n], m_time, Size - 2 - m_time) + 1
           IN dateLabel = TextOf(asked.date, End([size |-> k], 0, Size - 1 - date))

\* Whenever no call is under way the labels show the time and the date in the
\* formats that the calls asked for last, each given or kept: no text is
\* written over them, moving the date's format does not lose it, the last
\* thread to show the texts finds them ended, and the call shows them itself.
LabelsAreCurrent ==
  ~tainted /\ pc["main"] \in {"idle", "disposing", "disposed"} => LabelsAreRight

\* Once nobody calls any more the labels come to show the time and the date
\* in the formats asked for, and stay so, even after a format that threw; but
\* for what a race has left in the buffer.
LabelsConverge == <>[](pc["main"] \in Gone \/ tainted \/ LabelsAreRight)

=============================================================================
