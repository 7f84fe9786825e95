-------------------------- MODULE TimeModuleProofs --------------------------
(***************************************************************************)
(* For buffers of every size, formats of every length and any number of    *)
(* calls: what is true whatever the threads do (`TypeOK'), what is as long *)
(* as no callback and no call have been under way at once (`Safe'), and    *)
(* what a call that no callback has met leaves: the formats that it was    *)
(* asked for, and the labels that show them.                               *)
(*                                                                         *)
(* What makes it inductive is where the pointers and the views point while *)
(* a call is under way (`Placed'), that the threads are not both under way *)
(* when nothing has raced (`Apart'), so that what a thread has loaded is   *)
(* what the pointers still are (`Held'), and from where a memcpy that is   *)
(* still to come will take the format (`Kept').                            *)
(***************************************************************************)
EXTENDS TimeModule, WellFoundedInduction, TLAPS

Quarter == Size \div 4

\* Formats end in the first quarter, and texts begin there.
Placed ==
  /\ args.time.from = 0
  /\ args.time.size + args.date.size <= Quarter
  /\ args.date.from + args.date.size <= Quarter
  /\ pc["main"] \in {"storeTime", "copyDate", "copyTime"} => m_date_format = args.time.size
  /\ pc["main"] \in {"copyDate", "copyTime"} => m_time = m_date_format + args.date.size
  /\ pc["main"] \notin {"storeTime", "outside"} => m_date_format <= m_time
  /\ \A t \in Threads :
       /\ pc[t] \in {"idle"} \cup UpdatingFormat => view[t] = NoView
       /\ pc[t] = "storeDate" => view[t].out \in 0..(Size - 1)

\* No race has been, or one that the last call has made good.
Quiet == ~met \/ ~tainted

Apart ==
  Quiet => \/ pc["worker"] \in {"idle", "undefined", "outside"}
           \/ pc["main"] \in {"idle"} \cup Gone

HeldBy(t) ==
  /\ pc[t] = "writeTime" => /\ view[t].out \in {Unloaded, m_time}
                            /\ view[t].base \in {Unloaded, m_time}
                            /\ view[t].to \in {Unloaded, m_date_format}
  /\ pc[t] = "storeDate" => view[t].out \in m_time..(Size - 2)
  /\ pc[t] = "writeDate" => /\ m_date \in m_time..(Size - 1)
                            /\ view[t].out \in {Unloaded, m_date}
                            /\ view[t].base \in {Unloaded, m_date}
                            /\ view[t].from \in {Unloaded, m_date_format}
                            /\ view[t].to \in {Unloaded, m_time}
  /\ pc[t] = "showTime" => view[t].out \in {Unloaded, m_time}
  /\ pc[t] = "showDate" => view[t].out \in {Unloaded, m_date}

\* What has been loaded is what the pointers are.
Held == Quiet => \A t \in Threads : HeldBy(t)

\* A view of f: in the config's memory, or in the buffer.
Has(arg, f) ==
  /\ arg.size = Length[f]
  /\ \/ arg.format = f
     \/ /\ arg.format = NoFormat
        /\ \A i \in 0..(Length[f] - 1) : m_buffer[arg.from + i] = Character(f, i)

\* The formats are in their place, or where a memcpy will find them.
Kept ==
  ~tainted =>
    /\ pc["main"] \notin UpdatingFormat => IsFormat(asked.time, 0, m_date_format)
    /\ pc["main"] \in UpdatingFormat => Has(args.time, asked.time)
    /\ pc["main"] \notin UpdatingFormat \ {"copyTime"} =>
         IsFormat(asked.date, m_date_format, m_time)
    /\ pc["main"] \in UpdatingFormat \ {"copyTime"} => Has(args.date, asked.date)

Safe ==
  ~met => /\ m_buffer[Size - 1] = Nul
          /\ m_date <= Size - 1
          /\ \A t \in Threads : pc[t] # "outside"

IInv == TypeOK /\ Placed /\ Apart /\ Held /\ Kept /\ Safe

-----------------------------------------------------------------------------
(* Arithmetic, and the first of several places                             *)

LEMMA QuarterFits == Quarter \in Nat /\ Quarter <= Size - 2 /\ Quarter = Size \div 4
BY SizeAssumption DEF Quarter

LEMMA ModuloFits ==
  ASSUME NEW a \in Nat, NEW b \in Nat \ {0}
  PROVE  a % b \in 0..(b - 1)
OBVIOUS

Before == {ss \in Nat \X Nat : ss[1] < ss[2]}

LEMMA Least ==
  ASSUME NEW S \in SUBSET Nat, S # {}
  PROVE  \E n \in S : \A m \in S : n <= m
<1>1. OpToRel(<, Nat) = Before
  BY DEF OpToRel, Before
<1>2. IsWellFoundedOn(Before, Nat)
  BY <1>1, NatLessThanWellFounded
<1>3. PICK n \in S : \A m \in S : <<m, n>> \notin Before
  BY <1>2, WFMin, Zenon
<1>4. \A m \in S : ~(m < n)
  BY <1>3 DEF Before
<1>5. QED
  BY <1>4

-----------------------------------------------------------------------------
(* The buffer                                                              *)

LEMMA RenderingType ==
  ASSUME NEW out, NEW from, NEW to, NEW r \in Renderings(out, from, to)
  PROVE  r.of \in Formats \cup {NoFormat} /\ r.size \in Nat /\ r.throws \in BOOLEAN
<1>1. PICK f \in Formats \cup {NoFormat} : r \in Rendering(f)
  BY DEF Renderings
<1>2. Texts[f] \in SUBSET Nat
  BY <1>1, FormatsAssumption
<1>3. CASE f = NoFormat
  <2>1. r \in [of : {f}, size : Texts[f], throws : BOOLEAN]
    BY <1>1, <1>3 DEF Rendering
  <2>2. QED
    BY <1>1, <1>2, <2>1
<1>4. CASE f # NoFormat
  <2>1. r \in [of : {f}, size : Texts[f], throws : {f \in Malformed}]
    BY <1>1, <1>4 DEF Rendering
  <2>2. r.of = f /\ r.size \in Texts[f] /\ r.throws = (f \in Malformed)
    BY <2>1
  <2>3. QED
    BY <1>1, <1>2, <2>2
<1>5. QED
  BY <1>3, <1>4

\* Cells stay cells.
LEMMA WrittenType ==
  ASSUME TypeOK, NEW r, r.of \in Formats \cup {NoFormat}, r.size \in Nat,
         NEW out \in Nat, NEW room \in Int
  PROVE  /\ End(r, out, room) \in Nat
         /\ Written(r, out, room) \in [0..(Size - 1) -> Cell]
<1>1. m_buffer \in [0..(Size - 1) -> Cell]
  BY DEF TypeOK
<1>2. Rendered(r.of) \in Cell /\ Nul \in Cell
  BY DEF Rendered, Nul, Cell
<1>3. Written(r, out, room) \in [0..(Size - 1) -> Cell]
  BY <1>1, <1>2 DEF Written
<1>4. End(r, out, room) \in Nat
  BY DEF End
<1>5. QED
  BY <1>3, <1>4

\* A bounded write ends where it must, and touches nothing before its place.
LEMMA WrittenFits ==
  ASSUME TypeOK, NEW r, r.of \in Formats \cup {NoFormat}, r.size \in Nat, r.throws \in BOOLEAN,
         NEW out \in Nat, NEW room \in Nat, out + room <= Size - 1
  PROVE  /\ End(r, out, room) \in out..(out + room)
         /\ Fits(r, out, room)
         /\ m_buffer[Size - 1] = Nul => Written(r, out, room)[Size - 1] = Nul
         /\ \A c \in 0..(out - 1) : Written(r, out, room)[c] = m_buffer[c]
<1> USE SizeAssumption
<1>1. End(r, out, room) \in out..(out + room)
  <2> DEFINE size == IF r.size < room THEN r.size ELSE room
  <2>1. size \in 0..room /\ ~(room < 0)
    OBVIOUS
  <2> HIDE DEF size
  <2>2. out + size \in out..(out + room)
    BY <2>1
  <2>3. QED
    BY <2>1, <2>2 DEF End, size
<1>2. m_buffer \in [0..(Size - 1) -> Cell]
  BY DEF TypeOK
<1> DEFINE end == End(r, out, room)
<1> HIDE DEF end
<1>w. \A c \in 0..(Size - 1) :
        Written(r, out, room)[c] = IF c \in out..(end - 1) THEN Rendered(r.of)
                                   ELSE IF c = end /\ ~r.throws THEN Nul
                                   ELSE m_buffer[c]
  BY <1>2 DEF Written, end
<1>e. end \in out..(out + room)
  BY <1>1 DEF end
<1>3. Fits(r, out, room)
  <2>1. end + (IF r.throws THEN 0 ELSE 1) <= Size
    BY <1>e
  <2>2. QED
    BY <2>1 DEF Fits, end
<1>6. m_buffer[Size - 1] = Nul => Written(r, out, room)[Size - 1] = Nul
  <2>1. Size - 1 \in 0..(Size - 1) /\ Size - 1 \notin out..(end - 1)
    BY <1>e
  <2>2. QED
    BY <1>w, <2>1
<1>7. ASSUME NEW c \in 0..(out - 1) PROVE Written(r, out, room)[c] = m_buffer[c]
  <2>1. c \in 0..(Size - 1) /\ c \notin out..(end - 1) /\ c # end
    BY <1>e
  <2>2. QED
    BY <1>w, <2>1
<1>8. QED
  BY <1>1, <1>3, <1>6, <1>7

\* A memcpy of a format stays in the first quarter.
LEMMA MemcpyFits ==
  ASSUME TypeOK, NEW arg \in Arg, NEW to \in Nat, Memcpy(arg, to),
         to + arg.size <= Quarter, arg.from + arg.size <= Quarter
  PROVE  /\ m_buffer' \in [0..(Size - 1) -> Cell]
         /\ m_buffer'[Size - 1] = m_buffer[Size - 1]
         /\ tainted' \in BOOLEAN
         /\ ~tainted' => ~tainted /\ m_buffer' = Moved(arg, to)
<1> USE SizeAssumption, QuarterFits
<1>1. /\ m_buffer \in [0..(Size - 1) -> Cell] /\ tainted \in BOOLEAN
      /\ arg.from \in Nat /\ arg.size \in Nat /\ arg.format \in Formats \cup {NoFormat}
  BY DEF TypeOK, Arg, Place
<1>2. Moved(arg, to) \in [0..(Size - 1) -> Cell] /\ Moved(arg, to)[Size - 1] = m_buffer[Size - 1]
  <2>1. ASSUME NEW c \in 0..(Size - 1), c \in to..(to + arg.size - 1)
        PROVE  /\ m_buffer[arg.from + (c - to)] \in Cell
               /\ arg.format # NoFormat => Character(arg.format, c - to) \in Cell
    <3>1. arg.from + (c - to) \in 0..(Size - 1) /\ c - to \in Nat
      BY <2>1, <1>1
    <3>2. QED
      BY <3>1, <1>1 DEF Character, Cell
  <2>2. Moved(arg, to) \in [0..(Size - 1) -> Cell]
    BY <2>1, <1>1 DEF Moved
  <2>3. Size - 1 \notin to..(to + arg.size - 1)
    BY <1>1
  <2>4. QED
    BY <2>2, <2>3, <1>1 DEF Moved
<1>3. CASE Overlaps(arg, to) /\ m_buffer' = Smeared(arg, to) /\ tainted' = TRUE
  <2>1. ASSUME NEW c \in 0..(Size - 1), c \in to..(to + arg.size - 1)
        PROVE  m_buffer[arg.from + ((c - to) % (to - arg.from))] \in Cell
    <3>1. c - to \in Nat /\ to - arg.from \in Nat \ {0}
      BY <2>1, <1>1, <1>3 DEF Overlaps
    <3>2. (c - to) % (to - arg.from) \in 0..(to - arg.from - 1)
      BY <3>1, ModuloFits
    <3>3. arg.from + ((c - to) % (to - arg.from)) \in 0..(Size - 1)
      BY <3>2, <1>1, <2>1
    <3>4. QED
      BY <3>3, <1>1
  <2>2. Smeared(arg, to) \in [0..(Size - 1) -> Cell]
    BY <2>1, <1>1 DEF Smeared
  <2>3. Size - 1 \notin to..(to + arg.size - 1)
    BY <1>1
  <2>4. QED
    BY <1>3, <2>2, <2>3, <1>1 DEF Smeared
<1>4. CASE m_buffer' = Moved(arg, to) /\ UNCHANGED tainted
  BY <1>4, <1>2, <1>1
<1>5. QED
  BY <1>3, <1>4 DEF Memcpy

\* A text that is ended is read in the buffer.
LEMMA TextType ==
  ASSUME TypeOK, NEW from \in Nat, IsEnded(from)
  PROVE  TextAt(from) \in Seq(Cell)
<1> DEFINE S == {n \in from..(Size - 1) : m_buffer[n] = Nul}
           P(n) == m_buffer[n] = Nul /\ \A c \in from..(n - 1) : m_buffer[c] # Nul
           nul == CHOOSE n \in from..(Size - 1) : P(n)
<1> USE SizeAssumption
<1>1. S \in SUBSET Nat /\ S # {}
  <2>1. \E n \in from..(Size - 1) : n \in S
    BY DEF IsEnded
  <2>2. \A n \in from..(Size - 1) : n \in Nat
    OBVIOUS
  <2>3. QED
    BY <2>1, <2>2
<1>2. PICK n \in S : \A m \in S : n <= m
  BY <1>1, Least
<1>3. \E n_1 \in from..(Size - 1) : P(n_1)
  <2>1. \A c \in from..(n - 1) : c \in from..(Size - 1) /\ ~(n <= c)
    OBVIOUS
  <2>2. \A c \in from..(n - 1) : m_buffer[c] # Nul
    BY <2>1, <1>2
  <2>3. QED
    BY <2>2
<1>4. nul \in from..(Size - 1)
  BY <1>3, Zenon
<1> HIDE DEF nul
<1>5. nul - from \in Nat
  BY <1>4
<1>6. \A i \in 1..(nul - from) : m_buffer[from + i - 1] \in Cell
  BY <1>4 DEF TypeOK
<1>7. [i \in 1..(nul - from) |-> m_buffer[from + i - 1]] \in Seq(Cell)
  BY <1>5, <1>6
<1>8. TextAt(from) = [i \in 1..(nul - from) |-> m_buffer[from + i - 1]]
  BY DEF TextAt, nul
<1>9. QED
  BY <1>7, <1>8
-----------------------------------------------------------------------------
(* The steps                                                               *)

LEMMA FormatStays ==
  ASSUME NEW f \in Formats, NEW from \in Nat, NEW to \in Nat, IsFormat(f, from, to),
         \A c \in 0..(to - 1) : m_buffer'[c] = m_buffer[c]
  PROVE  \A i \in 0..(Length[f] - 1) : m_buffer'[from + i] = Character(f, i)
<1>1. Length[f] \in Nat /\ to = from + Length[f]
  BY FormatsAssumption DEF IsFormat
<1>2. QED
  BY <1>1 DEF IsFormat

LEMMA InitIInv == Init => IInv
<1> SUFFICES ASSUME Init PROVE IInv
  OBVIOUS
<1> USE SizeAssumption, QuarterFits, FormatsAssumption, DefaultsAssumption, MaxAssumption DEF Init, Threads
<1>1. /\ Defaults \in [time : Arg, date : Arg]
      /\ Defaults.time.from = 0 /\ Defaults.date.from = 0
      /\ Defaults.time.size = Length[DefaultTime] /\ Defaults.date.size = Length[DefaultDate]
      /\ Length[DefaultTime] \in Nat /\ Length[DefaultDate] \in Nat
      /\ Has(Defaults.time, DefaultTime) /\ Has(Defaults.date, DefaultDate)
  BY DEF Defaults, Given, Arg, Place, Has
<1>2. TypeOK
  <2>1. m_buffer \in [0..(Size - 1) -> Cell]
    BY DEF Nul, Cell
  <2>2. timeLabel \in Seq(Cell) /\ dateLabel \in Seq(Cell)
    OBVIOUS
  <2>3. pc \in [Threads -> {"idle"} \cup UpdatingFormat \cup UpdatingTime \cup Gone]
    BY DEF UpdatingFormat
  <2>4. view \in [Threads -> View]
    BY DEF NoView, View, Loadable
  <2>5. asked \in [time : Formats, date : Formats] /\ calls \in 0..MaxCalls
    OBVIOUS
  <2>6. m_date_format \in 0..(Size \div 4) /\ m_time \in 0..(Size \div 4) /\ m_date \in Place
    BY DEF Place
  <2>7. m_timeout \in {"created", "attached", "destroyed"} /\ tainted \in BOOLEAN /\ met \in BOOLEAN
    OBVIOUS
  <2>8. args \in [time : Arg, date : Arg]
    BY <1>1
  <2>9. QED
    BY <2>1, <2>2, <2>3, <2>4, <2>5, <2>6, <2>7, <2>8, Zenon DEF TypeOK
<1>3. Placed
  BY <1>1 DEF Placed
<1>4. Apart
  BY DEF Apart
<1>5. Held
  BY DEF Held, HeldBy
<1>6. Kept
  BY <1>1 DEF Kept, UpdatingFormat
<1>7. Safe
  BY DEF Safe
<1>8. QED
  BY <1>2, <1>3, <1>4, <1>5, <1>6, <1>7 DEF IInv

\* The pointers that a thread has loaded before it acts.
LEMMA AtIs ==
  ASSUME NEW t \in Threads, NEW where, At(t, where)
  PROVE  /\ pc[t] = where
         /\ where = "writeTime" => /\ view[t].out # Unloaded /\ view[t].base # Unloaded
                                   /\ view[t].to # Unloaded
         /\ where = "writeDate" => /\ view[t].out # Unloaded /\ view[t].base # Unloaded
                                   /\ view[t].from # Unloaded /\ view[t].to # Unloaded
         /\ where \in {"showTime", "showDate"} => view[t].out # Unloaded
BY DEF At, Loads

\* A load leaves what a thread has, or takes what the pointer is.
LEMMA LoadIs ==
  ASSUME TypeOK, NEW t \in Threads, Load(t)
  PROVE  /\ pc[t] \in {"writeTime", "writeDate", "showTime", "showDate"}
         /\ UNCHANGED <<m_buffer, pointers, labels, m_timeout, pc, args, history>>
         /\ \E v \in View :
              /\ view' = [view EXCEPT ![t] = v]
              /\ pc[t] = "writeTime" => /\ v.out \in {view[t].out, m_time}
                                        /\ v.base \in {view[t].base, m_time}
                                        /\ v.to \in {view[t].to, m_date_format}
              /\ pc[t] = "writeDate" => /\ v.out \in {view[t].out, m_date}
                                        /\ v.base \in {view[t].base, m_date}
                                        /\ v.from \in {view[t].from, m_date_format}
                                        /\ v.to \in {view[t].to, m_time}
              /\ pc[t] = "showTime" => v.out \in {view[t].out, m_time}
              /\ pc[t] = "showDate" => v.out \in {view[t].out, m_date}
<1>1. PICK K \in Together(t) :
        LET now(k) == IF k \in K THEN Loads(t)[k] ELSE view[t][k]
        IN /\ \E k \in K : view[t][k] = Unloaded
           /\ view' = [view EXCEPT ![t] = [out  |-> now("out"), base |-> now("base"),
                                          from |-> now("from"), to |-> now("to")]]
  BY DEF Load
<1> DEFINE now(k) == IF k \in K THEN Loads(t)[k] ELSE view[t][k]
           v == [out |-> now("out"), base |-> now("base"), from |-> now("from"), to |-> now("to")]
<1>2. view' = [view EXCEPT ![t] = v] /\ \E k \in K : TRUE
  BY <1>1
<1>u. UNCHANGED <<m_buffer, pointers, labels, m_timeout, pc, args, history>>
  BY DEF Load
<1>3. K \subseteq DOMAIN Loads(t)
  BY SMTT(30) DEF Together, Loads
<1>4. /\ view[t].out \in Loadable /\ view[t].base \in Loadable
      /\ view[t].from \in Loadable /\ view[t].to \in Loadable
      /\ m_date_format \in Loadable /\ m_time \in Loadable /\ m_date \in Loadable
  BY SizeAssumption, QuarterFits DEF TypeOK, View, Loadable, Place, Quarter
<1>v. /\ v.out = now("out") /\ v.base = now("base") /\ v.from = now("from") /\ v.to = now("to")
      /\ now("out") \in Loadable /\ now("base") \in Loadable
         /\ now("from") \in Loadable /\ now("to") \in Loadable => v \in View
  BY DEF View
<1> HIDE DEF v, now
<1>a. CASE pc[t] = "writeTime"
  <2>1. Loads(t) = [out |-> m_time, base |-> m_time, to |-> m_date_format]
    BY <1>a DEF Loads
  <2>2. K \subseteq {"out", "base", "to"}
    BY <1>3, <2>1
  <2>3. /\ now("out") \in {view[t].out, m_time} /\ now("base") \in {view[t].base, m_time}
        /\ now("to") \in {view[t].to, m_date_format} /\ now("from") = view[t].from
    BY <2>1, <2>2 DEF now
  <2>4. QED
    BY <1>a, <1>u, <1>v, <1>2, <1>4, <2>3
<1>b. CASE pc[t] = "writeDate"
  <2>1. Loads(t) = [out |-> m_date, base |-> m_date, from |-> m_date_format, to |-> m_time]
    BY <1>b DEF Loads
  <2>3. /\ now("out") \in {view[t].out, m_date} /\ now("base") \in {view[t].base, m_date}
        /\ now("to") \in {view[t].to, m_time} /\ now("from") \in {view[t].from, m_date_format}
    BY <2>1 DEF now
  <2>4. QED
    BY <1>b, <1>u, <1>v, <1>2, <1>4, <2>3
<1>c. CASE pc[t] = "showTime"
  <2>1. Loads(t) = [out |-> m_time]
    BY <1>c DEF Loads
  <2>2. K \subseteq {"out"}
    BY <1>3, <2>1
  <2>3. /\ now("out") \in {view[t].out, m_time} /\ now("base") = view[t].base
        /\ now("to") = view[t].to /\ now("from") = view[t].from
    BY <2>1, <2>2 DEF now
  <2>4. QED
    BY <1>c, <1>u, <1>v, <1>2, <1>4, <2>3
<1>d. CASE pc[t] = "showDate"
  <2>1. Loads(t) = [out |-> m_date]
    BY <1>d DEF Loads
  <2>2. K \subseteq {"out"}
    BY <1>3, <2>1
  <2>3. /\ now("out") \in {view[t].out, m_date} /\ now("base") = view[t].base
        /\ now("to") = view[t].to /\ now("from") = view[t].from
    BY <2>1, <2>2 DEF now
  <2>4. QED
    BY <1>d, <1>u, <1>v, <1>2, <1>4, <2>3
<1>e. CASE pc[t] \notin {"writeTime", "writeDate", "showTime", "showDate"}
  <2>1. Loads(t) = <<>>
    BY <1>e DEF Loads
  <2>2. QED
    BY <1>2, <1>3, <2>1
<1>5. QED
  BY <1>a, <1>b, <1>c, <1>d, <1>e

\* When nothing has raced a thread is under way alone.
LEMMA IsAlone ==
  ASSUME IInv, Quiet, NEW t \in Threads, pc[t] \in UpdatingTime
  PROVE  /\ \A u \in Threads : u # t => pc[u] \in {"idle"} \cup Gone
         /\ pc["main"] \notin UpdatingFormat
         /\ m_date_format <= m_time
<1> USE DEF IInv, Threads
<1>1. \A u \in Threads : u # t => pc[u] \in {"idle"} \cup Gone
  BY DEF Apart, UpdatingTime, Gone
<1>2. pc["main"] \notin UpdatingFormat
  BY <1>1 DEF UpdatingTime, UpdatingFormat, Gone
<1>3. CASE ~met
  <2>1. pc["main"] \notin {"storeTime", "outside"}
    BY <1>2, <1>3 DEF Safe, UpdatingFormat
  <2>2. QED
    BY <1>1, <1>2, <2>1 DEF Placed
<1>4. CASE ~tainted
  <2>1. IsFormat(asked.date, m_date_format, m_time) /\ asked.date \in Formats
    BY <1>2, <1>4 DEF Kept, TypeOK
  <2>2. m_date_format \in Int /\ Length[asked.date] \in Nat /\ m_time = m_date_format + Length[asked.date]
    BY <2>1, FormatsAssumption DEF TypeOK, IsFormat
  <2>3. QED
    BY <1>1, <1>2, <2>2
<1>5. QED
  BY <1>3, <1>4 DEF Quiet

LEMMA HeldIf ==
  ASSUME NEW t \in Threads, Quiet' => HeldBy(t)',
         Quiet' => \A u \in Threads : u # t => pc'[u] \in {"idle"} \cup UpdatingFormat \cup Gone
  PROVE  Held'
<1>1. ASSUME NEW u \in Threads, pc'[u] \in {"idle"} \cup UpdatingFormat \cup Gone
      PROVE  HeldBy(u)'
  BY <1>1 DEF HeldBy, UpdatingFormat, Gone
<1>2. QED
  BY <1>1 DEF Held

LEMMA LoadStep ==
  ASSUME IInv, NEW t \in Threads, Load(t)
  PROVE  IInv'
<1> USE SizeAssumption, QuarterFits DEF IInv
<1>1. PICK v \in View :
        /\ view' = [view EXCEPT ![t] = v]
        /\ pc[t] = "writeTime" => /\ v.out \in {view[t].out, m_time}
                                  /\ v.base \in {view[t].base, m_time}
                                  /\ v.to \in {view[t].to, m_date_format}
        /\ pc[t] = "writeDate" => /\ v.out \in {view[t].out, m_date}
                                  /\ v.base \in {view[t].base, m_date}
                                  /\ v.from \in {view[t].from, m_date_format}
                                  /\ v.to \in {view[t].to, m_time}
        /\ pc[t] = "showTime" => v.out \in {view[t].out, m_time}
        /\ pc[t] = "showDate" => v.out \in {view[t].out, m_date}
  BY LoadIs
<1>2. /\ pc[t] \in {"writeTime", "writeDate", "showTime", "showDate"}
      /\ UNCHANGED <<m_buffer, pointers, labels, m_timeout, pc, args, history>>
  BY LoadIs
<1>3. view'[t] = v /\ \A u \in Threads : u # t => view'[u] = view[u]
  BY <1>1 DEF TypeOK
<1>4. TypeOK'
  BY <1>1, <1>2 DEF TypeOK, pointers, labels, history
<1>5. Placed'
  BY <1>2, <1>3 DEF Placed, UpdatingFormat, pointers
<1>6. Apart' /\ Safe'
  BY <1>2 DEF Apart, Safe, Quiet, pointers, history
<1>7. Held'
  <2>1. ASSUME Quiet' PROVE HeldBy(t)' /\ \A u \in Threads : u # t => pc'[u] \in {"idle"} \cup Gone
    <3>1. Quiet /\ HeldBy(t)
      BY <1>2, <2>1 DEF Held, Quiet, history
    <3>2. HeldBy(t)'
      BY <1>1, <1>2, <1>3, <3>1 DEF HeldBy, pointers
    <3>3. QED
      BY <1>2, <3>1, <3>2, IsAlone DEF UpdatingTime
  <2>2. QED
    BY <2>1, HeldIf
<1>8. Kept'
  BY <1>2 DEF Kept, IsFormat, Has, pointers, history
<1>9. QED
  BY <1>4, <1>5, <1>6, <1>7, <1>8

\* What a thread has loaded is in the buffer, and nothing that has been stored
\* since.
LEMMA TimeLoaded ==
  ASSUME IInv, NEW t \in Threads, At(t, "writeTime")
  PROVE  /\ pc[t] = "writeTime" /\ view[t].out \in Place /\ TimeRoom(view[t]) \in Int
         /\ Quiet => /\ view[t].out = m_time /\ view[t].to = m_date_format
                     /\ m_time \in 0..Quarter
                     /\ TimeRoom(view[t]) = Size - 2 - m_time
                     /\ TimeRoom(view[t]) \in Nat
                     /\ m_time + TimeRoom(view[t]) <= Size - 1
<1> USE SizeAssumption, QuarterFits DEF IInv
<1>1. /\ pc[t] = "writeTime" /\ view[t].out # Unloaded /\ view[t].base # Unloaded
      /\ view[t].to # Unloaded
  BY AtIs
<1>2. view[t].out \in Loadable /\ view[t].base \in Loadable /\ m_time \in 0..Quarter
  BY DEF TypeOK, View, Quarter
<1>3. view[t].out \in Place /\ TimeRoom(view[t]) \in Int
  BY <1>1, <1>2 DEF Loadable, Place, Unloaded, TimeRoom
<1>4. ASSUME Quiet PROVE view[t].out = m_time /\ view[t].base = m_time /\ view[t].to = m_date_format
  BY <1>1, <1>4 DEF Held, HeldBy
<1>5. QED
  BY <1>1, <1>2, <1>3, <1>4 DEF TimeRoom

LEMMA DateLoaded ==
  ASSUME IInv, NEW t \in Threads, At(t, "writeDate")
  PROVE  /\ pc[t] = "writeDate" /\ view[t].out \in Place /\ DateRoom(view[t]) \in Int
         /\ Quiet => /\ view[t].out = m_date
                     /\ view[t].from = m_date_format /\ view[t].to = m_time
                     /\ m_date \in m_time..(Size - 1) /\ m_date \in Nat
                     /\ DateRoom(view[t]) = Size - 1 - m_date
                     /\ DateRoom(view[t]) \in Nat
                     /\ m_date + DateRoom(view[t]) <= Size - 1
<1> USE SizeAssumption, QuarterFits DEF IInv
<1>1. /\ pc[t] = "writeDate" /\ view[t].out # Unloaded /\ view[t].base # Unloaded
      /\ view[t].from # Unloaded /\ view[t].to # Unloaded
  BY AtIs
<1>2. view[t].out \in Loadable /\ view[t].base \in Loadable /\ m_date \in Place /\ m_time \in Nat
  BY DEF TypeOK, View
<1>3. view[t].out \in Place /\ DateRoom(view[t]) \in Int
  BY <1>1, <1>2 DEF Loadable, Place, Unloaded, DateRoom
<1>4. ASSUME Quiet
      PROVE  /\ view[t].out = m_date /\ view[t].base = m_date
             /\ view[t].from = m_date_format /\ view[t].to = m_time
             /\ m_date \in m_time..(Size - 1)
  BY <1>1, <1>4 DEF Held, HeldBy
<1>5. QED
  BY <1>1, <1>2, <1>3, <1>4 DEF DateRoom, Place

\* A text behind the formats leaves them as they are.
LEMMA KeptIf ==
  ASSUME IInv, NEW t \in Threads, pc[t] \in UpdatingTime,
         pc'["main"] \notin UpdatingFormat,
         UNCHANGED <<m_date_format, m_time, asked, tainted>>,
         ~tainted => \A c \in 0..(m_time - 1) : m_buffer'[c] = m_buffer[c]
  PROVE  Kept'
<1> USE DEF IInv
<1> SUFFICES ASSUME ~tainted' PROVE Kept'
  BY DEF Kept
<1>1. ~tainted /\ pc["main"] \notin UpdatingFormat /\ m_date_format <= m_time
  BY IsAlone DEF Quiet
<1>2. IsFormat(asked.time, 0, m_date_format) /\ IsFormat(asked.date, m_date_format, m_time)
  BY <1>1 DEF Kept
<1>3. m_date_format \in Nat /\ m_time \in Nat /\ asked.time \in Formats /\ asked.date \in Formats
  BY DEF TypeOK
<1>4. \A c \in 0..(m_date_format - 1) : m_buffer'[c] = m_buffer[c]
  BY <1>1, <1>3
<1>5. IsFormat(asked.time, 0, m_date_format)'
  BY <1>2, <1>3, <1>4, FormatStays DEF IsFormat
<1>6. IsFormat(asked.date, m_date_format, m_time)'
  BY <1>1, <1>2, <1>3, FormatStays DEF IsFormat
<1>7. QED
  BY <1>5, <1>6 DEF Kept

LEMMA WriteTimeStep ==
  ASSUME IInv, NEW t \in Threads, WriteTime(t)
  PROVE  IInv'
<1> USE SizeAssumption, QuarterFits DEF IInv
<1> DEFINE out == view[t].out
           room == TimeRoom(view[t])
<1>1. PICK r \in Renderings(out, 0, view[t].to) :
        /\ Fits(r, out, room)
        /\ m_buffer' = Written(r, out, room)
        /\ view' = [view EXCEPT ![t] = IF r.throws THEN NoView
                                       ELSE [NoView EXCEPT !.out = End(r, out, room)]]
        /\ pc' = [pc EXCEPT ![t] = IF r.throws THEN "showTime" ELSE "storeDate"]
  BY DEF WriteTime
<1>b. UNCHANGED <<pointers, labels, m_timeout, args, history>> /\ At(t, "writeTime")
  BY DEF WriteTime
<1> HIDE DEF room
<1>2. /\ pc[t] = "writeTime" /\ out \in Place /\ room \in Int
      /\ Quiet => /\ out = m_time /\ m_time \in 0..Quarter
                  /\ room = Size - 2 - m_time /\ room \in Nat /\ m_time + room <= Size - 1
  BY <1>b, TimeLoaded DEF room
<1> HIDE DEF out
<1>3. r.of \in Formats \cup {NoFormat} /\ r.size \in Nat /\ r.throws \in BOOLEAN
  BY RenderingType
<1> DEFINE end == End(r, out, room)
           to == IF r.throws THEN "showTime" ELSE "storeDate"
           v == IF r.throws THEN NoView ELSE [NoView EXCEPT !.out = end]
<1>4. /\ end \in Nat /\ m_buffer' \in [0..(Size - 1) -> Cell]
      /\ end <= Size /\ (~r.throws => end <= Size - 1)
  <2>1. end \in Nat /\ m_buffer' \in [0..(Size - 1) -> Cell] /\ out \in Nat
    BY <1>1, <1>2, <1>3, WrittenType DEF Place
  <2>2. end + (IF r.throws THEN 0 ELSE 1) <= Size
    BY <1>1 DEF Fits
  <2>3. QED
    BY <1>3, <2>1, <2>2
<1>5. ASSUME Quiet
      PROVE  /\ end \in m_time..(Size - 2)
             /\ m_buffer[Size - 1] = Nul => m_buffer'[Size - 1] = Nul
             /\ \A c \in 0..(m_time - 1) : m_buffer'[c] = m_buffer[c]
  <2>1. out = m_time /\ out \in Nat /\ room \in Nat /\ out + room <= Size - 1 /\ out + room = Size - 2
    BY <1>2, <1>5
  <2>2. /\ end \in out..(out + room)
        /\ m_buffer[Size - 1] = Nul => Written(r, out, room)[Size - 1] = Nul
        /\ \A c \in 0..(out - 1) : Written(r, out, room)[c] = m_buffer[c]
    BY <1>3, <2>1, WrittenFits
  <2>3. QED
    BY <1>1, <2>1, <2>2
<1> HIDE DEF end
<1>6. /\ to \in {"showTime", "storeDate"} /\ v \in View
      /\ to = "storeDate" => v.out = end /\ v.out \in 0..(Size - 1)
      /\ to = "showTime" => v.out = Unloaded
      /\ to = "storeDate" <=> ~r.throws
      /\ pc' = [pc EXCEPT ![t] = to] /\ view' = [view EXCEPT ![t] = v]
  BY <1>1, <1>3, <1>4 DEF NoView, View, Loadable, Place, end
<1> HIDE DEF to, v
<1>7. /\ pc'[t] = to /\ view'[t] = v
      /\ \A u \in Threads : u # t => pc'[u] = pc[u] /\ view'[u] = view[u]
  BY <1>6 DEF TypeOK
<1>8. TypeOK'
  <2>1. pc' \in [Threads -> {"idle"} \cup UpdatingFormat \cup UpdatingTime \cup Gone]
    BY <1>6 DEF TypeOK, UpdatingTime
  <2>2. QED
    BY <1>b, <1>4, <1>6, <2>1 DEF TypeOK, labels, history, pointers
<1>9. Placed'
  BY <1>b, <1>2, <1>6, <1>7 DEF Placed, pointers, UpdatingFormat, Threads
<1>10. Apart'
  BY <1>b, <1>2, <1>6, <1>7 DEF Apart, Quiet, history, Gone, Threads
<1>11. Held'
  <2>1. ASSUME Quiet' PROVE HeldBy(t)' /\ \A u \in Threads : u # t => pc'[u] \in {"idle"} \cup Gone
    <3>1. Quiet
      BY <1>b, <2>1 DEF Quiet, history
    <3>2. HeldBy(t)'
      BY <1>b, <1>5, <1>6, <1>7, <3>1 DEF HeldBy, pointers
    <3>3. QED
      BY <1>2, <1>7, <3>1, <3>2, IsAlone DEF UpdatingTime
  <2>2. QED
    BY <2>1, HeldIf
<1>12. Kept'
  <2>1. ~tainted => \A c \in 0..(m_time - 1) : m_buffer'[c] = m_buffer[c]
    BY <1>5 DEF Quiet
  <2>2. CASE pc'["main"] \notin UpdatingFormat
    BY <1>b, <1>2, <2>1, <2>2, KeptIf DEF UpdatingTime, pointers, history
  <2>3. CASE pc'["main"] \in UpdatingFormat
    <3>1. t # "main" /\ pc["main"] \in UpdatingFormat
      BY <1>6, <1>7, <2>3 DEF Threads, UpdatingFormat
    <3>2. tainted
      BY <1>2, <3>1, IsAlone DEF UpdatingTime, Quiet
    <3>3. QED
      BY <1>b, <3>2 DEF Kept, history
  <2>4. QED
    BY <2>2, <2>3
<1>13. Safe'
  BY <1>b, <1>5, <1>6, <1>7 DEF Safe, Quiet, history, pointers
<1>14. QED
  BY <1>8, <1>9, <1>10, <1>11, <1>12, <1>13

LEMMA StoreDateStep ==
  ASSUME IInv, NEW t \in Threads, StoreDate(t)
  PROVE  IInv'
<1> USE SizeAssumption, QuarterFits DEF IInv
<1>1. /\ pc[t] = "storeDate" /\ pc' = [pc EXCEPT ![t] = "writeDate"]
      /\ m_date' = view[t].out + 1 /\ view' = [view EXCEPT ![t] = NoView]
      /\ UNCHANGED <<m_buffer, m_date_format, m_time, labels, m_timeout, args, history>>
  BY DEF StoreDate, Go
<1>2. view[t].out \in 0..(Size - 1) /\ NoView \in View
  BY <1>1 DEF Placed, NoView, View, Loadable
<1>3. /\ pc'[t] = "writeDate" /\ view'[t] = NoView
      /\ \A u \in Threads : u # t => pc'[u] = pc[u] /\ view'[u] = view[u]
  BY <1>1 DEF TypeOK
<1>4. TypeOK'
  <2>1. pc' \in [Threads -> {"idle"} \cup UpdatingFormat \cup UpdatingTime \cup Gone]
    BY <1>1 DEF TypeOK, UpdatingTime
  <2>2. view' \in [Threads -> View]
    BY <1>1, <1>2 DEF TypeOK
  <2>3. m_date' \in Place
    BY <1>1, <1>2 DEF Place
  <2>4. QED
    BY <1>1, <2>1, <2>2, <2>3 DEF TypeOK, labels, history
<1>5. Placed'
  BY <1>1, <1>3 DEF Placed, UpdatingFormat, Threads
<1>6. Apart'
  BY <1>1, <1>3 DEF Apart, Quiet, history, Gone, Threads
<1>7. ASSUME Quiet PROVE m_date' \in m_time..(Size - 1) /\ m_date' <= Size - 1
  <2>1. view[t].out \in m_time..(Size - 2) /\ m_time \in Nat
    BY <1>1, <1>7 DEF Held, HeldBy, TypeOK
  <2>2. QED
    BY <1>1, <2>1
<1>8. Held'
  <2>1. ASSUME Quiet' PROVE HeldBy(t)' /\ \A u \in Threads : u # t => pc'[u] \in {"idle"} \cup Gone
    <3>1. Quiet
      BY <1>1, <2>1 DEF Quiet, history
    <3>2. HeldBy(t)'
      BY <1>1, <1>3, <1>7, <3>1 DEF HeldBy, NoView
    <3>3. QED
      BY <1>1, <1>3, <3>1, <3>2, IsAlone DEF UpdatingTime
  <2>2. QED
    BY <2>1, HeldIf
<1>9. Kept'
  <2>1. \/ pc'["main"] = pc["main"]
        \/ pc["main"] \notin UpdatingFormat /\ pc'["main"] \notin UpdatingFormat
    BY <1>1, <1>3 DEF Threads, UpdatingFormat
  <2>2. pc["main"] = "copyTime" <=> pc'["main"] = "copyTime"
    BY <1>1, <1>3 DEF Threads
  <2>3. QED
    BY <1>1, <2>1, <2>2 DEF Kept, IsFormat, Has, history
<1>10. Safe'
  BY <1>1, <1>3, <1>7 DEF Safe, Quiet, history
<1>11. QED
  BY <1>4, <1>5, <1>6, <1>8, <1>9, <1>10

LEMMA WriteDateStep ==
  ASSUME IInv, NEW t \in Threads, WriteDate(t)
  PROVE  IInv'
<1> USE SizeAssumption, QuarterFits DEF IInv
<1> DEFINE out == view[t].out
           room == DateRoom(view[t])
<1>1. PICK r \in Renderings(out, view[t].from, view[t].to) : m_buffer' = Written(r, out, room)
  BY DEF WriteDate
<1>b. /\ UNCHANGED <<pointers, labels, m_timeout, args, history>> /\ At(t, "writeDate")
      /\ view' = [view EXCEPT ![t] = NoView] /\ pc' = [pc EXCEPT ![t] = "showTime"]
  BY DEF WriteDate
<1> HIDE DEF room
<1>2. /\ pc[t] = "writeDate" /\ out \in Place /\ room \in Int
      /\ Quiet => /\ out = m_date /\ m_date \in m_time..(Size - 1) /\ m_date \in Nat
                  /\ room \in Nat /\ m_date + room <= Size - 1
  BY <1>b, DateLoaded DEF room
<1> HIDE DEF out
<1>3. r.of \in Formats \cup {NoFormat} /\ r.size \in Nat /\ r.throws \in BOOLEAN
  BY RenderingType
<1>4. m_buffer' \in [0..(Size - 1) -> Cell] /\ NoView \in View
  BY <1>1, <1>2, <1>3, WrittenType DEF Place, NoView, View, Loadable
<1>5. ASSUME Quiet
      PROVE  /\ m_buffer[Size - 1] = Nul => m_buffer'[Size - 1] = Nul
             /\ \A c \in 0..(m_time - 1) : m_buffer'[c] = m_buffer[c]
  <2>1. out = m_date /\ out \in Nat /\ room \in Nat /\ out + room <= Size - 1
    BY <1>2, <1>5
  <2>2. /\ m_buffer[Size - 1] = Nul => Written(r, out, room)[Size - 1] = Nul
        /\ \A c \in 0..(out - 1) : Written(r, out, room)[c] = m_buffer[c]
    BY <1>3, <2>1, WrittenFits
  <2>3. m_time \in Nat /\ m_time <= out
    BY <1>2, <1>5, <2>1 DEF TypeOK
  <2>4. \A c \in 0..(m_time - 1) : c \in 0..(out - 1)
    BY <2>1, <2>3
  <2>5. QED
    BY <1>1, <2>2, <2>4
<1>7. /\ pc'[t] = "showTime" /\ view'[t] = NoView
      /\ \A u \in Threads : u # t => pc'[u] = pc[u] /\ view'[u] = view[u]
  BY <1>b DEF TypeOK
<1>8. TypeOK'
  <2>1. pc' \in [Threads -> {"idle"} \cup UpdatingFormat \cup UpdatingTime \cup Gone]
    BY <1>b DEF TypeOK, UpdatingTime
  <2>2. QED
    BY <1>b, <1>4, <2>1 DEF TypeOK, labels, history, pointers
<1>9. Placed'
  BY <1>b, <1>2, <1>7 DEF Placed, pointers, UpdatingFormat, Threads
<1>10. Apart'
  BY <1>b, <1>2, <1>7 DEF Apart, Quiet, history, Gone, Threads
<1>11. Held'
  <2>1. ASSUME Quiet' PROVE HeldBy(t)' /\ \A u \in Threads : u # t => pc'[u] \in {"idle"} \cup Gone
    <3>1. Quiet
      BY <1>b, <2>1 DEF Quiet, history
    <3>2. HeldBy(t)'
      BY <1>7 DEF HeldBy, NoView
    <3>3. QED
      BY <1>2, <1>7, <3>1, <3>2, IsAlone DEF UpdatingTime
  <2>2. QED
    BY <2>1, HeldIf
<1>12. Kept'
  <2>1. ~tainted => \A c \in 0..(m_time - 1) : m_buffer'[c] = m_buffer[c]
    BY <1>5 DEF Quiet
  <2>2. CASE pc'["main"] \notin UpdatingFormat
    BY <1>b, <1>2, <2>1, <2>2, KeptIf DEF UpdatingTime, pointers, history
  <2>3. CASE pc'["main"] \in UpdatingFormat
    <3>1. t # "main" /\ pc["main"] \in UpdatingFormat
      BY <1>7, <2>3 DEF Threads, UpdatingFormat
    <3>2. tainted
      BY <1>2, <3>1, IsAlone DEF UpdatingTime, Quiet
    <3>3. QED
      BY <1>b, <3>2 DEF Kept, history
  <2>4. QED
    BY <2>2, <2>3
<1>13. Safe'
  BY <1>b, <1>5, <1>7 DEF Safe, Quiet, history, pointers
<1>14. QED
  BY <1>8, <1>9, <1>10, <1>11, <1>12, <1>13

LEMMA ShowTimeStep ==
  ASSUME IInv, NEW t \in Threads, ShowTime(t)
  PROVE  IInv'
<1> USE DEF IInv
<1>1. /\ pc' = [pc EXCEPT ![t] = "showDate"] /\ view' = [view EXCEPT ![t] = NoView]
      /\ timeLabel' = TextAt(view[t].out)
      /\ UNCHANGED <<m_buffer, pointers, dateLabel, m_timeout, args, history>>
  BY DEF ShowTime
<1>2. /\ pc[t] = "showTime" /\ view[t].out # Unloaded /\ IsEnded(view[t].out)
  BY AtIs DEF ShowTime
<1>3. /\ pc'[t] = "showDate" /\ view'[t] = NoView
      /\ \A u \in Threads : u # t => pc'[u] = pc[u] /\ view'[u] = view[u]
  BY <1>1 DEF TypeOK
<1>4. TypeOK'
  <2>1. view[t].out \in Nat
    BY <1>2, SizeAssumption DEF TypeOK, View, Loadable, Place
  <2>2. timeLabel' \in Seq(Cell)
    BY <1>1, <1>2, <2>1, TextType
  <2>3. NoView \in View
    BY DEF NoView, View, Loadable
  <2>4. pc' \in [Threads -> {"idle"} \cup UpdatingFormat \cup UpdatingTime \cup Gone]
    BY <1>1 DEF TypeOK, UpdatingTime
  <2>5. QED
    BY <1>1, <2>2, <2>3, <2>4 DEF TypeOK, pointers, history
<1>5. Placed'
  BY <1>1, <1>2, <1>3 DEF Placed, pointers, UpdatingFormat, Threads
<1>6. Apart'
  BY <1>1, <1>2, <1>3 DEF Apart, Quiet, history, Gone, Threads
<1>7. Held'
  <2>1. ASSUME Quiet' PROVE HeldBy(t)' /\ \A u \in Threads : u # t => pc'[u] \in {"idle"} \cup Gone
    <3>1. Quiet
      BY <1>1, <2>1 DEF Quiet, history
    <3>2. HeldBy(t)'
      BY <1>3 DEF HeldBy, NoView
    <3>3. QED
      BY <1>2, <1>3, <3>1, <3>2, IsAlone DEF UpdatingTime
  <2>2. QED
    BY <2>1, HeldIf
<1>8. Kept'
  <2>1. \/ pc'["main"] = pc["main"]
        \/ pc["main"] \notin UpdatingFormat /\ pc'["main"] \notin UpdatingFormat
    BY <1>2, <1>3 DEF Threads, UpdatingFormat
  <2>2. pc["main"] = "copyTime" <=> pc'["main"] = "copyTime"
    BY <1>2, <1>3 DEF Threads
  <2>3. QED
    BY <1>1, <2>1, <2>2 DEF Kept, IsFormat, Has, history, pointers
<1>9. Safe'
  BY <1>1, <1>3 DEF Safe, history, pointers
<1>10. QED
  BY <1>4, <1>5, <1>6, <1>7, <1>8, <1>9

LEMMA ShowDateStep ==
  ASSUME IInv, NEW t \in Threads, ShowDate(t)
  PROVE  IInv'
<1> USE DEF IInv
<1>1. /\ pc' = [pc EXCEPT ![t] = "idle"] /\ view' = [view EXCEPT ![t] = NoView]
      /\ dateLabel' = TextAt(view[t].out)
      /\ UNCHANGED <<m_buffer, pointers, timeLabel, m_timeout, args, history>>
  BY DEF ShowDate
<1>2. /\ pc[t] = "showDate" /\ view[t].out # Unloaded /\ IsEnded(view[t].out)
  BY AtIs DEF ShowDate
<1>3. /\ pc'[t] = "idle" /\ view'[t] = NoView
      /\ \A u \in Threads : u # t => pc'[u] = pc[u] /\ view'[u] = view[u]
  BY <1>1 DEF TypeOK
<1>4. TypeOK'
  <2>1. view[t].out \in Nat
    BY <1>2, SizeAssumption DEF TypeOK, View, Loadable, Place
  <2>2. dateLabel' \in Seq(Cell)
    BY <1>1, <1>2, <2>1, TextType
  <2>3. NoView \in View
    BY DEF NoView, View, Loadable
  <2>4. pc' \in [Threads -> {"idle"} \cup UpdatingFormat \cup UpdatingTime \cup Gone]
    BY <1>1 DEF TypeOK
  <2>5. QED
    BY <1>1, <2>2, <2>3, <2>4 DEF TypeOK, pointers, history
<1>5. Placed'
  BY <1>1, <1>2, <1>3 DEF Placed, pointers, UpdatingFormat, Threads
<1>6. Apart'
  BY <1>1, <1>2, <1>3 DEF Apart, Quiet, history, Gone, Threads
<1>7. Held'
  <2>1. ASSUME Quiet' PROVE HeldBy(t)' /\ \A u \in Threads : u # t => pc'[u] \in {"idle"} \cup Gone
    <3>1. Quiet
      BY <1>1, <2>1 DEF Quiet, history
    <3>2. HeldBy(t)'
      BY <1>3 DEF HeldBy
    <3>3. QED
      BY <1>2, <1>3, <3>1, <3>2, IsAlone DEF UpdatingTime
  <2>2. QED
    BY <2>1, HeldIf
<1>8. Kept'
  <2>1. \/ pc'["main"] = pc["main"]
        \/ pc["main"] \notin UpdatingFormat /\ pc'["main"] \notin UpdatingFormat
    BY <1>2, <1>3 DEF Threads, UpdatingFormat
  <2>2. pc["main"] = "copyTime" <=> pc'["main"] = "copyTime"
    BY <1>2, <1>3 DEF Threads
  <2>3. QED
    BY <1>1, <2>1, <2>2 DEF Kept, IsFormat, Has, history, pointers
<1>9. Safe'
  BY <1>1, <1>3 DEF Safe, history, pointers
<1>10. QED
  BY <1>4, <1>5, <1>6, <1>7, <1>8, <1>9

\* After a step outside of the buffer nothing moves; it takes a callback that
\* meets a call.
LEMMA OutsideStep ==
  ASSUME IInv, NEW t \in Threads, pc[t] \in UpdatingTime, Outside, met
  PROVE  IInv'
<1> USE DEF IInv
<1>1. /\ pc' = [u \in Threads |-> "outside"]
      /\ UNCHANGED <<m_buffer, pointers, labels, m_timeout, view, args, history>>
  BY DEF Outside, Ends
<1>2. \A u \in Threads : pc'[u] = "outside"
  BY <1>1
<1>3. TypeOK'
  <2>1. pc' \in [Threads -> {"idle"} \cup UpdatingFormat \cup UpdatingTime \cup Gone]
    BY <1>1 DEF Gone
  <2>2. QED
    BY <1>1, <2>1 DEF TypeOK, pointers, labels, history
<1>4. Placed' /\ Apart' /\ Held' /\ Safe'
  BY <1>1, <1>2 DEF Placed, Apart, Held, HeldBy, Safe, UpdatingFormat, Threads, pointers, history
<1>5. Kept'
  <2>1. ~tainted => pc["main"] \notin UpdatingFormat
    BY IsAlone DEF Quiet
  <2>2. QED
    BY <1>1, <1>2, <2>1 DEF Kept, IsFormat, UpdatingFormat, Threads, pointers, history
<1>6. QED
  BY <1>3, <1>4, <1>5

LEMMA ReadTornFormatStep ==
  ASSUME IInv, NEW t \in Threads, ReadTornFormat(t)
  PROVE  IInv'
<1>1. /\ pc[t] = "writeDate" /\ ~(view[t].from <= view[t].to) /\ Outside
      /\ Quiet => view[t].from = m_date_format /\ view[t].to = m_time
  <2>1. /\ view[t].from \in Int /\ view[t].to \in Int
    BY SizeAssumption DEF IInv, TypeOK, View, Loadable, Place, Unloaded
  <2>2. QED
    BY <2>1, DateLoaded DEF ReadTornFormat
<1>2. met
  <2> SUFFICES ASSUME ~met PROVE FALSE
    BY DEF IInv, TypeOK
  <2>1. Quiet
    BY DEF Quiet
  <2>2. m_date_format <= m_time
    BY <1>1, <2>1, IsAlone DEF UpdatingTime
  <2>3. QED
    BY <1>1, <2>1, <2>2
<1>3. QED
  BY <1>1, <1>2, OutsideStep DEF UpdatingTime

LEMMA WriteOutsideStep ==
  ASSUME IInv, NEW t \in Threads, WriteOutside(t)
  PROVE  IInv'
<1>1. Outside
  BY DEF WriteOutside
<1>2. CASE At(t, "writeTime") /\ \E r \in Renderings(view[t].out, 0, view[t].to) :
             ~Fits(r, view[t].out, TimeRoom(view[t]))
  <2> DEFINE out == view[t].out
             room == TimeRoom(view[t])
  <2>1. PICK r \in Renderings(out, 0, view[t].to) : ~Fits(r, out, room)
    BY <1>2
  <2>2. /\ pc[t] = "writeTime" /\ out \in Nat
        /\ Quiet => room \in Nat /\ out + room <= Size - 1
    BY <1>2, TimeLoaded DEF Place
  <2>3. r.of \in Formats \cup {NoFormat} /\ r.size \in Nat /\ r.throws \in BOOLEAN
    BY RenderingType
  <2> HIDE DEF out, room
  <2>4. ~Quiet
    BY <2>1, <2>2, <2>3, WrittenFits DEF IInv
  <2>5. met
    BY <2>4 DEF Quiet, IInv, TypeOK
  <2>6. QED
    BY <1>1, <2>2, <2>5, OutsideStep DEF UpdatingTime
<1>3. CASE At(t, "writeDate") /\ \E r \in Renderings(view[t].out, view[t].from, view[t].to) :
             ~Fits(r, view[t].out, DateRoom(view[t]))
  <2> DEFINE out == view[t].out
             room == DateRoom(view[t])
  <2>1. PICK r \in Renderings(out, view[t].from, view[t].to) : ~Fits(r, out, room)
    BY <1>3
  <2>2. /\ pc[t] = "writeDate" /\ out \in Nat
        /\ Quiet => room \in Nat /\ out + room <= Size - 1
    BY <1>3, DateLoaded DEF Place
  <2>3. r.of \in Formats \cup {NoFormat} /\ r.size \in Nat /\ r.throws \in BOOLEAN
    BY RenderingType
  <2> HIDE DEF out, room
  <2>4. ~Quiet
    BY <2>1, <2>2, <2>3, WrittenFits DEF IInv
  <2>5. met
    BY <2>4 DEF Quiet, IInv, TypeOK
  <2>6. QED
    BY <1>1, <2>2, <2>5, OutsideStep DEF UpdatingTime
<1>4. QED
  BY <1>2, <1>3 DEF WriteOutside

LEMMA ShowOutsideStep ==
  ASSUME IInv, NEW t \in Threads, ShowOutside(t)
  PROVE  IInv'
<1> USE SizeAssumption, QuarterFits DEF IInv
<1>1. /\ pc[t] \in {"showTime", "showDate"} /\ view[t].out # Unloaded
      /\ ~IsEnded(view[t].out) /\ Outside
  BY AtIs DEF ShowOutside
<1>2. met
  <2> SUFFICES ASSUME ~met PROVE FALSE
    BY DEF TypeOK
  <2>1. m_buffer[Size - 1] = Nul /\ m_date <= Size - 1
    BY DEF Safe
  <2>2. view[t].out \in {m_time, m_date}
    BY <1>1 DEF Held, HeldBy, Quiet
  <2>3. m_time \in 0..(Size - 1) /\ m_date \in 0..(Size - 1)
    BY <2>1 DEF TypeOK, Place, Quarter
  <2>4. Size - 1 \in view[t].out..(Size - 1)
    BY <2>2, <2>3
  <2>5. QED
    BY <1>1, <2>1, <2>4 DEF IsEnded
<1>3. QED
  BY <1>1, <1>2, OutsideStep DEF UpdatingTime

\* The main thread's steps in update_format.
LEMMA UpdatingApart ==
  ASSUME IInv, pc["main"] \in UpdatingFormat, NEW to \in UpdatingFormat \cup {"writeTime"},
         pc' = [pc EXCEPT !["main"] = to], UNCHANGED <<view, met>>, ~tainted' => ~tainted
  PROVE  Apart' /\ Held'
<1> USE DEF IInv, Threads
<1>1. pc'["main"] = to /\ pc'["worker"] = pc["worker"] /\ view["main"] = NoView
  BY DEF TypeOK, Placed
<1>2. Quiet' => pc["worker"] \in {"idle", "undefined", "outside"}
  BY DEF Apart, Quiet, UpdatingFormat, Gone
<1>3. HeldBy("main")'
  BY <1>1 DEF HeldBy, NoView, UpdatingFormat
<1>4. pc["worker"] \in {"idle", "undefined", "outside"} => HeldBy("worker")'
  BY <1>1 DEF HeldBy
<1>5. QED
  BY <1>1, <1>2, <1>3, <1>4 DEF Apart, Held

LEMMA CopyDateStep ==
  ASSUME IInv, CopyDate
  PROVE  IInv'
<1> USE SizeAssumption, QuarterFits DEF IInv, Threads, Go
<1>1. /\ pc["main"] = "copyDate" /\ pc' = [pc EXCEPT !["main"] = "copyTime"]
      /\ Memcpy(args.date, m_date_format)
      /\ UNCHANGED <<pointers, labels, m_timeout, view, args, calls, asked, met>>
  BY DEF CopyDate
<1>2. /\ args.date \in Arg /\ args.time \in Arg /\ m_date_format \in Nat
      /\ args.time.size \in Nat /\ args.date.size \in Nat
      /\ args.time.from = 0 /\ m_date_format = args.time.size
      /\ m_time = m_date_format + args.date.size
      /\ m_date_format + args.date.size <= Quarter /\ args.date.from + args.date.size <= Quarter
  BY <1>1 DEF TypeOK, Placed, Arg
<1>3. /\ m_buffer' \in [0..(Size - 1) -> Cell]
      /\ m_buffer'[Size - 1] = m_buffer[Size - 1]
      /\ tainted' \in BOOLEAN
      /\ ~tainted' => ~tainted /\ m_buffer' = Moved(args.date, m_date_format)
  BY <1>1, <1>2, MemcpyFits
<1>4. TypeOK'
  <2>1. pc' \in [Threads -> {"idle"} \cup UpdatingFormat \cup UpdatingTime \cup Gone]
    BY <1>1 DEF TypeOK, UpdatingFormat
  <2>2. QED
    BY <1>1, <1>3, <2>1 DEF TypeOK, pointers, labels
<1>5. Placed'
  BY <1>1, <1>3 DEF TypeOK, Placed, pointers, UpdatingFormat
<1>6. Apart' /\ Held' /\ Safe'
  BY <1>1, <1>3, UpdatingApart DEF UpdatingFormat, Safe, TypeOK, pointers
<1>7. Kept'
  <2> SUFFICES ASSUME ~tainted' PROVE Kept'
    BY DEF Kept
  <2>1. ~tainted /\ pc'["main"] = "copyTime"
    BY <1>1, <1>3 DEF TypeOK
  <2>2. Has(args.time, asked.time) /\ Has(args.date, asked.date)
    BY <1>1, <2>1 DEF Kept, UpdatingFormat
  <2>3. /\ asked.time \in Formats /\ asked.date \in Formats
        /\ Length[asked.time] \in Nat /\ Length[asked.date] \in Nat
        /\ Length[asked.time] = args.time.size /\ Length[asked.date] = args.date.size
        /\ m_buffer \in [0..(Size - 1) -> Cell]
    BY <2>2, FormatsAssumption DEF TypeOK, Has
  <2>4. \A c \in 0..(Size - 1) :
          m_buffer'[c] = IF c \notin m_date_format..(m_date_format + args.date.size - 1) THEN m_buffer[c]
                         ELSE IF args.date.format = NoFormat
                              THEN m_buffer[args.date.from + (c - m_date_format)]
                         ELSE Character(args.date.format, c - m_date_format)
    BY <1>3, <2>3 DEF Moved
  <2>5. \A c \in 0..(m_date_format - 1) : m_buffer'[c] = m_buffer[c]
    <3>1. \A c \in 0..(m_date_format - 1) :
            c \in 0..(Size - 1) /\ c \notin m_date_format..(m_date_format + args.date.size - 1)
      BY <1>2
    <3>2. QED
      BY <3>1, <2>4
  <2>6. Has(args.time, asked.time)'
    <3>1. CASE args.time.format = asked.time
      BY <3>1, <2>3, <1>1 DEF Has
    <3>2. CASE args.time.format = NoFormat /\
               \A i \in 0..(Length[asked.time] - 1) :
                 m_buffer[args.time.from + i] = Character(asked.time, i)
      <4>1. \A i \in 0..(Length[asked.time] - 1) : m_buffer'[i] = Character(asked.time, i)
        BY <3>2, <2>3, <2>5, <1>2
      <4>2. QED
        BY <4>1, <3>2, <2>3, <1>1, <1>2 DEF Has
    <3>3. QED
      BY <3>1, <3>2, <2>2 DEF Has
  <2>7. IsFormat(asked.date, m_date_format, m_time)'
    <3>1. ASSUME NEW i \in 0..(Length[asked.date] - 1)
          PROVE  m_buffer'[m_date_format + i] = Character(asked.date, i)
      <4> DEFINE c == m_date_format + i
      <4>1. /\ c \in 0..(Size - 1) /\ c \in m_date_format..(m_date_format + args.date.size - 1)
            /\ c - m_date_format = i
        <5>1. i \in 0..(args.date.size - 1)
          BY <2>3
        <5>2. QED
          BY <5>1, <1>2
      <4> HIDE DEF c
      <4>2. m_buffer'[c] = IF args.date.format = NoFormat THEN m_buffer[args.date.from + i]
                           ELSE Character(args.date.format, i)
        BY <4>1, <2>4
      <4>3. asked.date # NoFormat
        BY <2>3, FormatsAssumption
      <4>4. m_buffer'[c] = Character(asked.date, i)
        BY <4>2, <4>3, <2>2 DEF Has
      <4>5. QED
        BY <4>4 DEF c
    <3>2. QED
      BY <3>1, <2>3, <1>1, <1>2 DEF IsFormat, pointers
  <2>8. QED
    BY <2>1, <2>6, <2>7 DEF Kept, UpdatingFormat
<1>8. QED
  BY <1>4, <1>5, <1>6, <1>7

LEMMA CopyTimeStep ==
  ASSUME IInv, CopyTime
  PROVE  IInv'
<1> USE SizeAssumption, QuarterFits DEF IInv, Threads, Go
<1>1. /\ pc["main"] = "copyTime" /\ pc' = [pc EXCEPT !["main"] = "writeTime"]
      /\ Memcpy(args.time, 0)
      /\ args' = Defaults
      /\ UNCHANGED <<pointers, labels, m_timeout, view, calls, asked, met>>
  BY DEF CopyTime
<1>2. /\ args.date \in Arg /\ args.time \in Arg /\ m_date_format \in Nat
      /\ args.time.size \in Nat /\ args.date.size \in Nat
      /\ args.time.from = 0 /\ m_date_format = args.time.size
      /\ m_time = m_date_format + args.date.size
      /\ m_date_format + args.date.size <= Quarter
  BY <1>1 DEF TypeOK, Placed, Arg
<1>3. /\ m_buffer' \in [0..(Size - 1) -> Cell]
      /\ m_buffer'[Size - 1] = m_buffer[Size - 1]
      /\ tainted' \in BOOLEAN
      /\ ~tainted' => ~tainted /\ m_buffer' = Moved(args.time, 0)
  <2>1. 0 + args.time.size <= Quarter /\ args.time.from + args.time.size <= Quarter
    BY <1>2
  <2>2. QED
    BY <1>1, <1>2, <2>1, MemcpyFits
<1>4. /\ Defaults \in [time : Arg, date : Arg]
      /\ Defaults.time.from = 0 /\ Defaults.date.from = 0
      /\ Defaults.date.size \in Nat /\ Defaults.time.size \in Nat
      /\ Defaults.time.size + Defaults.date.size <= Quarter
  BY FormatsAssumption, DefaultsAssumption DEF Defaults, Given, Arg, Place
<1>5. TypeOK'
  <2>1. pc' \in [Threads -> {"idle"} \cup UpdatingFormat \cup UpdatingTime \cup Gone]
    BY <1>1 DEF TypeOK, UpdatingTime
  <2>2. QED
    BY <1>1, <1>3, <1>4, <2>1 DEF TypeOK, pointers, labels
<1>6. Placed'
  BY <1>1, <1>3, <1>4 DEF TypeOK, Placed, pointers, UpdatingFormat
<1>7. Apart' /\ Held' /\ Safe'
  BY <1>1, <1>3, UpdatingApart DEF UpdatingFormat, Safe, TypeOK, pointers
<1>8. Kept'
  <2> SUFFICES ASSUME ~tainted' PROVE Kept'
    BY DEF Kept
  <2>1. ~tainted /\ pc'["main"] = "writeTime"
    BY <1>1, <1>3 DEF TypeOK
  <2>2. Has(args.time, asked.time) /\ IsFormat(asked.date, m_date_format, m_time)
    BY <1>1, <2>1 DEF Kept, UpdatingFormat
  <2>3. /\ asked.time \in Formats /\ asked.date \in Formats
        /\ Length[asked.time] \in Nat /\ Length[asked.date] \in Nat
        /\ Length[asked.time] = args.time.size
        /\ m_buffer \in [0..(Size - 1) -> Cell] /\ m_time = m_date_format + Length[asked.date]
    BY <2>2, FormatsAssumption DEF TypeOK, Has, IsFormat
  <2>4. \A c \in 0..(Size - 1) :
          m_buffer'[c] = IF c \notin 0..(args.time.size - 1) THEN m_buffer[c]
                         ELSE IF args.time.format = NoFormat THEN m_buffer[c]
                         ELSE Character(args.time.format, c)
    <3>1. Moved(args.time, 0) =
            [c \in 0..(Size - 1) |->
               IF c \notin 0..(0 + args.time.size - 1) THEN m_buffer[c]
               ELSE IF args.time.format = NoFormat THEN m_buffer[args.time.from + (c - 0)]
               ELSE Character(args.time.format, c - 0)]
      BY <2>3 DEF Moved
    <3>2. \A c \in 0..(Size - 1) : args.time.from + (c - 0) = c /\ c - 0 = c
      BY <1>2
    <3>3. 0 + args.time.size - 1 = args.time.size - 1
      BY <1>2
    <3>4. QED
      BY <1>3, <3>1, <3>2, <3>3
  <2>5. IsFormat(asked.time, 0, m_date_format)'
    <3>1. ASSUME NEW i \in 0..(Length[asked.time] - 1)
          PROVE  m_buffer'[0 + i] = Character(asked.time, i)
      <4>1. i \in 0..(Size - 1) /\ i \in 0..(args.time.size - 1) /\ 0 + i = i
        BY <1>2, <2>3
      <4>2. m_buffer'[i] = IF args.time.format = NoFormat THEN m_buffer[i]
                           ELSE Character(args.time.format, i)
        BY <4>1, <2>4
      <4>3. asked.time # NoFormat
        BY <2>3, FormatsAssumption
      <4>4. args.time.format = NoFormat => m_buffer[i] = Character(asked.time, i)
        <5>1. args.time.from + i = i
          BY <4>1, <1>2
        <5>2. QED
          BY <5>1, <4>3, <2>2 DEF Has
      <4>5. QED
        BY <4>1, <4>2, <4>3, <4>4, <2>2 DEF Has
    <3>2. m_date_format' = 0 + Length[asked.time]
      BY <1>1, <1>2, <2>3 DEF pointers
    <3>3. QED
      BY <3>1, <3>2, <1>1 DEF IsFormat
  <2>6. IsFormat(asked.date, m_date_format, m_time)'
    <3>1. ASSUME NEW i \in 0..(Length[asked.date] - 1)
          PROVE  m_buffer'[m_date_format + i] = Character(asked.date, i)
      <4>0. Length[asked.date] = args.date.size
        BY <1>2, <2>3
      <4>1. i \in 0..(args.date.size - 1)
        BY <4>0
      <4>2. m_date_format + i \in 0..(Size - 1) /\ m_date_format + i \notin 0..(args.time.size - 1)
        BY <4>1, <1>2
      <4>3. m_buffer'[m_date_format + i] = m_buffer[m_date_format + i]
        BY <4>2, <2>4
      <4>4. QED
        BY <4>3, <2>2 DEF IsFormat
    <3>2. QED
      BY <3>1, <2>3, <1>1 DEF IsFormat, pointers
  <2>7. QED
    BY <2>1, <2>5, <2>6 DEF Kept, UpdatingFormat
<1>9. QED
  BY <1>5, <1>6, <1>7, <1>8

LEMMA CallStep ==
  ASSUME IInv, NEW fields \in Calls, CallTimeModule(fields)
  PROVE  IInv'
<1> USE SizeAssumption, QuarterFits DEF IInv, Threads, Go
<1> DEFINE time  == IF fields.time = NoFormat THEN Own(0, m_date_format) ELSE Given(fields.time)
           date  == IF fields.date = NoFormat THEN Own(m_date_format, m_time) ELSE Given(fields.date)
           given == time.size + date.size <= Size \div 4
<1>0. /\ Views(fields) = [time |-> time, date |-> date]
      /\ AreShort(Views(fields)) <=> given
  BY DEF Views, AreShort
<1>1. /\ pc["main"] = "idle" /\ pc' = [pc EXCEPT !["main"] = "storeDateFormat"]
      /\ m_timeout = "attached" /\ calls < MaxCalls /\ calls' = calls + 1
      /\ args' = IF given THEN [time |-> time, date |-> date] ELSE Defaults
      /\ tainted' = (pc["worker"] # "idle" \/
                     (tainted /\ given /\ NoFormat \in {fields.time, fields.date}))
      /\ met' = (met \/ pc["worker"] # "idle")
      /\ UNCHANGED <<m_buffer, pointers, labels, m_timeout, view>>
  BY <1>0 DEF CallTimeModule
<1>2. given => asked' = [time |-> IF fields.time = NoFormat THEN asked.time ELSE fields.time,
                         date |-> IF fields.date = NoFormat THEN asked.date ELSE fields.date]
  BY <1>0 DEF CallTimeModule, TypeOK
<1>3. ~given => asked' = [time |-> DefaultTime, date |-> DefaultDate]
  BY <1>0 DEF CallTimeModule
<1>4. /\ fields.time \in Formats \cup {NoFormat} /\ fields.date \in Formats \cup {NoFormat}
      /\ m_date_format \in Nat /\ m_time \in Nat /\ m_date_format <= m_time /\ m_time <= Quarter
  BY <1>1, CallsAssumption DEF TypeOK, Placed
<1>5. /\ time.from = 0 /\ time.size \in Nat /\ time.format \in Formats \cup {NoFormat}
      /\ date.size \in Nat /\ date.format \in Formats \cup {NoFormat}
      /\ date.from \in Nat /\ (date.from = 0 \/ date.from + date.size <= Quarter)
      /\ time = [format |-> time.format, from |-> time.from, size |-> time.size]
      /\ date = [format |-> date.format, from |-> date.from, size |-> date.size]
  BY <1>4, FormatsAssumption DEF Own, Given
<1>6. /\ ~tainted' => pc["worker"] = "idle"
      /\ ~tainted' /\ given /\ (fields.time = NoFormat \/ fields.date = NoFormat) => ~tainted
      /\ Quiet' => pc["worker"] = "idle"
      /\ ~met' => ~met
      /\ tainted' \in BOOLEAN /\ met' \in BOOLEAN
  BY <1>1 DEF TypeOK, Quiet
<1>d. /\ Defaults \in [time : Arg, date : Arg]
      /\ Defaults.time.from = 0 /\ Defaults.date.from = 0
      /\ Defaults.date.size \in Nat /\ Defaults.time.size \in Nat
      /\ Defaults.time.size + Defaults.date.size <= Quarter
      /\ Has(Defaults.time, DefaultTime)' /\ Has(Defaults.date, DefaultDate)'
  BY FormatsAssumption, DefaultsAssumption DEF Defaults, Given, Arg, Place, Has
<1> HIDE DEF time, date
<1>7. /\ args' \in [time : Arg, date : Arg]
      /\ args'.time.from = 0
      /\ args'.time.size + args'.date.size <= Quarter
      /\ args'.date.from + args'.date.size <= Quarter
  <2>1. CASE given
    <3>1. time \in Arg /\ date \in Arg
      <4>1. time.size \in 0..(Size \div 4) /\ date.size \in 0..(Size \div 4)
            /\ time.from \in Place /\ date.from \in Place
        BY <2>1, <1>5 DEF Place
      <4>2. QED
        BY <4>1, <1>5 DEF Arg
    <3>2. args' = [time |-> time, date |-> date]
      BY <2>1, <1>1
    <3>3. QED
      BY <3>1, <3>2, <2>1, <1>5
  <2>2. CASE ~given
    BY <2>2, <1>1, <1>d
  <2>3. QED
    BY <2>1, <2>2
<1>8. asked' \in [time : Formats, date : Formats]
  <2>1. CASE given
    BY <2>1, <1>2, <1>4 DEF TypeOK
  <2>2. CASE ~given
    BY <2>2, <1>3, DefaultsAssumption
  <2>3. QED
    BY <2>1, <2>2
<1>9. TypeOK'
  <2>1. pc' \in [Threads -> {"idle"} \cup UpdatingFormat \cup UpdatingTime \cup Gone]
    BY <1>1 DEF TypeOK, UpdatingFormat
  <2>2. calls' \in 0..MaxCalls
    BY <1>1, MaxAssumption DEF TypeOK
  <2>3. QED
    BY <1>1, <1>6, <1>7, <1>8, <2>1, <2>2 DEF TypeOK, pointers, labels
<1>10. Placed'
  BY <1>1, <1>7 DEF TypeOK, Placed, pointers, UpdatingFormat
<1>11. Apart' /\ Held' /\ Safe'
  <2>1. pc'["main"] = "storeDateFormat" /\ pc'["worker"] = pc["worker"]
    BY <1>1 DEF TypeOK
  <2>2. QED
    BY <1>1, <1>6, <2>1 DEF Apart, Held, HeldBy, Safe, pointers
<1>12. Kept'
  <2> SUFFICES ASSUME ~tainted' PROVE Kept'
    BY DEF Kept
  <2>1. pc["worker"] = "idle" /\ pc'["main"] = "storeDateFormat" /\ pc'["worker"] = "idle"
    BY <1>1, <1>6 DEF TypeOK
  <2>2. Has(args.time, asked.time)' /\ Has(args.date, asked.date)'
    <3>1. CASE ~given
      BY <3>1, <1>1, <1>3, <1>d DEF Has
    <3>2. CASE given
      <4>0. /\ args'.time = time /\ args'.date = date /\ m_buffer' = m_buffer
            /\ asked'.time = IF fields.time = NoFormat THEN asked.time ELSE fields.time
            /\ asked'.date = IF fields.date = NoFormat THEN asked.date ELSE fields.date
        BY <3>2, <1>1, <1>2
      <4>1. Has(args.time, asked.time)'
        <5>1. CASE fields.time = NoFormat
          <6>1. IsFormat(asked.time, 0, m_date_format)
            BY <5>1, <3>2, <1>1, <1>6 DEF Kept, UpdatingFormat
          <6>2. time = Own(0, m_date_format) /\ asked.time \in Formats
            BY <5>1 DEF time, TypeOK
          <6>3. time.size = Length[asked.time] /\ time.format = NoFormat /\ time.from = 0
            BY <6>1, <6>2, <1>4, FormatsAssumption DEF Own, IsFormat
          <6>4. QED
            BY <4>0, <5>1, <6>1, <6>3 DEF Has, IsFormat
        <5>2. CASE fields.time # NoFormat
          BY <4>0, <5>2 DEF time, Given, Has
        <5>3. QED
          BY <5>1, <5>2
      <4>2. Has(args.date, asked.date)'
        <5>1. CASE fields.date = NoFormat
          <6>1. IsFormat(asked.date, m_date_format, m_time)
            BY <5>1, <3>2, <1>1, <1>6 DEF Kept, UpdatingFormat
          <6>2. date = Own(m_date_format, m_time) /\ asked.date \in Formats
            BY <5>1 DEF date, TypeOK
          <6>3. date.size = Length[asked.date] /\ date.format = NoFormat /\ date.from = m_date_format
            BY <6>1, <6>2, <1>4, FormatsAssumption DEF Own, IsFormat
          <6>4. QED
            BY <4>0, <5>1, <6>1, <6>3 DEF Has, IsFormat
        <5>2. CASE fields.date # NoFormat
          BY <4>0, <5>2 DEF date, Given, Has
        <5>3. QED
          BY <5>1, <5>2
      <4>3. QED
        BY <4>1, <4>2
    <3>3. QED
      BY <3>1, <3>2
  <2>3. QED
    BY <2>1, <2>2 DEF Kept, UpdatingFormat
<1>13. QED
  BY <1>9, <1>10, <1>11, <1>12

LEMMA StoreDateFormatStep ==
  ASSUME IInv, StoreDateFormat
  PROVE  IInv'
<1> USE SizeAssumption, QuarterFits DEF IInv, Threads
<1>1. /\ pc["main"] = "storeDateFormat" /\ pc' = [pc EXCEPT !["main"] = "storeTime"]
      /\ m_date_format' = args.time.size
      /\ UNCHANGED <<m_buffer, m_time, m_date, labels, m_timeout, view, args, history>>
  BY DEF StoreDateFormat, Go
<1>2. pc'["main"] = "storeTime" /\ pc'["worker"] = pc["worker"]
  BY <1>1 DEF TypeOK
<1>3. TypeOK'
  <2>1. args.time.size \in 0..(Size \div 4)
    BY DEF TypeOK, Arg
  <2>2. pc' \in [Threads -> {"idle"} \cup UpdatingFormat \cup UpdatingTime \cup Gone]
    BY <1>1 DEF TypeOK, UpdatingFormat
  <2>3. QED
    BY <1>1, <2>1, <2>2 DEF TypeOK, labels, history
<1>4. Placed'
  BY <1>1, <1>2 DEF Placed, UpdatingFormat
<1>5. Apart' /\ Held' /\ Safe'
  BY <1>1, <1>2, UpdatingApart DEF UpdatingFormat, Safe, history
<1>6. Kept'
  BY <1>1, <1>2 DEF Kept, UpdatingFormat, Has, history
<1>7. QED
  BY <1>3, <1>4, <1>5, <1>6

LEMMA StoreTimeStep ==
  ASSUME IInv, StoreTime
  PROVE  IInv'
<1> USE SizeAssumption, QuarterFits DEF IInv, Threads
<1>1. /\ pc["main"] = "storeTime" /\ pc' = [pc EXCEPT !["main"] = "copyDate"]
      /\ m_time' = m_date_format + args.date.size
      /\ UNCHANGED <<m_buffer, m_date_format, m_date, labels, m_timeout, view, args, history>>
  BY DEF StoreTime, Go
<1>2. pc'["main"] = "copyDate" /\ pc'["worker"] = pc["worker"]
  BY <1>1 DEF TypeOK
<1>3. /\ m_date_format \in Nat /\ args.date.size \in Nat
      /\ m_date_format + args.date.size \in 0..(Size \div 4)
  BY <1>1 DEF TypeOK, Placed, Arg
<1>4. TypeOK'
  <2>1. pc' \in [Threads -> {"idle"} \cup UpdatingFormat \cup UpdatingTime \cup Gone]
    BY <1>1 DEF TypeOK, UpdatingFormat
  <2>2. QED
    BY <1>1, <1>3, <2>1 DEF TypeOK, labels, history
<1>5. Placed'
  BY <1>1, <1>2, <1>3 DEF Placed, UpdatingFormat
<1>6. Apart' /\ Held' /\ Safe'
  BY <1>1, <1>2, UpdatingApart DEF UpdatingFormat, Safe, history
<1>7. Kept'
  BY <1>1, <1>2 DEF Kept, UpdatingFormat, Has, history
<1>8. QED
  BY <1>4, <1>5, <1>6, <1>7

LEMMA TickStep ==
  ASSUME IInv, Tick
  PROVE  IInv'
<1> USE DEF IInv, Threads
<1>1. /\ pc["worker"] = "idle" /\ pc' = [pc EXCEPT !["worker"] = "writeTime"]
      /\ tainted' = (tainted \/ pc["main"] # "idle")
      /\ met' = (met \/ pc["main"] # "idle")
      /\ UNCHANGED <<m_buffer, pointers, labels, m_timeout, view, args, calls, asked>>
  BY DEF Tick, Go
<1>2. /\ pc'["main"] = pc["main"] /\ pc'["worker"] = "writeTime" /\ view["worker"] = NoView
      /\ Quiet' => pc["main"] = "idle"
      /\ ~tainted' => ~tainted
      /\ ~met' => ~met
  BY <1>1 DEF TypeOK, Placed, Quiet
<1>3. TypeOK'
  <2>1. pc' \in [Threads -> {"idle"} \cup UpdatingFormat \cup UpdatingTime \cup Gone]
    BY <1>1 DEF TypeOK, UpdatingTime
  <2>2. tainted' \in BOOLEAN /\ met' \in BOOLEAN
    BY <1>1 DEF TypeOK
  <2>3. QED
    BY <1>1, <2>1, <2>2 DEF TypeOK, labels, pointers
<1>4. Placed'
  BY <1>1, <1>2 DEF Placed, pointers, UpdatingFormat
<1>5. Apart' /\ Held' /\ Safe'
  BY <1>1, <1>2 DEF Apart, Held, HeldBy, Safe, NoView, pointers
<1>6. Kept'
  BY <1>1, <1>2 DEF Kept, IsFormat, Has, pointers
<1>7. QED
  BY <1>3, <1>4, <1>5, <1>6

LEMMA AttachStep ==
  ASSUME IInv, Attach
  PROVE  IInv'
<1> USE DEF IInv, Attach, pointers, labels, history
<1>1. TypeOK'
  BY DEF TypeOK
<1>2. Placed' /\ Apart' /\ Held' /\ Safe'
  BY DEF Placed, Apart, Held, HeldBy, Safe, Quiet
<1>3. Kept'
  BY DEF Kept, IsFormat, Has
<1>4. QED
  BY <1>1, <1>2, <1>3

\* The end of the module, in order or in the middle of a callback.
LEMMA DisposeStep ==
  ASSUME IInv, DisposeTemplate \/ DisposeDuringTick \/ TickDuringDispose \/ DestroyTimeout
  PROVE  IInv'
<1> USE DEF IInv, Threads
<1>1. /\ UNCHANGED <<m_buffer, pointers, labels, view, args, history>>
      /\ m_timeout' \in {"created", "attached", "destroyed"}
      /\ pc' \in [Threads -> {"idle"} \cup UpdatingFormat \cup UpdatingTime \cup Gone]
      /\ pc["main"] \in {"idle", "disposing"} /\ pc'["main"] \in {"disposing", "disposed", "undefined"}
      /\ pc'["worker"] \in {pc["worker"], "undefined"}
  BY DEF TypeOK, DisposeTemplate, DisposeDuringTick, TickDuringDispose, DestroyTimeout,
         Undefined, Ends, Go, Gone
<1>2. TypeOK'
  BY <1>1 DEF TypeOK, pointers, labels, history
<1>3. Placed'
  BY <1>1 DEF Placed, UpdatingFormat, pointers
<1>4. Apart' /\ Held' /\ Safe'
  BY <1>1 DEF Apart, Held, HeldBy, Safe, Quiet, Gone, pointers, history
<1>5. Kept'
  BY <1>1 DEF Kept, UpdatingFormat, IsFormat, Has, pointers, history
<1>6. QED
  BY <1>2, <1>3, <1>4, <1>5

-----------------------------------------------------------------------------
(* The invariant and what follows from it                                  *)

LEMMA StepIInv ==
  ASSUME IInv, [Next]_vars
  PROVE  IInv'
<1>1. CASE \E fields \in Calls : CallTimeModule(fields)
  BY <1>1, CallStep
<1>2. CASE UpdateFormat
  BY <1>2, StoreDateFormatStep, StoreTimeStep, CopyDateStep, CopyTimeStep DEF UpdateFormat
<1>3. CASE \E t \in Threads : UpdateTime(t)
  <2>1. PICK t \in Threads : UpdateTime(t)
    BY <1>3
  <2>2. QED
    BY <2>1, LoadStep, WriteTimeStep, StoreDateStep, WriteDateStep, ReadTornFormatStep,
       WriteOutsideStep, ShowTimeStep, ShowDateStep, ShowOutsideStep DEF UpdateTime
<1>4. CASE Attach \/ Tick
  BY <1>4, AttachStep, TickStep
<1>5. CASE DisposeTemplate \/ DisposeDuringTick \/ TickDuringDispose \/ DestroyTimeout
  BY <1>5, DisposeStep
<1>6. CASE UNCHANGED vars
  BY <1>6 DEF vars, pointers, labels, history, IInv, TypeOK, Placed, Apart, Quiet, Held, HeldBy,
              Kept, Safe, IsFormat, Has
<1>7. "main" \in Threads /\ "worker" \in Threads
  BY DEF Threads
<1>8. QED
  BY <1>1, <1>2, <1>3, <1>4, <1>5, <1>6, <1>7 DEF Next, Main, Worker

LEMMA Invariance == Spec => []IInv
<1>1. IInv /\ [Next]_vars => IInv'
  BY StepIInv
<1>2. QED
  BY InitIInv, <1>1, PTL DEF Spec

\* For every size of the buffer, lengths of formats and texts, and order of
\* the threads' loads, stores and copies: the formats of update_format keep to
\* the first quarter, and what update_time stores, loads and shows is a place
\* of the buffer, or the end of it, unless it has left the buffer before.
THEOREM TypeCorrect == Spec => []TypeOK
<1>1. IInv => TypeOK
  BY DEF IInv
<1>2. QED
  BY <1>1, Invariance, PTL

\* As long as no callback and no call have been under way at once, nothing is
\* written or read outside of the buffer, and its last cell is a terminator:
\* whatever the lengths of the formats and the texts, malformed or not, and
\* whatever an overlapping memcpy has left of them.
THEOREM SafeBuffer == Spec => []BufferIsSafe
<1>1. IInv => BufferIsSafe
  BY DEF IInv, Safe, BufferIsSafe
<1>2. QED
  BY <1>1, Invariance, PTL

\* The two formats in the buffer are the ones that the calls asked for last,
\* given or kept, unless a callback has met a call.
THEOREM KeptFormats == Spec => []FormatsAreKept
<1>1. IInv => FormatsAreKept
  BY DEF IInv, Kept, FormatsAreKept, UpdatingFormat
<1>2. QED
  BY <1>1, Invariance, PTL

-----------------------------------------------------------------------------
(* The labels                                                              *)
(*                                                                         *)
(* What a label shows is made in several steps of a thread, of texts whose *)
(* places it takes from the members: the text it has written, where that   *)
(* ended, and the label it has set first.                                  *)

\* The time is in its place, and the date's is behind its terminator.
TimeIsWritten(next) ==
  \E n \in Texts[asked.time] :
    LET end == End([size |-> n], m_time, Size - 2 - m_time)
    IN /\ next = end + 1
       /\ \A c \in m_time..(end - 1) : m_buffer[c] = Rendered(asked.time)
       /\ m_buffer[end] = Nul

DateIsWritten ==
  \E k \in Texts[asked.date] :
    LET end == End([size |-> k], m_date, Size - 1 - m_date)
    IN /\ \A c \in m_date..(end - 1) : m_buffer[c] = Rendered(asked.date)
       /\ m_buffer[end] = Nul

TimeLabelIsRight ==
  \E n \in Texts[asked.time] :
    timeLabel = TextOf(asked.time, End([size |-> n], 0, Size - 2 - m_time))

\* How far a thread is.
WroteBy(t) ==
  /\ pc[t] = "storeDate" => TimeIsWritten(view[t].out + 1)
  /\ pc[t] = "writeDate" => TimeIsWritten(m_date)
  /\ pc[t] \in {"showTime", "showDate"} /\ asked.time \notin Malformed =>
       TimeIsWritten(m_date) /\ (asked.date \notin Malformed => DateIsWritten)
  /\ pc[t] = "showDate" /\ asked.time \notin Malformed => TimeLabelIsRight

Wrote == ~tainted => \A t \in Threads : WroteBy(t)

LInv == Wrote /\ LabelsAreCurrent

\* Cells that hold a format hold no other.
LEMMA FormatIsOne ==
  ASSUME NEW f \in Formats, NEW g \in Formats, NEW from \in Nat, NEW to \in Nat,
         IsFormat(f, from, to), IsFormat(g, from, to)
  PROVE  f = g
<1>1. Length[f] \in Nat /\ Length[g] \in Nat /\ Length[f] = Length[g]
  BY FormatsAssumption DEF IsFormat
<1>2. CASE Length[f] = 0
  BY <1>1, <1>2, EmptyAssumption
<1>3. CASE Length[f] # 0
  <2>1. 0 \in 0..(Length[f] - 1)
    BY <1>1, <1>3
  <2>2. Character(f, 0) = Character(g, 0)
    BY <1>1, <2>1 DEF IsFormat
  <2>3. QED
    BY <2>2 DEF Character
<1>4. QED
  BY <1>2, <1>3

\* A format, written behind itself, is rendered as that format.
LEMMA RenderingIs ==
  ASSUME NEW f \in Formats, NEW from \in Nat, NEW to \in Nat, IsFormat(f, from, to),
         NEW out \in Nat, to <= out, NEW r \in Renderings(out, from, to)
  PROVE  r.of = f /\ r.size \in Texts[f] /\ r.size \in Nat /\ r.throws = (f \in Malformed)
<1>1. {g \in Formats : IsFormat(g, from, to)} = {f}
  BY FormatIsOne
<1>2. ~(out < to)
  OBVIOUS
<1>3. r \in Rendering(f)
  BY <1>1, <1>2 DEF Renderings
<1>4. f # NoFormat /\ Texts[f] \in SUBSET Nat
  BY FormatsAssumption
<1>5. r \in [of : {f}, size : Texts[f], throws : {f \in Malformed}]
  BY <1>3, <1>4 DEF Rendering
<1>6. QED
  BY <1>4, <1>5

\* The end moves with the place.
LEMMA EndIs ==
  ASSUME NEW n \in Nat, NEW out \in Nat, NEW room \in Nat
  PROVE  /\ End([size |-> n], out, room) = out + End([size |-> n], 0, room)
         /\ End([size |-> n], out, room) \in out..(out + room)
         /\ End([size |-> n], 0, room) \in Nat
<1> DEFINE size == IF n < room THEN n ELSE room
<1>1. size \in 0..room /\ ~(room < 0)
  OBVIOUS
<1>2. [size |-> n].size = n
  OBVIOUS
<1>3. End([size |-> n], out, room) = out + size /\ End([size |-> n], 0, room) = 0 + size
  BY <1>1, <1>2 DEF End
<1> HIDE DEF size
<1>4. QED
  BY <1>1, <1>3

\* A text that did not throw is in the buffer, and ends there.
LEMMA WrittenShows ==
  ASSUME TypeOK, NEW r, r.size \in Nat, ~r.throws,
         NEW out \in Nat, NEW room \in Nat, out + room <= Size - 1
  PROVE  LET end == End([size |-> r.size], out, room)
         IN /\ \A c \in out..(end - 1) : Written(r, out, room)[c] = Rendered(r.of)
            /\ Written(r, out, room)[end] = Nul
<1> DEFINE end == End(r, out, room)
<1>2. end = End([size |-> r.size], out, room) /\ end \in out..(out + room)
  <2>1. end = End([size |-> r.size], out, room)
    BY DEF End
  <2> HIDE DEF end
  <2>2. QED
    BY <2>1, EndIs
<1>3. DOMAIN m_buffer = 0..(Size - 1)
  BY DEF TypeOK
<1>4. Written(r, out, room) =
        [c \in 0..(Size - 1) |->
           IF c \in out..(end - 1) THEN Rendered(r.of)
           ELSE IF c = end /\ ~r.throws THEN Nul
           ELSE m_buffer[c]]
  BY <1>3 DEF Written
<1> HIDE DEF end
<1>5. /\ \A c \in out..(end - 1) : c \in 0..(Size - 1)
      /\ end \in 0..(Size - 1) /\ end \notin out..(end - 1)
  BY <1>2, SizeAssumption
<1>6. QED
  BY <1>2, <1>4, <1>5

\* The label shows the text up to its terminator.
LEMMA TextIs ==
  ASSUME NEW f \in Formats, NEW from \in Nat, NEW end \in from..(Size - 1),
         \A c \in from..(end - 1) : m_buffer[c] = Rendered(f),
         m_buffer[end] = Nul
  PROVE  TextAt(from) = TextOf(f, end - from)
<1> USE SizeAssumption
<1> DEFINE P(n) == m_buffer[n] = Nul /\ \A c \in from..(n - 1) : m_buffer[c] # Nul
           nul == CHOOSE n \in from..(Size - 1) : P(n)
<1>1. Rendered(f) # Nul
  BY DEF Rendered, Nul
<1>2. P(end)
  BY <1>1
<1>3. nul \in from..(Size - 1) /\ P(nul)
  BY <1>2, Zenon
<1>4. TextAt(from) = [i \in 1..(nul - from) |-> m_buffer[from + i - 1]]
  BY DEF TextAt
<1>5. m_buffer[nul] = Nul /\ \A c \in from..(nul - 1) : m_buffer[c] # Nul
  BY <1>3
<1> HIDE DEF nul
<1>6. nul = end
  <2>1. ~(nul < end)
    <3> SUFFICES ASSUME nul < end PROVE FALSE
      OBVIOUS
    <3>1. nul \in from..(end - 1)
      BY <1>3
    <3>2. QED
      BY <3>1, <1>1, <1>5
  <2>2. ~(end < nul)
    <3> SUFFICES ASSUME end < nul PROVE FALSE
      OBVIOUS
    <3>1. end \in from..(nul - 1)
      BY <1>3
    <3>2. QED
      BY <3>1, <1>5
  <2>3. QED
    BY <1>3, <2>1, <2>2
<1>7. \A i \in 1..(end - from) : from + i - 1 \in from..(end - 1)
  OBVIOUS
<1>8. QED
  BY <1>4, <1>6, <1>7 DEF TextOf

\* In an untainted buffer one thread is under way at most, and what it reads
\* are the formats asked for.
LEMMA Alone ==
  ASSUME IInv, ~tainted, NEW t \in Threads, pc[t] \in UpdatingTime
  PROVE  /\ \A u \in Threads : u # t => pc[u] \notin UpdatingTime
         /\ IsFormat(asked.time, 0, m_date_format) /\ IsFormat(asked.date, m_date_format, m_time)
         /\ asked.time \in Formats /\ asked.date \in Formats
         /\ m_date_format \in Nat /\ m_date_format <= m_time
         /\ m_time \in 0..Quarter /\ m_time \in Nat
         /\ Texts[asked.time] \subseteq Nat /\ Texts[asked.date] \subseteq Nat
<1> USE DEF IInv, Threads
<1>1. /\ \A u \in Threads : u # t => pc[u] \in {"idle"} \cup Gone
      /\ pc["main"] \notin UpdatingFormat /\ m_date_format <= m_time
  BY IsAlone DEF Quiet
<1>2. \A u \in Threads : u # t => pc[u] \notin UpdatingTime
  BY <1>1 DEF UpdatingTime, Gone
<1>3. IsFormat(asked.time, 0, m_date_format) /\ IsFormat(asked.date, m_date_format, m_time)
  BY <1>1 DEF Kept
<1>4. /\ asked.time \in Formats /\ asked.date \in Formats
      /\ m_date_format \in Nat /\ m_time \in 0..Quarter /\ m_time \in Nat
  BY SizeAssumption, QuarterFits DEF TypeOK, Quarter
<1>5. Texts[asked.time] \subseteq Nat /\ Texts[asked.date] \subseteq Nat
  BY <1>4, FormatsAssumption
<1>6. QED
  BY <1>1, <1>2, <1>3, <1>4, <1>5

LEMMA WroteIf ==
  ASSUME NEW t \in Threads, \A u \in Threads : u # t => pc'[u] \notin UpdatingTime,
         ~tainted' => WroteBy(t)'
  PROVE  Wrote'
<1>1. ASSUME NEW u \in Threads, pc'[u] \notin UpdatingTime PROVE WroteBy(u)'
  BY <1>1 DEF WroteBy, UpdatingTime
<1>2. QED
  BY <1>1 DEF Wrote

LEMMA LabelsStay ==
  ASSUME LabelsAreCurrent, UNCHANGED <<labels, asked, m_time>>, ~tainted' => ~tainted,
         \/ pc'["main"] \notin {"idle", "disposing", "disposed"}
         \/ pc["main"] \in {"idle", "disposing", "disposed"}
  PROVE  LabelsAreCurrent'
<1>1. LabelsAreRight => LabelsAreRight'
  BY DEF LabelsAreRight, labels
<1>2. QED
  BY <1>1 DEF LabelsAreCurrent

LEMMA LoadLabels ==
  ASSUME IInv, LInv, NEW t \in Threads, Load(t)
  PROVE  LInv'
<1> USE DEF LInv
<1>1. /\ pc[t] \in {"writeTime", "writeDate", "showTime", "showDate"}
      /\ UNCHANGED <<m_buffer, pointers, labels, m_timeout, pc, args, history>>
      /\ \A u \in Threads : u # t => view'[u] = view[u]
  BY LoadIs DEF IInv, TypeOK
<1>2. LabelsAreCurrent'
  BY <1>1, LabelsStay DEF pointers, history
<1>3. ASSUME NEW u \in Threads, WroteBy(u) PROVE WroteBy(u)'
  BY <1>1, <1>3 DEF WroteBy, TimeIsWritten, DateIsWritten, TimeLabelIsRight, pointers, labels, history
<1>4. QED
  BY <1>1, <1>2, <1>3 DEF Wrote, history

LEMMA WriteTimeLabels ==
  ASSUME IInv, LInv, NEW t \in Threads, WriteTime(t)
  PROVE  LInv'
<1> USE SizeAssumption, QuarterFits DEF LInv
<1> DEFINE out == view[t].out
           room == TimeRoom(view[t])
<1>1. PICK r \in Renderings(out, 0, view[t].to) :
        /\ m_buffer' = Written(r, out, room)
        /\ view' = [view EXCEPT ![t] = IF r.throws THEN NoView
                                       ELSE [NoView EXCEPT !.out = End(r, out, room)]]
        /\ pc' = [pc EXCEPT ![t] = IF r.throws THEN "showTime" ELSE "storeDate"]
  BY DEF WriteTime
<1>b. UNCHANGED <<pointers, labels, m_timeout, args, history>> /\ At(t, "writeTime")
  BY DEF WriteTime
<1> HIDE DEF room
<1>2. /\ pc[t] = "writeTime" /\ TypeOK
      /\ Quiet => /\ out = m_time /\ view[t].to = m_date_format /\ out \in Nat
                  /\ room = Size - 2 - m_time /\ room \in Nat /\ out + room <= Size - 1
  <2>1. m_time \in Nat
    BY DEF IInv, TypeOK
  <2>2. QED
    BY <2>1, <1>b, TimeLoaded DEF room, IInv
<1> HIDE DEF out
<1>3. /\ ~r.throws => pc'[t] = "storeDate" /\ view'[t] = [NoView EXCEPT !.out = End(r, out, room)]
      /\ r.throws => pc'[t] = "showTime"
      /\ \A u \in Threads : u # t => pc'[u] = pc[u] /\ view'[u] = view[u]
  BY <1>1, <1>2 DEF TypeOK
<1>4. r.throws \in BOOLEAN
  BY RenderingType
<1>5. LabelsAreCurrent'
  BY <1>b, <1>2, <1>3, <1>4, LabelsStay DEF Threads, history, pointers
<1>6. ASSUME ~tainted' PROVE WroteBy(t)' /\ \A u \in Threads : u # t => pc'[u] \notin UpdatingTime
  <2>1. ~tainted /\ pc[t] \in UpdatingTime /\ Quiet
    BY <1>2, <1>6, <1>b DEF history, UpdatingTime, Quiet
  <2>2. /\ asked.time \in Formats /\ IsFormat(asked.time, 0, m_date_format)
        /\ m_date_format \in Nat /\ m_date_format <= m_time
        /\ \A u \in Threads : u # t => pc[u] \notin UpdatingTime
    BY <2>1, Alone
  <2>3. /\ r.of = asked.time /\ r.size \in Texts[asked.time] /\ r.size \in Nat
        /\ r.throws = (asked.time \in Malformed)
    BY <1>2, <2>1, <2>2, RenderingIs
  <2>4. ASSUME ~r.throws PROVE TimeIsWritten(view[t].out + 1)'
    <3> DEFINE n == r.size
               end == End([size |-> n], m_time, Size - 2 - m_time)
    <3>1. End(r, out, room) = end
      BY <1>2, <2>1 DEF End
    <3>2. view'[t].out = end
      BY <1>3, <2>4, <3>1 DEF NoView
    <3>3. /\ \A c \in m_time..(end - 1) : m_buffer'[c] = Rendered(asked.time)
          /\ m_buffer'[end] = Nul
      <4> HIDE DEF end, n
      <4>1. end = End([size |-> r.size], out, room)
        BY <1>2, <2>1 DEF end, n
      <4>2. /\ \A c \in out..(end - 1) : Written(r, out, room)[c] = Rendered(r.of)
            /\ Written(r, out, room)[end] = Nul
        BY <4>1, <1>2, <2>1, <2>3, <2>4, WrittenShows
      <4>3. QED
        BY <4>2, <1>1, <1>2, <2>1, <2>3
    <3>4. m_time' = m_time /\ asked' = asked
      BY <1>b DEF pointers, history
    <3>5. n \in Texts[asked.time]
      BY <2>3
    <3> HIDE DEF n
    <3>6. /\ view'[t].out + 1 = end + 1
          /\ end = End([size |-> n], m_time', Size - 2 - m_time')
      BY <3>2, <3>4
    <3> HIDE DEF end
    <3>7. QED
      BY <3>3, <3>4, <3>5, <3>6 DEF TimeIsWritten
  <2>5. asked' = asked
    BY <1>b DEF history
  <2>6. WroteBy(t)'
    BY <1>3, <1>4, <2>3, <2>4, <2>5 DEF WroteBy
  <2>7. QED
    BY <1>3, <2>2, <2>6
<1>7. Wrote'
  BY <1>6, WroteIf DEF Wrote
<1>8. QED
  BY <1>5, <1>7

LEMMA StoreDateLabels ==
  ASSUME IInv, LInv, NEW t \in Threads, StoreDate(t)
  PROVE  LInv'
<1>1. /\ pc[t] = "storeDate" /\ pc' = [pc EXCEPT ![t] = "writeDate"]
      /\ m_date' = view[t].out + 1
      /\ UNCHANGED <<m_buffer, m_time, labels, history>>
  BY DEF StoreDate, Go
<1>2. pc'[t] = "writeDate" /\ \A u \in Threads : u # t => pc'[u] = pc[u]
  BY <1>1 DEF IInv, TypeOK
<1>3. LabelsAreCurrent'
  BY <1>1, <1>2, LabelsStay DEF LInv, Threads, history
<1>4. ASSUME ~tainted' PROVE WroteBy(t)' /\ \A u \in Threads : u # t => pc'[u] \notin UpdatingTime
  <2>1. ~tainted /\ pc[t] \in UpdatingTime
    BY <1>1, <1>4 DEF history, UpdatingTime
  <2>2. TimeIsWritten(view[t].out + 1)
    BY <1>1, <2>1 DEF LInv, Wrote, WroteBy
  <2>3. TimeIsWritten(m_date)'
    BY <1>1, <2>2 DEF TimeIsWritten, history
  <2>4. QED
    BY <1>2, <2>1, <2>3, Alone DEF WroteBy
<1>5. Wrote'
  BY <1>4, WroteIf DEF Wrote
<1>6. QED
  BY <1>3, <1>5 DEF LInv

LEMMA WriteDateLabels ==
  ASSUME IInv, LInv, NEW t \in Threads, WriteDate(t)
  PROVE  LInv'
<1> USE SizeAssumption, QuarterFits DEF LInv
<1> DEFINE out == view[t].out
           room == DateRoom(view[t])
<1>1. PICK r \in Renderings(out, view[t].from, view[t].to) : m_buffer' = Written(r, out, room)
  BY DEF WriteDate
<1>b. /\ UNCHANGED <<pointers, labels, m_timeout, args, history>> /\ At(t, "writeDate")
      /\ view' = [view EXCEPT ![t] = NoView] /\ pc' = [pc EXCEPT ![t] = "showTime"]
  BY DEF WriteDate
<1> HIDE DEF room
<1>2. /\ pc[t] = "writeDate" /\ TypeOK
      /\ Quiet => /\ out = m_date /\ view[t].from = m_date_format /\ view[t].to = m_time
                  /\ m_date \in m_time..(Size - 1) /\ out \in Nat /\ m_time <= out
                  /\ room = Size - 1 - m_date /\ room \in Nat /\ out + room <= Size - 1
  <2>1. m_time \in Nat
    BY DEF IInv, TypeOK
  <2>2. QED
    BY <2>1, <1>b, DateLoaded DEF room, IInv
<1> HIDE DEF out
<1>3. pc'[t] = "showTime" /\ \A u \in Threads : u # t => pc'[u] = pc[u]
  BY <1>b, <1>2 DEF TypeOK
<1>5. LabelsAreCurrent'
  BY <1>b, <1>2, <1>3, LabelsStay DEF Threads, history, pointers
<1>4. ASSUME ~tainted' PROVE WroteBy(t)' /\ \A u \in Threads : u # t => pc'[u] \notin UpdatingTime
  <2>1. ~tainted /\ pc[t] \in UpdatingTime /\ Quiet
    BY <1>2, <1>4, <1>b DEF history, UpdatingTime, Quiet
  <2>2. TimeIsWritten(m_date)
    BY <1>2, <2>1 DEF Wrote, WroteBy
  <2>3. /\ asked.date \in Formats /\ IsFormat(asked.date, m_date_format, m_time)
        /\ m_date_format \in Nat /\ m_time \in 0..Quarter /\ m_time \in Nat
        /\ Texts[asked.time] \subseteq Nat /\ Texts[asked.date] \subseteq Nat
        /\ \A u \in Threads : u # t => pc[u] \notin UpdatingTime
    BY <2>1, Alone
  <2>4. /\ r.of = asked.date /\ r.size \in Texts[asked.date] /\ r.size \in Nat
        /\ r.throws = (asked.date \in Malformed)
    BY <1>2, <2>1, <2>3, RenderingIs
  <2>5. out = m_date /\ room = Size - 1 - m_date /\ out \in Nat /\ room \in Nat /\ out + room <= Size - 1
    BY <1>2, <2>1
  <2>6. UNCHANGED <<asked, m_time, m_date>>
    BY <1>b DEF history, pointers
  <2>7. TimeIsWritten(m_date)'
    <3>1. PICK n \in Texts[asked.time] :
            LET end == End([size |-> n], m_time, Size - 2 - m_time)
            IN /\ m_date = end + 1
               /\ \A c \in m_time..(end - 1) : m_buffer[c] = Rendered(asked.time)
               /\ m_buffer[end] = Nul
      BY <2>2 DEF TimeIsWritten
    <3> DEFINE end == End([size |-> n], m_time, Size - 2 - m_time)
    <3>2. end \in Nat /\ m_time \in Nat
      <4> DEFINE rest == Size - 2 - m_time
      <4>1. n \in Nat /\ rest \in Nat /\ m_time \in Nat
        BY <2>3
      <4> HIDE DEF rest
      <4>2. End([size |-> n], m_time, rest) \in m_time..(m_time + rest)
        BY <4>1, EndIs
      <4>3. QED
        BY <4>1, <4>2 DEF rest
    <3>3. \A c \in 0..(m_date - 1) : m_buffer'[c] = m_buffer[c]
      <4>1. r.of \in Formats \cup {NoFormat} /\ r.size \in Nat /\ r.throws \in BOOLEAN
        BY RenderingType
      <4>2. \A c \in 0..(out - 1) : Written(r, out, room)[c] = m_buffer[c]
        <5>1. TypeOK
          BY <1>2
        <5>2. out \in Nat /\ room \in Nat /\ out + room <= Size - 1
          BY <2>5
        <5>3. QED
          BY <4>1, <5>1, <5>2, WrittenFits
      <4>3. QED
        BY <4>2, <1>1, <2>5
    <3> HIDE DEF end
    <3>4. /\ m_date = end + 1
          /\ \A c \in m_time..(end - 1) : m_buffer[c] = Rendered(asked.time)
          /\ m_buffer[end] = Nul
      BY <3>1 DEF end
    <3>5. end \in 0..(m_date - 1) /\ \A c \in m_time..(end - 1) : c \in 0..(m_date - 1)
      BY <3>2, <3>4
    <3>6. /\ \A c \in m_time..(end - 1) : m_buffer'[c] = Rendered(asked.time)
          /\ m_buffer'[end] = Nul
      BY <3>3, <3>4, <3>5
    <3>7. QED
      BY <2>6, <3>1, <3>4, <3>6 DEF TimeIsWritten, end
  <2>8. ASSUME asked.date \notin Malformed PROVE DateIsWritten'
    <3> DEFINE k == r.size
               end == End([size |-> k], m_date, Size - 1 - m_date)
    <3>1. k \in Texts[asked.date] /\ ~r.throws
      BY <2>4, <2>8
    <3>2. /\ \A c \in m_date..(end - 1) : m_buffer'[c] = Rendered(asked.date)
          /\ m_buffer'[end] = Nul
      <4> HIDE DEF out, room, end, k
      <4>1. end = End([size |-> r.size], out, room)
        BY <2>5 DEF end, k
      <4>2. /\ \A c \in out..(end - 1) : Written(r, out, room)[c] = Rendered(r.of)
            /\ Written(r, out, room)[end] = Nul
        BY <4>1, <1>2, <2>4, <2>5, <3>1, WrittenShows
      <4>3. QED
        BY <4>2, <1>1, <2>4, <2>5
    <3> HIDE DEF end, k
    <3>3. QED
      BY <2>6, <3>1, <3>2 DEF DateIsWritten, end
  <2>9. WroteBy(t)'
    BY <1>3, <2>6, <2>7, <2>8 DEF WroteBy
  <2>10. QED
    BY <1>3, <2>3, <2>9
<1>6. Wrote'
  BY <1>4, WroteIf DEF Wrote
<1>7. QED
  BY <1>5, <1>6

\* What a text that is in its place is in a label.
LEMMA TimeShows ==
  ASSUME IInv, ~tainted, NEW t \in Threads, pc[t] \in UpdatingTime, TimeIsWritten(m_date)
  PROVE  /\ \E n \in Texts[asked.time] :
              TextAt(m_time) = TextOf(asked.time, End([size |-> n], 0, Size - 2 - m_time))
         /\ \E n \in Texts[asked.time] :
              m_date = End([size |-> n], m_time, Size - 2 - m_time) + 1
         /\ m_date \in Nat /\ m_date <= Size - 1
<1> USE SizeAssumption, QuarterFits
<1>1. /\ asked.time \in Formats /\ m_time \in 0..Quarter /\ Texts[asked.time] \subseteq Nat
  BY Alone
<1>2. PICK n \in Texts[asked.time] :
        LET end == End([size |-> n], m_time, Size - 2 - m_time)
        IN /\ m_date = end + 1
           /\ \A c \in m_time..(end - 1) : m_buffer[c] = Rendered(asked.time)
           /\ m_buffer[end] = Nul
  BY DEF TimeIsWritten
<1> DEFINE room == Size - 2 - m_time
           end  == End([size |-> n], m_time, room)
           long == End([size |-> n], 0, room)
<1>3. n \in Nat /\ m_time \in Nat /\ room \in Nat /\ m_time + room = Size - 2
  BY <1>1
<1>4. /\ m_date = end + 1
      /\ \A c \in m_time..(end - 1) : m_buffer[c] = Rendered(asked.time)
      /\ m_buffer[end] = Nul
  BY <1>2
<1> HIDE DEF room
<1>5. end = m_time + long /\ end \in m_time..(m_time + room) /\ long \in Nat
  <2>1. n \in Nat /\ m_time \in Nat /\ room \in Nat
    BY <1>3
  <2>2. QED
    BY <2>1, EndIs
<1> HIDE DEF end, long
<1>6. end \in m_time..(Size - 1) /\ end - m_time = long
  BY <1>3, <1>5
<1>7. TextAt(m_time) = TextOf(asked.time, long)
  BY <1>1, <1>3, <1>4, <1>6, TextIs
<1>8. m_date \in Nat /\ m_date <= Size - 1
  BY <1>3, <1>4, <1>5
<1>9. QED
  BY <1>4, <1>7, <1>8 DEF long, end, room

LEMMA DateShows ==
  ASSUME IInv, ~tainted, NEW t \in Threads, pc[t] \in UpdatingTime,
         TimeIsWritten(m_date), DateIsWritten
  PROVE  \E k \in Texts[asked.date] :
           TextAt(m_date) = TextOf(asked.date, End([size |-> k], 0, Size - 1 - m_date))
<1> USE SizeAssumption
<1>1. /\ asked.date \in Formats /\ Texts[asked.date] \subseteq Nat
      /\ m_date \in Nat /\ m_date <= Size - 1
  BY Alone, TimeShows
<1>2. PICK k \in Texts[asked.date] :
        LET end == End([size |-> k], m_date, Size - 1 - m_date)
        IN /\ \A c \in m_date..(end - 1) : m_buffer[c] = Rendered(asked.date)
           /\ m_buffer[end] = Nul
  BY DEF DateIsWritten
<1> DEFINE room == Size - 1 - m_date
           end  == End([size |-> k], m_date, room)
           long == End([size |-> k], 0, room)
<1>3. k \in Nat /\ room \in Nat /\ m_date + room = Size - 1
  BY <1>1
<1>4. /\ \A c \in m_date..(end - 1) : m_buffer[c] = Rendered(asked.date)
      /\ m_buffer[end] = Nul
  BY <1>2
<1> HIDE DEF room
<1>5. end = m_date + long /\ end \in m_date..(m_date + room) /\ long \in Nat
  BY <1>1, <1>3, EndIs
<1> HIDE DEF end, long
<1>6. end \in m_date..(Size - 1) /\ end - m_date = long
  BY <1>1, <1>3, <1>5
<1>7. TextAt(m_date) = TextOf(asked.date, long)
  BY <1>1, <1>4, <1>6, TextIs
<1>8. QED
  BY <1>7 DEF long, room

\* The time's label is right, and the date's is right still.
LEMMA ShowTimeLabels ==
  ASSUME IInv, LInv, NEW t \in Threads, ShowTime(t)
  PROVE  LInv'
<1> USE DEF LInv
<1>1. /\ pc' = [pc EXCEPT ![t] = "showDate"] /\ timeLabel' = TextAt(view[t].out)
      /\ UNCHANGED <<m_buffer, pointers, dateLabel, m_timeout, args, history>>
  BY DEF ShowTime
<1>2. pc[t] = "showTime" /\ view[t].out # Unloaded /\ pc[t] \in UpdatingTime
  BY AtIs DEF ShowTime, UpdatingTime
<1>3. pc'[t] = "showDate" /\ \A u \in Threads : u # t => pc'[u] = pc[u]
  BY <1>1 DEF IInv, TypeOK
<1>4. UNCHANGED <<m_buffer, m_time, m_date, asked, tainted, dateLabel>>
  BY <1>1 DEF pointers, history
<1>5. ASSUME ~tainted, asked.time \notin Malformed
      PROVE  /\ TimeLabelIsRight'
             /\ TimeIsWritten(m_date) /\ (asked.date \notin Malformed => DateIsWritten)
  <2>1. TimeIsWritten(m_date) /\ (asked.date \notin Malformed => DateIsWritten)
    BY <1>2, <1>5 DEF Wrote, WroteBy
  <2>2. timeLabel' = TextAt(m_time)
    BY <1>1, <1>2, <1>5 DEF IInv, Held, HeldBy, Quiet
  <2>3. \E n \in Texts[asked.time] :
          TextAt(m_time) = TextOf(asked.time, End([size |-> n], 0, Size - 2 - m_time))
    BY <1>2, <1>5, <2>1, TimeShows
  <2>4. QED
    BY <1>4, <2>1, <2>2, <2>3 DEF TimeLabelIsRight
<1>6. ASSUME ~tainted' PROVE WroteBy(t)' /\ \A u \in Threads : u # t => pc'[u] \notin UpdatingTime
  <2>1. ~tainted
    BY <1>4, <1>6
  <2>2. TimeIsWritten(m_date)' = TimeIsWritten(m_date) /\ DateIsWritten' = DateIsWritten
    BY <1>4 DEF TimeIsWritten, DateIsWritten
  <2>3. WroteBy(t)'
    BY <1>3, <1>4, <1>5, <2>1, <2>2 DEF WroteBy
  <2>4. QED
    BY <1>2, <1>3, <2>1, <2>3, Alone
<1>7. Wrote'
  BY <1>6, WroteIf DEF Wrote
<1>8. LabelsAreCurrent'
  <2> SUFFICES ASSUME ~tainted', pc'["main"] \in {"idle", "disposing", "disposed"}
               PROVE  LabelsAreRight'
    BY DEF LabelsAreCurrent
  <2>1. ~tainted /\ LabelsAreRight
    BY <1>3, <1>4 DEF LabelsAreCurrent, Threads
  <2>2. QED
    BY <1>4, <1>5, <2>1 DEF LabelsAreRight, TimeLabelIsRight
<1>9. QED
  BY <1>7, <1>8

\* Both labels are right.
LEMMA ShowDateLabels ==
  ASSUME IInv, LInv, NEW t \in Threads, ShowDate(t)
  PROVE  LInv'
<1> USE DEF LInv
<1>1. /\ pc' = [pc EXCEPT ![t] = "idle"] /\ dateLabel' = TextAt(view[t].out)
      /\ UNCHANGED <<m_buffer, pointers, timeLabel, m_timeout, args, history>>
  BY DEF ShowDate
<1>2. pc[t] = "showDate" /\ view[t].out # Unloaded /\ pc[t] \in UpdatingTime
  BY AtIs DEF ShowDate, UpdatingTime
<1>3. pc'[t] = "idle" /\ \A u \in Threads : u # t => pc'[u] = pc[u]
  BY <1>1 DEF IInv, TypeOK
<1>4. UNCHANGED <<m_buffer, m_time, m_date, asked, tainted, timeLabel>>
  BY <1>1 DEF pointers, history
<1>5. ASSUME ~tainted PROVE LabelsAreRight'
  <2> SUFFICES ASSUME asked.time \notin Malformed
               PROVE  /\ TimeLabelIsRight
                      /\ asked.date \notin Malformed =>
                           \E n \in Texts[asked.time], k \in Texts[asked.date] :
                             LET date == End([size |-> n], m_time, Size - 2 - m_time) + 1
                             IN dateLabel' = TextOf(asked.date, End([size |-> k], 0, Size - 1 - date))
    BY <1>4 DEF LabelsAreRight, TimeLabelIsRight
  <2>1. /\ TimeIsWritten(m_date) /\ (asked.date \notin Malformed => DateIsWritten)
        /\ TimeLabelIsRight
    BY <1>2, <1>5 DEF Wrote, WroteBy
  <2>2. dateLabel' = TextAt(m_date)
    BY <1>1, <1>2, <1>5 DEF IInv, Held, HeldBy, Quiet
  <2>3. PICK n \in Texts[asked.time] : m_date = End([size |-> n], m_time, Size - 2 - m_time) + 1
    BY <1>2, <1>5, <2>1, TimeShows
  <2>4. asked.date \notin Malformed =>
          \E k \in Texts[asked.date] :
            TextAt(m_date) = TextOf(asked.date, End([size |-> k], 0, Size - 1 - m_date))
    BY <1>2, <1>5, <2>1, DateShows
  <2>5. QED
    BY <2>1, <2>2, <2>3, <2>4
<1>6. ASSUME ~tainted' PROVE WroteBy(t)' /\ \A u \in Threads : u # t => pc'[u] \notin UpdatingTime
  <2>1. ~tainted
    BY <1>4, <1>6
  <2>2. WroteBy(t)'
    BY <1>3 DEF WroteBy
  <2>3. QED
    BY <1>2, <1>3, <2>1, <2>2, Alone
<1>7. Wrote'
  BY <1>6, WroteIf DEF Wrote
<1>8. LabelsAreCurrent'
  BY <1>4, <1>5 DEF LabelsAreCurrent
<1>9. QED
  BY <1>7, <1>8

\* Nobody has written a text while the formats are stored, or when a callback
\* or the call's own update begins.
LEMMA OtherLabels ==
  ASSUME IInv, IInv', LInv,
         \/ \E fields \in Calls : CallTimeModule(fields)
         \/ UpdateFormat
         \/ Tick
         \/ Attach \/ DisposeTemplate \/ DestroyTimeout
         \/ UNCHANGED vars
  PROVE  LInv'
<1> USE DEF LInv
<1>1. DOMAIN pc = Threads
  BY DEF IInv, TypeOK
<1>2. ASSUME pc'["main"] \in UpdatingFormat \cup {"writeTime"},
             ~tainted' => pc'["worker"] \notin UpdatingTime
      PROVE LInv'
  <2>1. pc'["main"] \notin {"storeDate", "writeDate", "showTime", "showDate",
                            "idle", "disposing", "disposed"}
    BY <1>2 DEF UpdatingFormat
  <2>2. LabelsAreCurrent'
    BY <2>1 DEF LabelsAreCurrent
  <2>3. Wrote'
    BY <1>2, <2>1 DEF Wrote, WroteBy, Threads, UpdatingTime
  <2>4. QED
    BY <2>2, <2>3
<1>3. ASSUME pc'["main"] \in UpdatingFormat \cup {"writeTime"}
      PROVE  ~tainted' => pc'["worker"] \notin UpdatingTime
  BY <1>3 DEF IInv, Apart, Quiet, UpdatingFormat, UpdatingTime, Gone
<1>4. CASE \E fields \in Calls : CallTimeModule(fields)
  <2>1. pc'["main"] = "storeDateFormat"
    BY <1>1, <1>4 DEF CallTimeModule, Go, Threads
  <2>2. QED
    BY <1>2, <1>3, <2>1 DEF UpdatingFormat
<1>5. CASE UpdateFormat
  <2>1. pc'["main"] \in {"storeTime", "copyDate", "copyTime", "writeTime"}
    BY <1>1, <1>5 DEF UpdateFormat, StoreDateFormat, StoreTime, CopyDate, CopyTime, Go, Threads
  <2>2. QED
    BY <1>2, <1>3, <2>1 DEF UpdatingFormat
<1>6. CASE Tick
  <2>1. /\ pc' = [pc EXCEPT !["worker"] = "writeTime"]
        /\ UNCHANGED <<m_time, labels, asked>>
        /\ tainted' = (tainted \/ pc["main"] # "idle")
    BY <1>6 DEF Tick, Go, pointers
  <2>2. pc'["worker"] = "writeTime" /\ pc'["main"] = pc["main"]
    BY <1>1, <2>1 DEF Threads
  <2>3. WroteBy("worker")' /\ (pc["main"] = "idle" => WroteBy("main")')
    BY <2>2 DEF WroteBy
  <2>4. Wrote'
    BY <2>1, <2>3 DEF Wrote, Threads
  <2>5. LabelsAreCurrent'
    BY <2>1, <2>2, LabelsStay
  <2>6. QED
    BY <2>4, <2>5
<1>8. ASSUME UNCHANGED <<m_buffer, m_time, m_date, view, labels, asked, tainted>>,
             \A t \in Threads : pc'[t] = pc[t] \/ pc'[t] \notin UpdatingTime,
             \/ pc'["main"] \notin {"idle", "disposing", "disposed"}
             \/ pc["main"] \in {"idle", "disposing", "disposed"}
      PROVE  LInv'
  <2>1. LabelsAreCurrent'
    BY <1>8, LabelsStay
  <2>2. ASSUME NEW t \in Threads, WroteBy(t) PROVE WroteBy(t)'
    BY <1>8, <2>2 DEF WroteBy, UpdatingTime, TimeIsWritten, DateIsWritten, TimeLabelIsRight, labels
  <2>3. Wrote'
    BY <1>8, <2>2 DEF Wrote
  <2>4. QED
    BY <2>1, <2>3
<1>9. CASE Attach \/ DisposeTemplate \/ DestroyTimeout
  <2>1. UNCHANGED <<m_buffer, m_time, m_date, view, labels, asked, tainted>>
    BY <1>9 DEF Attach, DisposeTemplate, DestroyTimeout, pointers, history
  <2>2. \A t \in Threads : pc'[t] = pc[t] \/ pc'[t] \in {"disposing", "disposed"}
    BY <1>1, <1>9 DEF Attach, DisposeTemplate, DestroyTimeout, Go
  <2>3. pc["main"] \in {"idle", "disposing"}
    BY <1>9 DEF Attach, DisposeTemplate, DestroyTimeout, Go
  <2>4. QED
    BY <1>8, <2>1, <2>2, <2>3 DEF UpdatingTime
<1>10. CASE UNCHANGED vars
  BY <1>8, <1>10 DEF vars, pointers, history, Threads
<1>11. QED
  BY <1>4, <1>5, <1>6, <1>9, <1>10

\* After something undefined nothing is said any more.
LEMMA EndLabels ==
  ASSUME Undefined \/ Outside
  PROVE  LInv'
<1>1. \A t \in Threads : pc'[t] \in {"undefined", "outside"}
  BY DEF Undefined, Outside, Ends
<1>2. QED
  BY <1>1 DEF LInv, Wrote, WroteBy, LabelsAreCurrent, Threads

LEMMA StepLabels ==
  ASSUME IInv, IInv', LInv, [Next]_vars
  PROVE  LInv'
<1>1. CASE \E t \in Threads : UpdateTime(t)
  <2>1. PICK t \in Threads : UpdateTime(t)
    BY <1>1
  <2>2. QED
    BY <2>1, LoadLabels, WriteTimeLabels, StoreDateLabels, WriteDateLabels, ShowTimeLabels,
       ShowDateLabels, EndLabels DEF UpdateTime, ReadTornFormat, WriteOutside, ShowOutside
<1>2. CASE DisposeDuringTick \/ TickDuringDispose
  BY <1>2, EndLabels DEF DisposeDuringTick, TickDuringDispose
<1>3. "main" \in Threads /\ "worker" \in Threads
  BY DEF Threads
<1>4. QED
  BY <1>1, <1>2, <1>3, OtherLabels DEF Next, Main, Worker

LEMMA LabelsInvariance == Spec => []LInv
<1>1. Init => LInv
  BY DEF Init, LInv, Wrote, WroteBy, LabelsAreCurrent, Threads
<1>2. IInv /\ IInv' /\ LInv /\ [Next]_vars => LInv'
  BY StepLabels
<1>3. QED
  BY <1>1, <1>2, Invariance, PTL DEF Spec

\* Whenever no call is under way the labels show the time and the date in the
\* formats that were asked for last, cut off where the buffer ends: for any
\* formats and any order of the threads' steps, unless a callback has met a
\* call.
THEOREM CurrentLabels == Spec => []LabelsAreCurrent
<1>1. LInv => LabelsAreCurrent
  BY DEF LInv
<1>2. QED
  BY <1>1, LabelsInvariance, PTL

=============================================================================
