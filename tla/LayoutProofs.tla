---------------------------- MODULE LayoutProofs ----------------------------
(***************************************************************************)
(* Proofs about Layout, for all lists and positions a config can give.     *)
(*                                                                         *)
(* The boxes are sequences; what the properties say of them is who is in a *)
(* box and who comes before whom, and the first lemmas say what removing   *)
(* and appending do to that.  Each invariant then has a lemma of its own   *)
(* for the steps, on top of the types.                                     *)
(***************************************************************************)
EXTENDS Layout, SequenceTheorems, TLAPS

Holds(box, x) == \E i \in DOMAIN box : box[i] = x
Once(box) == \A i, j \in DOMAIN box : box[i] = box[j] => i = j
Before(box, x, y) == \E i, j \in DOMAIN box : i < j /\ box[i] = x /\ box[j] = y

-----------------------------------------------------------------------------
(* Boxes                                                                   *)

\* RemoveAt leaves out one place and closes the gap.
LEMMA RemoveAtIs ==
  ASSUME NEW box \in Seq(Modules), NEW k \in 1..Len(box)
  PROVE  /\ RemoveAt(box, k) \in Seq(Modules)
         /\ Len(RemoveAt(box, k)) = Len(box) - 1
         /\ \A j \in 1..Len(box) - 1 :
              RemoveAt(box, k)[j] = IF j < k THEN box[j] ELSE box[j + 1]
<1> DEFINE front == SubSeq(box, 1, k - 1)
           back  == SubSeq(box, k + 1, Len(box))
<1>1. front \in Seq(Modules) /\ Len(front) = k - 1 /\ \A j \in 1..(k - 1) : front[j] = box[j]
  <2>1. \A j \in 1..(k - 1) : box[j] \in Modules
    BY ElementOfSeq
  <2> QED
    BY <2>1, SubSeqProperties
<1>2. back \in Seq(Modules) /\ Len(back) = Len(box) - k
      /\ \A j \in 1..(Len(box) - k) : back[j] = box[k + j]
  <2>1. \A j \in (k + 1)..Len(box) : box[j] \in Modules
    BY ElementOfSeq
  <2> QED
    BY <2>1, SubSeqProperties
<1> HIDE DEF front, back
<1>3. /\ front \o back \in Seq(Modules)
      /\ Len(front \o back) = Len(front) + Len(back)
      /\ \A j \in 1..(Len(front) + Len(back)) :
           (front \o back)[j] = IF j <= Len(front) THEN front[j] ELSE back[j - Len(front)]
  BY <1>1, <1>2, ConcatProperties
<1>4. RemoveAt(box, k) = front \o back
  BY DEF RemoveAt, front, back
<1>5. Len(RemoveAt(box, k)) = Len(box) - 1
  <2>1. Len(box) \in Nat /\ k \in Nat
    BY LenProperties
  <2>2. Len(front \o back) = (k - 1) + (Len(box) - k)
    BY <1>1, <1>2, <1>3
  <2> QED
    BY <1>4, <2>1, <2>2
<1>6. ASSUME NEW j \in 1..Len(box) - 1
      PROVE  RemoveAt(box, k)[j] = IF j < k THEN box[j] ELSE box[j + 1]
  <2>1. CASE j < k
    <3>1. (front \o back)[j] = front[j] /\ front[j] = box[j]
      BY <1>1, <1>2, <1>3, <2>1
    <3> QED
      BY <1>4, <2>1, <3>1
  <2>2. CASE ~(j < k)
    <3>1. (front \o back)[j] = back[j - (k - 1)] /\ back[j - (k - 1)] = box[k + (j - (k - 1))]
      BY <1>1, <1>2, <1>3, <2>2
    <3>2. k + (j - (k - 1)) = j + 1
      OBVIOUS
    <3> QED
      BY <1>4, <2>2, <3>1, <3>2
  <2> QED
    BY <2>1, <2>2
<1> QED
  BY <1>3, <1>4, <1>5, <1>6

\* gtk_box_remove takes the widget out of the box and keeps the others' order.
LEMMA WithoutIs ==
  ASSUME NEW box \in Seq(Modules), NEW m \in Modules
  PROVE  /\ Without(box, m) \in Seq(Modules)
         /\ Once(box) =>
              /\ Once(Without(box, m))
              /\ \A x \in Modules : Holds(Without(box, m), x) <=> x # m /\ Holds(box, x)
              /\ \A x, y \in Modules : Before(Without(box, m), x, y) => Before(box, x, y)
<1>1. CASE ~Holds(box, m)
  BY <1>1 DEF Holds, Without
<1>2. CASE Holds(box, m)
  <2> DEFINE k == CHOOSE i \in DOMAIN box : box[i] = m
             short == Without(box, m)
             at(j) == IF j < k THEN j ELSE j + 1
  <2>1. k \in 1..Len(box) /\ box[k] = m
    BY <1>2 DEF Holds
  <2> HIDE DEF k
  <2>2. short = RemoveAt(box, k)
    BY <1>2 DEF Holds, Without, k
  <2>3. /\ short \in Seq(Modules)
        /\ Len(short) = Len(box) - 1
        /\ \A j \in 1..Len(box) - 1 : short[j] = box[at(j)]
    BY <2>1, <2>2, RemoveAtIs
  <2> HIDE DEF short
  <2>4. DOMAIN short = 1..(Len(box) - 1) /\ DOMAIN box = 1..Len(box)
    BY <2>3
  <2>5. \A j \in DOMAIN short : at(j) \in DOMAIN box /\ at(j) # k
    BY <2>1, <2>4
  <2>6. \A i \in DOMAIN box : i # k => \E j \in DOMAIN short : at(j) = i
    <3> TAKE i \in DOMAIN box
    <3> HAVE i # k
    <3>1. CASE i < k
      BY <3>1, <2>1, <2>4
    <3>2. CASE i > k
      <4>1. i - 1 \in DOMAIN short /\ at(i - 1) = i
        BY <3>2, <2>1, <2>4
      <4> QED
        BY <4>1
    <3> QED
      BY <3>1, <3>2, <2>1, <2>4
  <2>7. \A i, j \in DOMAIN short : (i < j => at(i) < at(j)) /\ (at(i) = at(j) => i = j)
    BY <2>1, <2>4
  <2> HIDE DEF at
  <2>8. SUFFICES ASSUME Once(box)
                 PROVE  /\ Once(short)
                        /\ \A x \in Modules : Holds(short, x) <=> x # m /\ Holds(box, x)
                        /\ \A x, y \in Modules : Before(short, x, y) => Before(box, x, y)
    BY <2>3 DEF short
  <2>9. Once(short)
    BY <2>3, <2>4, <2>5, <2>7, <2>8 DEF Once
  <2>10. \A x \in Modules : Holds(short, x) <=> x # m /\ Holds(box, x)
    BY <2>1, <2>3, <2>4, <2>5, <2>6, <2>8 DEF Holds, Once
  <2>11. \A x, y \in Modules : Before(short, x, y) => Before(box, x, y)
    BY <2>3, <2>4, <2>5, <2>7 DEF Before
  <2> QED
    BY <2>9, <2>10, <2>11
<1> QED
  BY <1>1, <1>2

\* gtk_box_append puts the widget behind all others.
LEMMA AppendIs ==
  ASSUME NEW box \in Seq(Modules), NEW m \in Modules
  PROVE  /\ Append(box, m) \in Seq(Modules)
         /\ Once(box) /\ ~Holds(box, m) => Once(Append(box, m))
         /\ \A x \in Modules : Holds(Append(box, m), x) <=> x = m \/ Holds(box, x)
         /\ \A x, y \in Modules :
              Before(Append(box, m), x, y) => Before(box, x, y) \/ (Holds(box, x) /\ y = m)
<1> DEFINE long == Append(box, m)
<1>1. /\ long \in Seq(Modules)
      /\ Len(long) = Len(box) + 1
      /\ \A i \in 1..Len(box) : long[i] = box[i]
      /\ long[Len(box) + 1] = m
  BY AppendProperties
<1> HIDE DEF long
<1>2. DOMAIN long = 1..(Len(box) + 1) /\ DOMAIN box = 1..Len(box) /\ Len(box) \in Nat
  BY <1>1
<1>3. Once(box) /\ ~Holds(box, m) => Once(long)
  BY <1>1, <1>2 DEF Once, Holds
<1>4. \A x \in Modules : Holds(long, x) <=> x = m \/ Holds(box, x)
  <2> TAKE x \in Modules
  <2>1. Holds(long, x) => x = m \/ Holds(box, x)
    BY <1>1, <1>2 DEF Holds
  <2>2. Holds(long, m)
    BY <1>1, <1>2 DEF Holds
  <2>3. Holds(box, x) => Holds(long, x)
    BY <1>1, <1>2 DEF Holds
  <2> QED
    BY <2>1, <2>2, <2>3
<1>5. \A x, y \in Modules :
        Before(long, x, y) => Before(box, x, y) \/ (Holds(box, x) /\ y = m)
  BY <1>1, <1>2 DEF Before, Holds
<1> QED
  BY <1>1, <1>3, <1>4, <1>5 DEF long

-----------------------------------------------------------------------------
(* Lists                                                                   *)

\* The elements for one box stand in the order of their places.
Ordered(elements) ==
  \A i, j \in DOMAIN elements :
    i < j /\ elements[i].location = elements[j].location
      => elements[i].position < elements[j].position

LEMMA ElementsOfIs ==
  ASSUME NEW table \in Tables, NEW l \in Locations
  PROVE  /\ ElementsOf(table, l) \in Seq(Elements)
         /\ Len(ElementsOf(table, l)) = Len(table[l])
         /\ \A i \in 1..Len(table[l]) :
              ElementsOf(table, l)[i].location = l /\ ElementsOf(table, l)[i].position = i - 1
<1>1. table[l] \in Seq(Int \cup {NotInteger})
  BY TablesAssumption
<1>2. Len(table[l]) \in Nat /\ \A i \in 1..Len(table[l]) : table[l][i] \in Int \cup {NotInteger}
  BY <1>1, LenProperties, ElementOfSeq
<1>3. \A i \in 1..Len(table[l]) :
        [location |-> l, position |-> i - 1, value |-> table[l][i]] \in Elements
  BY <1>2 DEF Elements
<1>4. ElementsOf(table, l) \in [1..Len(table[l]) -> Elements]
  BY <1>3 DEF ElementsOf
<1>5. ElementsOf(table, l) \in Seq(Elements)
  BY <1>2, <1>4, IsASeq
<1>6. Len(ElementsOf(table, l)) = Len(table[l])
  BY <1>2, <1>4, <1>5, LenProperties
<1> QED
  BY <1>5, <1>6 DEF ElementsOf

LEMMA ListOfIs ==
  ASSUME NEW table \in Tables
  PROVE  ListOf(table) \in Seq(Elements) /\ Ordered(ListOf(table))
<1> DEFINE a == ElementsOf(table, "start")
           b == ElementsOf(table, "center")
           c == ElementsOf(table, "end")
<1>1. /\ a \in Seq(Elements) /\ b \in Seq(Elements) /\ c \in Seq(Elements)
      /\ \A i \in 1..Len(a) : a[i].location = "start"  /\ a[i].position = i - 1
      /\ \A i \in 1..Len(b) : b[i].location = "center" /\ b[i].position = i - 1
      /\ \A i \in 1..Len(c) : c[i].location = "end"    /\ c[i].position = i - 1
  BY ElementsOfIs DEF Locations
<1> HIDE DEF a, b, c
<1>2. Len(a) \in Nat /\ Len(b) \in Nat /\ Len(c) \in Nat
  BY <1>1, LenProperties
<1> DEFINE ab == a \o b
           abc == ab \o c
<1>3. /\ ab \in Seq(Elements)
      /\ Len(ab) = Len(a) + Len(b)
      /\ \A i \in 1..Len(ab) : ab[i] = IF i <= Len(a) THEN a[i] ELSE b[i - Len(a)]
  BY <1>1, ConcatProperties
<1> HIDE DEF ab
<1>4. /\ abc \in Seq(Elements)
      /\ Len(abc) = Len(ab) + Len(c)
      /\ \A i \in 1..Len(abc) : abc[i] = IF i <= Len(ab) THEN ab[i] ELSE c[i - Len(ab)]
  <2>1. ab \in Seq(Elements) /\ c \in Seq(Elements)
    BY <1>1, <1>3
  <2> QED
    BY <2>1, ConcatProperties
<1> HIDE DEF abc
<1>5. ASSUME NEW i \in DOMAIN abc
      PROVE  \/ i <= Len(a) /\ abc[i].location = "start" /\ abc[i].position = i - 1
             \/ /\ i > Len(a) /\ i <= Len(ab)
                /\ abc[i].location = "center" /\ abc[i].position = i - Len(a) - 1
             \/ /\ i > Len(ab)
                /\ abc[i].location = "end" /\ abc[i].position = i - Len(ab) - 1
  <2>1. i \in 1..Len(abc)
    BY <1>4
  <2>2. CASE i <= Len(a)
    BY <1>1, <1>2, <1>3, <1>4, <2>1, <2>2
  <2>3. CASE i > Len(a) /\ i <= Len(ab)
    <3>1. abc[i] = b[i - Len(a)] /\ i - Len(a) \in 1..Len(b)
      BY <1>2, <1>3, <1>4, <2>1, <2>3
    <3> QED
      BY <1>1, <2>3, <3>1
  <2>4. CASE i > Len(ab)
    <3>1. abc[i] = c[i - Len(ab)] /\ i - Len(ab) \in 1..Len(c)
      BY <1>2, <1>3, <1>4, <2>1, <2>4
    <3> QED
      BY <1>1, <2>4, <3>1
  <2> QED
    BY <1>2, <1>3, <2>1, <2>2, <2>3, <2>4
<1>6. Ordered(abc)
  <2> SUFFICES ASSUME NEW i \in DOMAIN abc, NEW j \in DOMAIN abc,
                      i < j, abc[i].location = abc[j].location
               PROVE  abc[i].position < abc[j].position
    BY DEF Ordered
  <2> QED
    BY <1>2, <1>3, <1>4, <1>5
<1>7. ListOf(table) = abc
  BY DEF ListOf, abc, ab, a, b, c
<1> QED
  BY <1>4, <1>6, <1>7

-----------------------------------------------------------------------------
(* Types                                                                   *)

LEMMA ElementType ==
  ASSUME TypeOK, AtElement
  PROVE  /\ next \in DOMAIN list /\ next \in Nat
         /\ next + 1 \in 1..(Len(list) + 1)
         /\ Element \in Elements
         /\ EntryOf(Element) \in Entries
         /\ EntryOf(Element) # NoEntry
<1>1. list \in Seq(Elements) /\ next \in DOMAIN list
  BY DEF TypeOK, AtElement
<1>2. Element \in Elements
  BY <1>1, ElementOfSeq DEF Element
<1>3. EntryOf(Element) \in Entries
  BY <1>2 DEF EntryOf, Elements, Entries
<1> QED
  BY <1>1, <1>2, <1>3, NoEntryAssumption, LenProperties DEF Entries

\* The places an element puts a module into: the box it is in and the box it
\* goes to keep their types.
LEMMA TypeStep == TypeOK /\ [Next]_windowVars => TypeOK'
<1> SUFFICES ASSUME TypeOK, [Next]_windowVars
             PROVE  TypeOK'
  OBVIOUS
<1>1. ASSUME NEW table \in Tables, NEW value \in Arguments, VinWindow(table, value)
      PROVE  TypeOK'
  <2>1. list' \in Seq(Elements)
    BY <1>1, ListOfIs DEF VinWindow
  <2>2. next' \in 1..(Len(list') + 1)
    BY <1>1, <2>1, LenProperties DEF VinWindow
  <2> QED
    BY <1>1, <2>1, <2>2, ArgumentsAssumption DEF VinWindow, TypeOK
<1>2. ASSUME NEW value \in Arguments, VinWindowWithoutModules(value)
      PROVE  TypeOK'
  BY <1>2, ArgumentsAssumption DEF VinWindowWithoutModules, Reposition, TypeOK
<1>3. ASSUME AtElement, NEW m \in Modules, ConfigureModule(m)
      PROVE  TypeOK'
  <2>1. /\ next + 1 \in 1..(Len(list) + 1)
        /\ Element \in Elements
        /\ EntryOf(Element) \in Entries
    BY <1>3, ElementType
  <2>2. Element.location \in Locations
    BY <2>1 DEF Elements
  <2>3. CASE KeepModule(m)
    BY <2>1, <2>3 DEF KeepModule, Wanted, TypeOK
  <2>4. (vin \cup {"time_module"}) \subseteq Functions
        /\ (vin \cup {"notification_module"}) \subseteq Functions /\ vin \cup {} \subseteq Functions
    BY DEF TypeOK, Functions
  <2>5. Configure(m) => vin' \subseteq Functions
    BY <2>4 DEF Configure
  <2>6. CASE CreateModule(m)
    <3>1. Append(m_boxes[Element.location], m) \in Seq(Modules)
      BY <2>2, AppendIs DEF TypeOK
    <3> QED
      BY <2>1, <2>2, <2>5, <2>6, <3>1 DEF CreateModule, Wanted, TypeOK
  <2>7. CASE MoveModule(m)
    <3> DEFINE emptied == [m_boxes EXCEPT ![m_modules[m].location] = Without(@, m)]
    <3>1. m_modules[m].location \in Locations
      BY <2>7 DEF MoveModule, TypeOK, Entries
    <3>2. emptied \in [Locations -> Seq(Modules)]
      BY <3>1, WithoutIs DEF TypeOK
    <3> HIDE DEF emptied
    <3>3. Append(emptied[Element.location], m) \in Seq(Modules)
      BY <2>2, <3>2, AppendIs
    <3>4. m_boxes' = [emptied EXCEPT ![Element.location] = Append(@, m)]
      BY <2>7 DEF MoveModule, emptied
    <3>5. m_boxes' \in [Locations -> Seq(Modules)]
      BY <2>2, <3>2, <3>3, <3>4
    <3> QED
      BY <2>1, <2>5, <2>7, <3>5 DEF MoveModule, Wanted, TypeOK
  <2> QED
    BY <1>3, <2>3, <2>6, <2>7 DEF ConfigureModule
<1>4. CASE SkipElement
  BY <1>4, ElementType DEF SkipElement, TypeOK
<1>5. CASE Raise
  <2>1. <<>> \in Seq(Elements) /\ Len(<<>>) = 0
    BY EmptySeq
  <2> QED
    BY <1>5, <2>1 DEF Raise, TypeOK
<1>6. CASE EndOfLists
  BY <1>6 DEF EndOfLists, TypeOK
<1>7. CASE RemoveModule
  <2>1. PICK m \in Unwanted :
          /\ Unconfigure(m)
          /\ m_boxes' = [m_boxes EXCEPT ![m_modules[m].location] = Without(@, m)]
          /\ m_modules' = [m_modules EXCEPT ![m] = NoEntry]
          /\ oriented' = [oriented EXCEPT ![m] = Unset]
    BY <1>7 DEF RemoveModule
  <2>2. m \in Modules /\ m_modules[m].location \in Locations
    BY DEF Unwanted, Present, TypeOK, Entries
  <2>3. m_boxes' \in [Locations -> Seq(Modules)]
    BY <2>1, <2>2, WithoutIs DEF TypeOK
  <2>4. vin' \subseteq Functions
    BY <2>1 DEF Unconfigure, TypeOK
  <2> QED
    BY <1>7, <2>1, <2>2, <2>3, <2>4 DEF RemoveModule, TypeOK
<1>8. CASE Return
  BY <1>8 DEF Return, Reposition, TypeOK
<1>9. CASE UNCHANGED windowVars
  BY <1>9 DEF windowVars, TypeOK
<1> QED
  BY <1>1, <1>2, <1>3, <1>4, <1>5, <1>6, <1>7, <1>8, <1>9
  DEF Next, WindowStep, ConfigureElement

-----------------------------------------------------------------------------
(* Boxes and entries                                                       *)

Matched ==
  \A l \in Locations :
    /\ Once(m_boxes[l])
    /\ \A x \in Modules :
         Holds(m_boxes[l], x) <=> (m_modules[x] # NoEntry /\ m_modules[x].location = l)

LEMMA MatchedIsBoxesMatchEntries == BoxesMatchEntries <=> Matched
BY DEF BoxesMatchEntries, Matched, Once, Holds

\* An element that creates or moves m leaves it in its box, behind the others,
\* and in no other.
LEMMA PlaceIs ==
  ASSUME TypeOK, Matched, AtElement, NEW m \in Modules, CreateModule(m) \/ MoveModule(m),
         NEW l \in Locations
  PROVE  /\ Once(m_boxes'[l])
         /\ \A x \in Modules :
              Holds(m_boxes'[l], x)
                <=> IF x = m THEN l = Element.location ELSE Holds(m_boxes[l], x)
         /\ \A x, y \in Modules :
              Before(m_boxes'[l], x, y)
                => /\ x # m /\ Holds(m_boxes[l], x)
                   /\ y = m \/ (Holds(m_boxes[l], y) /\ Before(m_boxes[l], x, y))
<1> DEFINE old == m_boxes[l]
           rest == IF m_modules[m] # NoEntry /\ m_modules[m].location = l
                   THEN Without(old, m) ELSE old
<1>1. Element.location \in Locations
  BY ElementType DEF Elements
<1>2. old \in Seq(Modules)
  BY DEF TypeOK
<1>3. m_boxes'[l] = IF l = Element.location THEN Append(rest, m) ELSE rest
  <2>1. CASE CreateModule(m)
    BY <1>1, <2>1 DEF CreateModule, TypeOK
  <2>2. CASE MoveModule(m)
    <3> DEFINE emptied == [m_boxes EXCEPT ![m_modules[m].location] = Without(@, m)]
    <3>1. m_modules[m] # NoEntry /\ m_modules[m].location \in Locations
      BY <2>2 DEF MoveModule, TypeOK, Entries
    <3>2. emptied \in [Locations -> Seq(Modules)] /\ emptied[l] = rest
      BY <3>1, WithoutIs DEF TypeOK
    <3> HIDE DEF emptied, rest
    <3>3. m_boxes' = [emptied EXCEPT ![Element.location] = Append(@, m)]
      BY <2>2 DEF MoveModule, emptied
    <3> QED
      BY <1>1, <3>2, <3>3
  <2> QED
    BY <2>1, <2>2
<1>4. /\ Once(old)
      /\ \A x, y \in Modules : Before(old, x, y) => Holds(old, x) /\ Holds(old, y)
  BY DEF Matched, Before, Holds
<1>5. /\ rest \in Seq(Modules)
      /\ Once(rest)
      /\ \A x \in Modules : Holds(rest, x) <=> x # m /\ Holds(old, x)
      /\ \A x, y \in Modules :
           Before(rest, x, y) => /\ Before(old, x, y)
                                 /\ Holds(rest, x) /\ Holds(rest, y)
  <2>1. \A x, y \in Modules : Before(rest, x, y) => Holds(rest, x) /\ Holds(rest, y)
    BY DEF Before, Holds
  <2>2. CASE m_modules[m] # NoEntry /\ m_modules[m].location = l
    <3>1. rest = Without(old, m)
      BY <2>2
    <3> HIDE DEF rest, old
    <3> QED
      BY <1>2, <1>4, <2>1, <3>1, WithoutIs
  <2>3. CASE ~(m_modules[m] # NoEntry /\ m_modules[m].location = l)
    <3>1. rest = old /\ ~Holds(old, m)
      BY <2>3 DEF Matched
    <3> HIDE DEF rest, old
    <3> QED
      BY <1>2, <1>4, <2>1, <3>1
  <2> QED
    BY <2>2, <2>3
<1> HIDE DEF rest, old
<1>6. CASE l = Element.location
  <2>1. m_boxes'[l] = Append(rest, m) /\ ~Holds(rest, m)
    BY <1>3, <1>5, <1>6
  <2>2. Once(m_boxes'[l])
    BY <1>5, <2>1, AppendIs
  <2>3. \A x \in Modules : Holds(m_boxes'[l], x) <=> x = m \/ Holds(rest, x)
    BY <1>5, <2>1, AppendIs
  <2>4. \A x, y \in Modules :
          Before(m_boxes'[l], x, y) => Before(rest, x, y) \/ (Holds(rest, x) /\ y = m)
    BY <1>5, <2>1, AppendIs
  <2> QED
    BY <1>4, <1>5, <1>6, <2>2, <2>3, <2>4 DEF old
<1>7. CASE l # Element.location
  BY <1>3, <1>4, <1>5, <1>7 DEF old
<1> QED
  BY <1>6, <1>7

\* RemoveModule takes one widget out of the box its entry names.
LEMMA RemoveIs ==
  ASSUME TypeOK, Matched, RemoveModule
  PROVE  \E m \in Unwanted :
           /\ m_modules' = [m_modules EXCEPT ![m] = NoEntry]
           /\ oriented' = [oriented EXCEPT ![m] = Unset]
           /\ Unconfigure(m)
           /\ \A l \in Locations :
                /\ Once(m_boxes'[l])
                /\ \A x \in Modules : Holds(m_boxes'[l], x) <=> x # m /\ Holds(m_boxes[l], x)
                /\ \A x, y \in Modules : Before(m_boxes'[l], x, y) => Before(m_boxes[l], x, y)
<1>1. PICK m \in Unwanted :
        /\ Unconfigure(m)
        /\ m_boxes' = [m_boxes EXCEPT ![m_modules[m].location] = Without(@, m)]
        /\ m_modules' = [m_modules EXCEPT ![m] = NoEntry]
        /\ oriented' = [oriented EXCEPT ![m] = Unset]
  BY DEF RemoveModule
<1>2. m \in Modules /\ m_modules[m] # NoEntry /\ m_modules[m].location \in Locations
  BY DEF Unwanted, Present, TypeOK, Entries
<1>3. ASSUME NEW l \in Locations
      PROVE  /\ Once(m_boxes'[l])
             /\ \A x \in Modules : Holds(m_boxes'[l], x) <=> x # m /\ Holds(m_boxes[l], x)
             /\ \A x, y \in Modules : Before(m_boxes'[l], x, y) => Before(m_boxes[l], x, y)
  <2>1. m_boxes[l] \in Seq(Modules) /\ Once(m_boxes[l])
    BY DEF TypeOK, Matched
  <2>2. CASE l = m_modules[m].location
    <3>1. m_boxes'[l] = Without(m_boxes[l], m)
      BY <1>1, <1>2, <2>2 DEF TypeOK
    <3> QED
      BY <1>2, <2>1, <3>1, WithoutIs
  <2>3. CASE l # m_modules[m].location
    <3>1. m_boxes'[l] = m_boxes[l] /\ ~Holds(m_boxes[l], m)
      BY <1>1, <1>2, <2>3 DEF TypeOK, Matched
    <3> QED
      BY <1>2, <2>1, <3>1
  <2> QED
    BY <2>2, <2>3
<1> QED
  BY <1>1, <1>3

LEMMA MatchedStep == TypeOK /\ Matched /\ [Next]_windowVars => Matched'
<1> SUFFICES ASSUME TypeOK, Matched, [Next]_windowVars
             PROVE  Matched'
  OBVIOUS
<1>1. ASSUME m_modules' = m_modules, m_boxes' = m_boxes
      PROVE  Matched'
  BY <1>1 DEF Matched
<1>2. ASSUME AtElement, NEW m \in Modules, CreateModule(m) \/ MoveModule(m)
      PROVE  Matched'
  <2>1. EntryOf(Element) # NoEntry /\ EntryOf(Element).location = Element.location
    BY <1>2, ElementType DEF EntryOf
  <2>2. m_modules' = [m_modules EXCEPT ![m] = EntryOf(Element)]
    BY <1>2 DEF CreateModule, MoveModule
  <2>3. ASSUME NEW l \in Locations
        PROVE  /\ Once(m_boxes'[l])
               /\ \A x \in Modules :
                    Holds(m_boxes'[l], x)
                      <=> IF x = m THEN l = Element.location ELSE Holds(m_boxes[l], x)
    BY <1>2, <2>3, PlaceIs
  <2>4. \A x \in Modules :
          m_modules'[x] = IF x = m THEN EntryOf(Element) ELSE m_modules[x]
    BY <2>2 DEF TypeOK
  <2> QED
    BY <2>1, <2>3, <2>4 DEF Matched
<1>3. CASE RemoveModule
  <2>1. PICK m \in Unwanted :
          /\ m_modules' = [m_modules EXCEPT ![m] = NoEntry]
          /\ \A l \in Locations :
               /\ Once(m_boxes'[l])
               /\ \A x \in Modules : Holds(m_boxes'[l], x) <=> x # m /\ Holds(m_boxes[l], x)
    BY <1>3, RemoveIs
  <2>2. \A x \in Modules : m_modules'[x] = IF x = m THEN NoEntry ELSE m_modules[x]
    BY <2>1 DEF TypeOK, Unwanted, Present
  <2> QED
    BY <2>1, <2>2 DEF Matched
<1>4. ASSUME AtElement, NEW m \in Modules, KeepModule(m)
      PROVE  Matched'
  BY <1>1, <1>4 DEF KeepModule
<1> QED
  BY <1>1, <1>2, <1>3, <1>4
  DEF Next, WindowStep, ConfigureElement, ConfigureModule, VinWindow, VinWindowWithoutModules,
      SkipElement, Raise, EndOfLists, Return, windowVars

-----------------------------------------------------------------------------
(* What the loops have done so far                                         *)

\* The last element before the loops' place that names m.
LastNaming(m, i) ==
  /\ i \in Naming(m) /\ i < next
  /\ \A j \in Naming(m) : j < next => j <= i

Progress ==
  /\ Ordered(list)
  /\ \A m \in Modules :
       /\ m \in do_not_remove => \E i \in Naming(m) : LastNaming(m, i) /\ m_modules[m] = EntryOf(list[i])
       /\ (\E i \in Naming(m) : i < next) => m \in do_not_remove
  /\ call \in {"removing", "returned"} => next = Len(list) + 1
  /\ call = "returned" => Present \subseteq do_not_remove

\* With these unchanged, what the loops have done is unchanged.
LEMMA ProgressStays ==
  ASSUME TypeOK, Progress, list' = list, next' = next, do_not_remove' = do_not_remove,
         \A m \in do_not_remove : m_modules'[m] = m_modules[m],
         call' \in {"removing", "returned"} => next = Len(list) + 1,
         call' = "returned" => Present' \subseteq do_not_remove
  PROVE  Progress'
<1>1. \A m \in Modules : Naming(m)' = Naming(m)
  BY DEF Naming
<1>2. \A m \in Modules : \A i : LastNaming(m, i)' <=> LastNaming(m, i)
  BY <1>1 DEF LastNaming
<1> QED
  BY <1>1, <1>2 DEF Progress

LEMMA ProgressStep == TypeOK /\ Progress /\ [Next]_windowVars => Progress'
<1> SUFFICES ASSUME TypeOK, Progress, [Next]_windowVars
             PROVE  Progress'
  OBVIOUS
<1>1. ASSUME NEW table \in Tables, NEW value \in Arguments, VinWindow(table, value)
      PROVE  Progress'
  <2>1. Ordered(list') /\ list' \in Seq(Elements)
    BY <1>1, ListOfIs DEF VinWindow
  <2>2. \A i \in DOMAIN list' : i >= 1
    BY <2>1
  <2> QED
    BY <1>1, <2>1, <2>2 DEF VinWindow, Progress, Naming, LastNaming
<1>2. ASSUME NEW value \in Arguments, VinWindowWithoutModules(value)
      PROVE  Progress'
  <2>1. Present' = Present
    BY <1>2 DEF VinWindowWithoutModules, Present
  <2> QED
    BY <1>2, <2>1, ProgressStays DEF VinWindowWithoutModules, Progress
<1>3. ASSUME AtElement, NEW m \in Modules, Names(Element, m), ConfigureModule(m)
      PROVE  Progress'
  <2>1. /\ next \in DOMAIN list /\ next \in Nat
        /\ list' = list /\ next' = next + 1 /\ call' = "configuring"
        /\ do_not_remove' = do_not_remove \cup {m}
    BY <1>3, ElementType DEF AtElement, ConfigureModule, KeepModule, CreateModule, MoveModule, Wanted
  <2>2. m_modules'[m] = EntryOf(list[next])
    <3>1. CASE KeepModule(m)
      <4>1. m_modules[m] \in Entries
        BY <3>1 DEF KeepModule, InPlace, TypeOK
      <4> QED
        BY <3>1, <4>1 DEF KeepModule, InPlace, EntryOf, Entries, Element
    <3>2. CASE CreateModule(m) \/ MoveModule(m)
      BY <3>2 DEF CreateModule, MoveModule, Element, TypeOK
    <3> QED
      BY <1>3, <3>1, <3>2 DEF ConfigureModule
  <2>3. \A x \in Modules : x # m => m_modules'[x] = m_modules[x]
    BY <1>3 DEF ConfigureModule, KeepModule, CreateModule, MoveModule, TypeOK
  <2>4. \A x \in Modules : Naming(x)' = Naming(x)
    BY <2>1 DEF Naming
  <2>5. \A x \in Modules : next \in Naming(x) <=> x = m
    BY <1>3, <2>1 DEF Naming, Names, Element
  <2>6. \A x \in Modules : \A i \in Naming(x) : i \in Nat
    BY DEF Naming, TypeOK
  <2> PICK n : n = next
    OBVIOUS
  <2>7. n \in Naming(m)' /\ LastNaming(m, n)'
    <3>1. n \in Naming(m) /\ n < next'
      BY <2>1, <2>5
    <3>2. \A j \in Naming(m)' : j < next' => j <= n
      BY <2>1, <2>4, <2>6
    <3> QED
      BY <2>4, <3>1, <3>2 DEF LastNaming
  <2>8. \A x \in Modules : \A i \in Naming(x) : x # m /\ LastNaming(x, i) => LastNaming(x, i)'
    <3> SUFFICES ASSUME NEW x \in Modules, NEW i \in Naming(x), x # m, LastNaming(x, i)
                 PROVE  LastNaming(x, i)'
      OBVIOUS
    <3>1. i \in Naming(x)' /\ i < next'
      BY <2>1, <2>4, <2>6 DEF LastNaming
    <3>2. ASSUME NEW j \in Naming(x)', j < next'
          PROVE  j <= i
      <4>1. j \in Naming(x) /\ j # next /\ j < next
        BY <2>1, <2>4, <2>5, <2>6, <3>2
      <4> QED
        BY <4>1 DEF LastNaming
    <3> QED
      BY <3>1, <3>2 DEF LastNaming
  <2>9. ASSUME NEW x \in Modules, x \in do_not_remove'
        PROVE  \E i \in Naming(x)' : LastNaming(x, i)' /\ m_modules'[x] = EntryOf(list'[i])
    <3>1. CASE x = m
      BY <2>1, <2>2, <2>4, <2>5, <2>7, <3>1
    <3>2. CASE x # m
      <4>1. PICK i \in Naming(x) : LastNaming(x, i) /\ m_modules[x] = EntryOf(list[i])
        BY <2>1, <2>9, <3>2 DEF Progress
      <4> QED
        BY <2>1, <2>3, <2>4, <2>8, <3>2, <4>1
    <3> QED
      BY <3>1, <3>2
  <2>10. ASSUME NEW x \in Modules, NEW i \in Naming(x)', i < next'
         PROVE  x \in do_not_remove'
    <3>1. i \in Naming(x) /\ (i < next \/ i = next)
      BY <2>1, <2>4, <2>6, <2>10
    <3> QED
      BY <2>1, <2>5, <3>1 DEF Progress
  <2> QED
    BY <2>1, <2>9, <2>10 DEF Progress
<1>4. CASE SkipElement
  <2>1. /\ next \in DOMAIN list /\ next \in Nat
        /\ list' = list /\ next' = next + 1 /\ call' = "configuring"
        /\ do_not_remove' = do_not_remove /\ m_modules' = m_modules
        /\ \A x \in Modules : next \notin Naming(x)
    BY <1>4, ElementType DEF SkipElement, AtElement, Naming, Element
  <2>2. \A x \in Modules : Naming(x)' = Naming(x) /\ \A i \in Naming(x) : i \in Nat
    BY <2>1 DEF Naming, TypeOK
  <2>3. \A x \in Modules : \A i \in Naming(x) : LastNaming(x, i) => LastNaming(x, i)'
    BY <2>1, <2>2 DEF LastNaming
  <2>4. ASSUME NEW x \in Modules, x \in do_not_remove'
        PROVE  \E i \in Naming(x)' : LastNaming(x, i)' /\ m_modules'[x] = EntryOf(list'[i])
    BY <2>1, <2>2, <2>3, <2>4 DEF Progress
  <2>5. ASSUME NEW x \in Modules, NEW i \in Naming(x)', i < next'
        PROVE  x \in do_not_remove'
    <3>1. i \in Naming(x) /\ i < next
      BY <2>1, <2>2, <2>5
    <3> QED
      BY <2>1, <3>1 DEF Progress
  <2> QED
    BY <2>1, <2>4, <2>5 DEF Progress
<1>5. CASE Raise
  BY <1>5 DEF Raise, Progress, Naming, LastNaming, Ordered
<1>6. CASE EndOfLists
  BY <1>6, ProgressStays DEF EndOfLists
<1>7. CASE RemoveModule
  <2>1. PICK m \in Unwanted : m_modules' = [m_modules EXCEPT ![m] = NoEntry]
    BY <1>7 DEF RemoveModule
  <2>2. \A x \in do_not_remove : m_modules'[x] = m_modules[x]
    BY <2>1 DEF Unwanted, Present, TypeOK
  <2> QED
    BY <1>7, <2>2, ProgressStays DEF RemoveModule, Progress
<1>8. CASE Return
  <2>1. Present' \subseteq do_not_remove
    BY <1>8 DEF Return, Present, Unwanted
  <2> QED
    BY <1>8, <2>1, ProgressStays DEF Return, Progress
<1>9. CASE UNCHANGED windowVars
  <2>1. Present' = Present
    BY <1>9 DEF windowVars, Present
  <2> QED
    BY <1>9, <2>1, ProgressStays DEF windowVars, Progress
<1> QED
  BY <1>1, <1>2, <1>3, <1>4, <1>5, <1>6, <1>7, <1>8, <1>9
  DEF Next, WindowStep, ConfigureElement

\* A call that has returned has been through its lists and has removed what
\* they do not name.
LEMMA ProgressIsEnough == TypeOK /\ Progress => LayoutIsConfigured
<1> SUFFICES ASSUME TypeOK, Progress, call = "returned", NEW m \in Modules
             PROVE  /\ Naming(m) = {} => m_modules[m] = NoEntry
                    /\ \A i \in Naming(m) :
                         (\A j \in Naming(m) : j <= i) => m_modules[m] = EntryOf(list[i])
  BY DEF LayoutIsConfigured
<1>1. \A i \in Naming(m) : i \in Nat /\ i < next
  BY LenProperties DEF Progress, Naming, TypeOK
<1>2. Naming(m) = {} => m_modules[m] = NoEntry
  BY DEF Progress, Present
<1>3. ASSUME NEW i \in Naming(m), \A j \in Naming(m) : j <= i
      PROVE  m_modules[m] = EntryOf(list[i])
  <2>1. m \in do_not_remove
    BY <1>1, <1>3 DEF Progress
  <2>2. PICK k \in Naming(m) : LastNaming(m, k) /\ m_modules[m] = EntryOf(list[k])
    BY <2>1 DEF Progress
  <2>3. k <= i /\ i <= k
    BY <1>1, <1>3, <2>2 DEF LastNaming
  <2>4. k = i
    BY <1>1, <2>3
  <2> QED
    BY <2>2, <2>4
<1> QED
  BY <1>2, <1>3

-----------------------------------------------------------------------------
(* The order in the boxes                                                  *)

Behind ==
  \A l \in Locations : \A x, y \in Modules :
    /\ x \in do_not_remove /\ y \in do_not_remove
    /\ Before(m_boxes[l], x, y)
    /\ m_modules[x].position > m_modules[y].position
    => x \in kept

LEMMA BehindStep == TypeOK /\ Matched /\ Progress /\ Behind /\ [Next]_windowVars => Behind'
<1> SUFFICES ASSUME TypeOK, Matched, Progress, Behind, [Next]_windowVars
             PROVE  Behind'
  OBVIOUS
<1>1. ASSUME m_modules' = m_modules, m_boxes' = m_boxes, kept' = kept,
             do_not_remove' = do_not_remove
      PROVE  Behind'
  BY <1>1 DEF Behind
<1>2. ASSUME do_not_remove' = {}
      PROVE  Behind'
  BY <1>2 DEF Behind
<1>3. ASSUME AtElement, NEW m \in Modules, Names(Element, m), KeepModule(m)
      PROVE  Behind'
  <2>1. /\ m_modules' = m_modules /\ m_boxes' = m_boxes
        /\ kept' = kept \cup {m} /\ do_not_remove' = do_not_remove \cup {m}
    BY <1>3 DEF KeepModule, Wanted
  <2>2. SUFFICES ASSUME NEW l \in Locations, NEW x \in Modules,
                        x \in do_not_remove, x # m, Before(m_boxes[l], x, m),
                        m_modules[x].position > m_modules[m].position
                 PROVE  FALSE
    BY <2>1 DEF Behind
  <2>3. m_modules[x].location = l /\ m_modules[m].location = l
    BY <2>2 DEF Matched, Before, Holds
  <2>4. m_modules[m].location = Element.location /\ m_modules[m].position = Element.position
    BY <1>3 DEF KeepModule, InPlace
  <2>5. PICK i \in Naming(x) : LastNaming(x, i) /\ m_modules[x] = EntryOf(list[i])
    BY <2>2 DEF Progress
  <2>6. list[i].location = l /\ list[i].position = m_modules[x].position
    BY <2>3, <2>5 DEF EntryOf
  <2>7. i \in DOMAIN list /\ next \in DOMAIN list /\ i < next
    BY <1>3, <2>5 DEF Naming, LastNaming, AtElement
  <2>8. list[i].position < Element.position
    BY <2>3, <2>4, <2>6, <2>7 DEF Progress, Ordered, Element
  <2>9. Element.position \in Nat /\ list[i].position \in Nat
    <3>1. Element \in Elements
      BY <1>3, ElementType
    <3>2. list \in Seq(Elements) /\ i \in 1..Len(list)
      BY <2>7 DEF TypeOK
    <3>3. list[i] \in Elements
      BY <3>2, ElementOfSeq
    <3> QED
      BY <3>1, <3>3 DEF Elements
  <2> QED
    BY <2>2, <2>4, <2>6, <2>8, <2>9
<1>4. ASSUME AtElement, NEW m \in Modules, Names(Element, m), CreateModule(m) \/ MoveModule(m)
      PROVE  Behind'
  <2>1. /\ kept' = kept \ {m} /\ do_not_remove' = do_not_remove \cup {m}
        /\ m_modules'[m] = EntryOf(Element)
        /\ \A z \in Modules : z # m => m_modules'[z] = m_modules[z]
    BY <1>4 DEF CreateModule, MoveModule, Wanted, TypeOK
  <2>2. SUFFICES ASSUME NEW l \in Locations, NEW x \in Modules, NEW y \in Modules,
                        x \in do_not_remove', y \in do_not_remove',
                        Before(m_boxes'[l], x, y),
                        m_modules'[x].position > m_modules'[y].position
                 PROVE  x \in kept'
    BY DEF Behind
  <2>3. /\ x # m /\ Holds(m_boxes[l], x)
        /\ Holds(m_boxes'[l], y)
        /\ y = m \/ Before(m_boxes[l], x, y)
    <3>1. Holds(m_boxes'[l], y)
      BY <2>2 DEF Before, Holds
    <3> QED
      BY <1>4, <2>2, <3>1, PlaceIs
  <2>4. x \in do_not_remove /\ m_modules'[x] = m_modules[x]
    BY <2>1, <2>2, <2>3
  <2>5. CASE y = m
    <3>1. l = Element.location /\ m_modules'[y].position = Element.position
      BY <1>4, <2>1, <2>3, <2>5, PlaceIs DEF EntryOf
    <3>2. m_modules[x].location = l
      BY <2>3 DEF Matched
    <3>3. PICK i \in Naming(x) : LastNaming(x, i) /\ m_modules[x] = EntryOf(list[i])
      BY <2>4 DEF Progress
    <3>4. list[i].location = l /\ list[i].position = m_modules[x].position
      BY <3>2, <3>3 DEF EntryOf
    <3>5. i \in DOMAIN list /\ next \in DOMAIN list /\ i < next
      BY <1>4, <3>3 DEF Naming, LastNaming, AtElement
    <3>6. list[i].position < Element.position
      BY <3>1, <3>4, <3>5 DEF Progress, Ordered, Element
    <3>7. Element.position \in Nat /\ list[i].position \in Nat
      <4>1. Element \in Elements
        BY <1>4, ElementType
      <4>2. list \in Seq(Elements) /\ i \in 1..Len(list)
        BY <3>5 DEF TypeOK
      <4>3. list[i] \in Elements
        BY <4>2, ElementOfSeq
      <4> QED
        BY <4>1, <4>3 DEF Elements
    <3> QED
      BY <2>2, <2>4, <3>1, <3>4, <3>6, <3>7
  <2>6. CASE y # m
    <3>1. y \in do_not_remove /\ m_modules'[y] = m_modules[y]
      BY <2>1, <2>2, <2>6
    <3> QED
      BY <2>1, <2>2, <2>3, <2>4, <2>6, <3>1 DEF Behind
  <2> QED
    BY <2>5, <2>6
<1>5. CASE RemoveModule
  <2>1. PICK m \in Unwanted :
          /\ m_modules' = [m_modules EXCEPT ![m] = NoEntry]
          /\ \A l \in Locations :
               \A x, y \in Modules : Before(m_boxes'[l], x, y) => Before(m_boxes[l], x, y)
    BY <1>5, RemoveIs
  <2>2. \A x \in do_not_remove : m_modules'[x] = m_modules[x]
    BY <2>1 DEF Unwanted, Present, TypeOK
  <2>3. kept' = kept /\ do_not_remove' = do_not_remove
    BY <1>5 DEF RemoveModule
  <2> QED
    BY <2>1, <2>2, <2>3 DEF Behind
<1>6. CASE SkipElement
  BY <1>1, <1>6 DEF SkipElement
<1>7. CASE Raise
  BY <1>2, <1>7 DEF Raise
<1> QED
  BY <1>1, <1>2, <1>3, <1>4, <1>5, <1>6, <1>7
  DEF Next, WindowStep, ConfigureElement, ConfigureModule, VinWindow, VinWindowWithoutModules,
      EndOfLists, Return, windowVars

LEMMA BehindIsEnough == TypeOK /\ Matched /\ Progress /\ Behind => OrderIsExplained
<1> SUFFICES ASSUME TypeOK, Matched, Progress, Behind, call = "returned", NEW l \in Locations,
                    NEW i \in DOMAIN m_boxes[l], NEW j \in DOMAIN m_boxes[l], i < j,
                    m_modules[m_boxes[l][i]].position > m_modules[m_boxes[l][j]].position
             PROVE  m_boxes[l][i] \in kept
  BY DEF OrderIsExplained
<1>1. m_boxes[l][i] \in Modules /\ m_boxes[l][j] \in Modules
  BY ElementOfSeq DEF TypeOK
<1>2. m_modules[m_boxes[l][i]] # NoEntry /\ m_modules[m_boxes[l][j]] # NoEntry
  BY <1>1 DEF Matched, Holds
<1>3. m_boxes[l][i] \in do_not_remove /\ m_boxes[l][j] \in do_not_remove
  BY <1>1, <1>2 DEF Progress, Present
<1> QED
  BY <1>1, <1>3 DEF Behind, Before

-----------------------------------------------------------------------------
(* Functions and positions                                                 *)

LEMMA FunctionsStep == TypeOK /\ FunctionsAreLive /\ [Next]_windowVars => FunctionsAreLive'
<1> SUFFICES ASSUME TypeOK, FunctionsAreLive, [Next]_windowVars
             PROVE  FunctionsAreLive'
  OBVIOUS
<1>1. ASSUME m_modules' = m_modules, vin' = vin
      PROVE  FunctionsAreLive'
  BY <1>1 DEF FunctionsAreLive
<1>2. ASSUME AtElement, NEW m \in Modules, CreateModule(m) \/ MoveModule(m)
      PROVE  FunctionsAreLive'
  <2>1. /\ m_modules'[m] # NoEntry
        /\ \A x \in Modules : x # m => m_modules'[x] = m_modules[x]
        /\ Configure(m)
    BY <1>2, ElementType DEF CreateModule, MoveModule, TypeOK
  <2>2. /\ m = time => vin' = vin \cup {"time_module"}
        /\ m = notification => vin' = vin \cup {"notification_module"}
        /\ m = worksapce => vin' = vin
    BY <2>1 DEF Configure, time, notification, worksapce
  <2>3. m = time \/ m = notification \/ m = worksapce
    BY DEF Modules, time, notification, worksapce
  <2> QED
    BY <2>1, <2>2, <2>3 DEF FunctionsAreLive, Modules, time, notification, worksapce
<1>3. CASE RemoveModule
  <2>1. PICK m \in Unwanted : Unconfigure(m) /\ m_modules' = [m_modules EXCEPT ![m] = NoEntry]
    BY <1>3 DEF RemoveModule
  <2>2. \A x \in Modules : m_modules'[x] = IF x = m THEN NoEntry ELSE m_modules[x]
    BY <2>1 DEF TypeOK
  <2>3. vin' = IF m = time THEN vin \ {"time_module"} ELSE vin
    BY <2>1 DEF Unconfigure
  <2> QED
    BY <2>2, <2>3 DEF FunctionsAreLive, Modules, time, notification
<1>4. ASSUME NEW m \in Modules, KeepModule(m)
      PROVE  FunctionsAreLive'
  BY <1>1, <1>4 DEF KeepModule
<1> QED
  BY <1>1, <1>2, <1>3, <1>4
  DEF Next, WindowStep, ConfigureElement, ConfigureModule, VinWindow, VinWindowWithoutModules,
      SkipElement, Raise, EndOfLists, Return, windowVars

\* A widget that is not there has no position.
Oriented == OrientedAsWindow /\ \A m \in Modules : m_modules[m] = NoEntry => oriented[m] = Unset

LEMMA OrientedStep == TypeOK /\ Oriented /\ [Next]_windowVars => Oriented'
<1> SUFFICES ASSUME TypeOK, Oriented, [Next]_windowVars
             PROVE  Oriented'
  OBVIOUS
<1>1. ASSUME m_modules' = m_modules, oriented' = oriented, anchored' = anchored,
             call' # "returned" \/ (call' = call /\ argument' = argument)
      PROVE  Oriented'
  BY <1>1 DEF Oriented, OrientedAsWindow
<1>2. ASSUME NEW value, Reposition(value), argument' = value, m_modules' = m_modules
      PROVE  Oriented'
  <2>1. CASE value # NotInteger /\ PositionOf(value) \in Positions
    BY <1>2, <2>1 DEF Oriented, OrientedAsWindow, Reposition, Present
  <2>2. CASE ~(value # NotInteger /\ PositionOf(value) \in Positions)
    BY <1>2, <2>2 DEF Oriented, OrientedAsWindow, Reposition
  <2> QED
    BY <2>1, <2>2
<1>3. ASSUME AtElement, NEW m \in Modules, ConfigureModule(m)
      PROVE  Oriented'
  <2>1. /\ oriented' = oriented /\ anchored' = anchored /\ call' = "configuring"
        /\ m_modules'[m] # NoEntry
        /\ \A x \in Modules : x # m => m_modules'[x] = m_modules[x]
    <3>1. EntryOf(Element) # NoEntry
      BY <1>3, ElementType
    <3>2. CASE KeepModule(m)
      BY <1>3, <3>2 DEF AtElement, KeepModule, InPlace, Wanted
    <3>3. CASE CreateModule(m)
      BY <1>3, <3>1, <3>3 DEF AtElement, CreateModule, Wanted, TypeOK
    <3>4. CASE MoveModule(m)
      BY <1>3, <3>1, <3>4 DEF AtElement, MoveModule, Wanted, TypeOK
    <3> QED
      BY <1>3, <3>2, <3>3, <3>4 DEF ConfigureModule
  <2> QED
    BY <2>1 DEF Oriented, OrientedAsWindow
<1>4. CASE RemoveModule
  <2>1. PICK m \in Unwanted :
          /\ m_modules' = [m_modules EXCEPT ![m] = NoEntry]
          /\ oriented' = [oriented EXCEPT ![m] = Unset]
    BY <1>4 DEF RemoveModule
  <2>2. \A x \in Modules :
          /\ m_modules'[x] = IF x = m THEN NoEntry ELSE m_modules[x]
          /\ oriented'[x] = IF x = m THEN Unset ELSE oriented[x]
    BY <2>1 DEF TypeOK
  <2>3. call' = "removing" /\ anchored' = anchored
    BY <1>4 DEF RemoveModule
  <2> QED
    BY <2>2, <2>3 DEF Oriented, OrientedAsWindow
<1>5. CASE Return
  BY <1>2, <1>5 DEF Return
<1> QED
  BY <1>1, <1>2, <1>3, <1>4, <1>5
  DEF Next, WindowStep, ConfigureElement, VinWindow, VinWindowWithoutModules,
      SkipElement, Raise, EndOfLists, windowVars

-----------------------------------------------------------------------------
(* Theorems                                                                *)

IInv == TypeOK /\ Matched /\ Progress /\ Behind /\ FunctionsAreLive /\ Oriented

LEMMA InitIInv == WindowInit => IInv
<1> SUFFICES ASSUME WindowInit
             PROVE  IInv
  OBVIOUS
<1>1. <<>> \in Seq(Modules) /\ <<>> \in Seq(Elements) /\ Len(<<>>) = 0
  BY EmptySeq
<1>2. TypeOK
  BY <1>1 DEF WindowInit, NewTable, TypeOK, Functions
<1>3. Matched
  BY DEF WindowInit, Matched, Once, Holds
<1>4. Progress
  BY <1>1 DEF WindowInit, Progress, Ordered, Naming, LastNaming, Present
<1>5. Behind
  BY DEF WindowInit, Behind
<1>6. FunctionsAreLive
  BY DEF WindowInit, NewTable, FunctionsAreLive, Modules, time, notification
<1>7. Oriented
  BY DEF WindowInit, Oriented, OrientedAsWindow
<1> QED
  BY <1>2, <1>3, <1>4, <1>5, <1>6, <1>7 DEF IInv

\* The inductive invariant of the window.
THEOREM InvariantHolds == Spec => []IInv
<1>1. IInv /\ [Next]_windowVars => IInv'
  BY TypeStep, MatchedStep, ProgressStep, BehindStep, FunctionsStep, OrientedStep DEF IInv
<1> QED
  BY InitIInv, <1>1, PTL DEF Spec

\* Every variable keeps its type, whatever integers a config gives.
THEOREM TypeCorrect == Spec => []TypeOK
<1>1. IInv => TypeOK
  BY DEF IInv
<1> QED
  BY InvariantHolds, <1>1, PTL

\* In whatever state a call is or was broken off, each widget is in the one
\* box its entry names.
THEOREM BoxesStayMatched == Spec => []BoxesMatchEntries
<1>1. IInv => BoxesMatchEntries
  BY MatchedIsBoxesMatchEntries DEF IInv
<1> QED
  BY InvariantHolds, <1>1, PTL

\* A call that returns has made the layout its lists ask for.
THEOREM LayoutFollowsConfig == Spec => []LayoutIsConfigured
<1>1. IInv => LayoutIsConfigured
  BY ProgressIsEnough DEF IInv
<1> QED
  BY InvariantHolds, <1>1, PTL

\* Only a widget that was left alone can stand before one it belongs behind.
THEOREM OrderFollowsConfig == Spec => []OrderIsExplained
<1>1. IInv => OrderIsExplained
  BY BehindIsEnough DEF IInv
<1> QED
  BY InvariantHolds, <1>1, PTL

\* The time's function is there with its module.
THEOREM FunctionsStayLive == Spec => []FunctionsAreLive
<1>1. IInv => FunctionsAreLive
  BY DEF IInv
<1> QED
  BY InvariantHolds, <1>1, PTL

\* No widget stands otherwise than the window.
THEOREM WidgetsStandAsWindow == Spec => []OrientedAsWindow
<1>1. IInv => OrientedAsWindow
  BY DEF IInv, Oriented
<1> QED
  BY InvariantHolds, <1>1, PTL

=============================================================================
