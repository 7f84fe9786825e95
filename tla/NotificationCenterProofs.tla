---------------------- MODULE NotificationCenterProofs ----------------------
(***************************************************************************)
(* For any number of calls, any ids to replace and any width of the id     *)
(* counter.                                                                *)
(*                                                                         *)
(* Two invariants.  SInv is about the two threads: a call the worker was   *)
(* not given yet, or that waits for the main thread, has no answer, and    *)
(* the main thread takes the calls in their order.  LInv is about the      *)
(* list: until the counter wraps, nothing has an id above the counter, so  *)
(* that appending keeps the list sorted and the next id is a new one.      *)
(***************************************************************************)
EXTENDS NotificationCenter, SequenceTheorems, WellFoundedInduction, TLAPS

Unanswered ==
  /\ \A c \in (received + 1)..Len(calls) : reply[c] = NoReply
  /\ \A i \in 1..Len(queue) : queue[i] <= received /\ reply[queue[i]] = NoReply
  /\ \A i, j \in 1..Len(queue) : i < j => queue[i] < queue[j]

SInv ==
  /\ ServerTypeOK
  /\ Len(calls) <= MaxCalls
  /\ Unanswered

NextIdIsCount == assigned < IdSpace => s_next_id = assigned

IdsAreCounted ==
  assigned < IdSpace => \A i \in DOMAIN m_notifications : m_notifications[i].id <= assigned

RepliesAreCounted ==
  assigned < IdSpace =>
    \A c \in DOMAIN calls : calls[c].replaces = 0 /\ reply[c] >= 0 => reply[c] <= assigned

LInv ==
  /\ ListTypeOK
  /\ NextIdIsCount
  /\ IdsAreCounted
  /\ RepliesAreCounted
  /\ ListIsSorted
  /\ RowsMatch
  /\ ShownWhileListed
  /\ IdsAreFresh

IInv == SInv /\ LInv

-----------------------------------------------------------------------------
(* Operators                                                               *)

\* The counter before it wraps.
LEMMA SmallMod ==
  ASSUME NEW a \in Nat, NEW b \in Nat, a < b
  PROVE  a % b = a
<1>1. \A q, r \in Int : b * q + r = a /\ 0 <= r /\ r < b => r = a
  <2> SUFFICES ASSUME NEW q \in Int, NEW r \in Int, b * q + r = a, 0 <= r, r < b PROVE r = a
    OBVIOUS
  <2>1. q = 0
    OBVIOUS
  <2>2. QED
    BY <2>1
<1>2. QED
  BY <1>1

\* Answer changes the answer to one call.
LEMMA AnswerOne ==
  ASSUME ServerTypeOK, NEW c \in 1..Len(calls), NEW v \in Replies, Answer(c, v)
  PROVE  /\ reply' \in Seq(Replies)
         /\ Len(reply') = Len(reply)
         /\ reply'[c] = v
         /\ \A d \in 1..Len(calls) : d # c => reply'[d] = reply[d]
<1>1. reply \in Seq(Replies) /\ c \in 1..Len(reply) /\ Len(reply) = Len(calls)
  BY DEF ServerTypeOK
<1>2. QED
  BY <1>1, ExceptSeq DEF Answer

\* The id a call replaces is a natural number.
LEMMA ReplacesAreNat ==
  ASSUME NEW call \in Calls
  PROVE  call.replaces \in Nat
<1>1. CASE call \in [method : OtherCalls, replaces : {0}]
  BY <1>1
<1>2. CASE call \in [method : {"Notify"}, replaces : ReplacesIds]
  BY <1>2, ReplacesIdsAssumption DEF ReplacesIdsAssumption
<1>3. QED
  BY <1>1, <1>2 DEF Calls

Before == {ss \in Nat \X Nat : ss[1] < ss[2]}

\* A set of natural numbers has a least one.
LEMMA Least ==
  ASSUME NEW S \in SUBSET Nat, S # {}
  PROVE  \E n \in S : \A m \in S : n <= m
<1>1. OpToRel(<, Nat) = Before
  BY DEF OpToRel, Before
<1>2. IsWellFoundedOn(Before, Nat)
  BY <1>1, NatLessThanWellFounded
<1>3. PICK n \in S : \A m \in S : <<m, n>> \notin Before
  BY <1>2, WFMin, Zenon
<1>4. \A m \in S : ~(m < n)
  BY <1>3 DEF Before
<1>5. QED
  BY <1>4

LEMMA Half ==
  ASSUME NEW n \in Nat \ {0}
  PROVE  n \div 2 \in 0..(n - 1)
OBVIOUS

\* lower_bound finds an id of a sorted list.  The function it is defined with
\* exists because `found' satisfies its equation: the place looked for, or the
\* end of the range on its side.  It is the only one, for there is no shortest
\* range at which another could differ.
LEMMA LowerBoundFinds ==
  ASSUME NEW list, Len(list) \in Nat, NEW i \in 1..Len(list),
         \A j \in 1..Len(list) : list[j].id < list[i].id <=> j < i
  PROVE  LowerBound(list, list[i].id) = i
<1> DEFINE L == Len(list)
           id == list[i].id
           Ranges == {r \in (1..L + 1) \X (0..L) : r[1] + r[2] <= L + 1}
           Step(g, r) ==
             IF r[2] = 0 THEN r[1]
             ELSE IF list[r[1] + r[2] \div 2].id < id
             THEN g[<<r[1] + r[2] \div 2 + 1, r[2] - r[2] \div 2 - 1>>]
             ELSE g[<<r[1], r[2] \div 2>>]
           search == CHOOSE g : g = [r \in Ranges |-> Step(g, r)]
           near(r) == IF i < r[1] THEN r[1] ELSE IF i > r[1] + r[2] THEN r[1] + r[2] ELSE i
           found == [r \in Ranges |-> near(r)]
<1>1. LowerBound(list, id) = search[<<1, L>>]
  BY DEF LowerBound
<1>2. ASSUME NEW r \in Ranges, r[2] # 0
      PROVE  LET upper == <<r[1] + r[2] \div 2 + 1, r[2] - r[2] \div 2 - 1>>
                 lower == <<r[1], r[2] \div 2>>
             IN  /\ upper \in Ranges /\ lower \in Ranges
                 /\ upper[2] < r[2] /\ lower[2] < r[2]
                 /\ near(r) = IF list[r[1] + r[2] \div 2].id < id THEN near(upper) ELSE near(lower)
  <2> DEFINE h == r[2] \div 2
  <2>1. h \in 0..(r[2] - 1) /\ r[1] \in 1..(L + 1) /\ r[2] \in 1..L /\ r[1] + r[2] <= L + 1
    BY <1>2, Half
  <2> HIDE DEF h
  <2>2. /\ <<r[1] + h + 1, r[2] - h - 1>> \in Ranges
        /\ <<r[1], h>> \in Ranges
    BY <2>1
  <2>3. r[1] + h \in 1..L
    BY <2>1
  <2>4. list[r[1] + h].id < id <=> r[1] + h < i
    BY <2>3
  <2>5. r[1] + h < i => near(r) = near(<<r[1] + h + 1, r[2] - h - 1>>)
    BY <2>1
  <2>6. ~(r[1] + h < i) => near(r) = near(<<r[1], h>>)
    BY <2>1
  <2> HIDE DEF near, Ranges
  <2>7. QED
    BY <2>1, <2>2, <2>4, <2>5, <2>6 DEF h
<1> HIDE DEF near
<1>3. found = [r \in Ranges |-> Step(found, r)]
  <2> SUFFICES ASSUME NEW r \in Ranges PROVE near(r) = Step(found, r)
    OBVIOUS
  <2>1. CASE r[2] = 0
    <3>1. r[1] \in 1..(L + 1)
      OBVIOUS
    <3>2. QED
      BY <2>1, <3>1 DEF near
  <2>2. CASE r[2] # 0
    <3> HIDE DEF Ranges
    <3>1. QED
      BY <1>2, <2>2
  <2>3. QED
    BY <2>1, <2>2
<1>4. search = [r \in Ranges |-> Step(search, r)]
  <2> HIDE DEF found, Ranges, Step
  <2>1. \E g : g = [r \in Ranges |-> Step(g, r)]
    BY <1>3
  <2>2. QED
    BY <2>1
<1> HIDE DEF search
<1>5. ASSUME NEW s \in Ranges PROVE search[s] = near(s)
  <2> DEFINE Wrong == {n \in Nat : \E r \in Ranges : r[2] = n /\ search[r] # near(r)}
  <2>1. CASE Wrong = {}
    <3>1. s[2] \in Nat
      OBVIOUS
    <3>2. QED
      BY <2>1, <3>1
  <2>2. CASE Wrong # {}
    <3>1. PICK n \in Wrong : \A m \in Wrong : n <= m
      BY <2>2, Least
    <3>2. PICK r \in Ranges : r[2] = n /\ search[r] # near(r)
      OBVIOUS
    <3>3. \A t \in Ranges : t[2] < r[2] => search[t] = near(t)
      <4> SUFFICES ASSUME NEW t \in Ranges, t[2] < r[2], search[t] # near(t) PROVE FALSE
        OBVIOUS
      <4>1. t[2] \in Nat /\ t[2] \in Wrong
        OBVIOUS
      <4>2. n <= t[2] /\ n \in Nat
        BY <3>1, <4>1
      <4>3. QED
        BY <3>2, <4>1, <4>2
    <3>4. search[r] = Step(search, r)
      <4> HIDE DEF Step, Ranges
      <4>1. QED
        BY <1>4
    <3>5. r[2] = 0 => near(r) = r[1]
      <4>1. r[1] \in 1..(L + 1)
        OBVIOUS
      <4>2. QED
        BY <4>1 DEF near
    <3> HIDE DEF Ranges
    <3>6. near(r) = Step(search, r)
      BY <1>2, <3>3, <3>5
    <3>7. QED
      BY <3>2, <3>4, <3>6
  <2>3. QED
    BY <2>1, <2>2
<1>6. <<1, L>> \in Ranges /\ near(<<1, L>>) = i
  BY DEF near
<1>7. QED
  BY <1>1, <1>5, <1>6

\* Without takes one place out of a sequence and closes the gap.
LEMMA WithoutProperties ==
  ASSUME NEW S, NEW s \in Seq(S), NEW pos \in 1..Len(s)
  PROVE  /\ Without(s, pos) \in Seq(S)
         /\ Len(Without(s, pos)) = Len(s) - 1
         /\ \A i \in 1..(Len(s) - 1) :
              Without(s, pos)[i] = IF i < pos THEN s[i] ELSE s[i + 1]
<1> DEFINE front == SubSeq(s, 1, pos - 1)
           back  == SubSeq(s, pos + 1, Len(s))
<1>0. Len(s) \in Nat /\ pos \in Int /\ \A i \in 1..Len(s) : s[i] \in S
  BY LenProperties, ElementOfSeq
<1>1. /\ front \in Seq(S)
      /\ Len(front) = pos - 1
      /\ \A i \in 1..(pos - 1) : front[i] = s[i]
  <2>1. \A i \in 1..(pos - 1) : s[i] \in S
    BY <1>0
  <2>2. 1 \in Int /\ pos - 1 \in Int
    BY <1>0
  <2>3. /\ front \in Seq(S)
        /\ Len(front) = IF 1 <= pos - 1 THEN (pos - 1) - 1 + 1 ELSE 0
        /\ \A i \in 1..((pos - 1) - 1 + 1) : front[i] = s[1 + i - 1]
    BY <2>1, <2>2, SubSeqProperties
  <2> HIDE DEF front
  <2>4. QED
    BY <2>3, <1>0
<1>2. /\ back \in Seq(S)
      /\ Len(back) = Len(s) - pos
      /\ \A i \in 1..(Len(s) - pos) : back[i] = s[i + pos]
  <2>1. \A i \in (pos + 1)..Len(s) : s[i] \in S
    BY <1>0
  <2>2. pos + 1 \in Int /\ Len(s) \in Int
    BY <1>0
  <2>3. /\ back \in Seq(S)
        /\ Len(back) = IF pos + 1 <= Len(s) THEN Len(s) - (pos + 1) + 1 ELSE 0
        /\ \A i \in 1..(Len(s) - (pos + 1) + 1) : back[i] = s[(pos + 1) + i - 1]
    BY <2>1, <2>2, SubSeqProperties
  <2> HIDE DEF back
  <2>4. QED
    BY <2>3, <1>0
<1>3. Without(s, pos) = front \o back
  BY DEF Without
<1> HIDE DEF front, back
<1>4. /\ front \o back \in Seq(S)
      /\ Len(front \o back) = Len(front) + Len(back)
      /\ \A i \in 1..(Len(front) + Len(back)) :
           (front \o back)[i] = IF i <= Len(front) THEN front[i] ELSE back[i - Len(front)]
  BY <1>1, <1>2, ConcatProperties
<1>5. Len(front) + Len(back) = Len(s) - 1
  BY <1>0, <1>1, <1>2
<1>6. ASSUME NEW i \in 1..(Len(s) - 1)
      PROVE  (front \o back)[i] = IF i < pos THEN s[i] ELSE s[i + 1]
  <2>1. CASE i < pos
    BY <2>1, <1>0, <1>1, <1>4, <1>5
  <2>2. CASE ~(i < pos)
    <3>1. i - (pos - 1) \in 1..(Len(s) - pos)
      BY <2>2, <1>0
    <3>2. (front \o back)[i] = back[i - (pos - 1)]
      BY <2>2, <1>0, <1>1, <1>4, <1>5
    <3>3. QED
      BY <2>2, <3>1, <3>2, <1>0, <1>2
  <2>3. QED
    BY <2>1, <2>2
<1>7. QED
  BY <1>3, <1>4, <1>5, <1>6

-----------------------------------------------------------------------------
(* The two threads                                                         *)

\* A step that leaves the calls and their answers alone keeps SInv.
LEMMA ServerKept ==
  ASSUME SInv, UNCHANGED <<calls, received, reply, queue>>,
         name' \in NameStates, m_bus_id' \in BOOLEAN, m_object_id' \in BOOLEAN,
         m_connection' \in BOOLEAN, m_is_running' \in BOOLEAN
  PROVE  SInv'
<1>1. ServerTypeOK'
  BY DEF SInv, ServerTypeOK
<1>2. (Len(calls) <= MaxCalls)'
  BY DEF SInv
<1>3. Unanswered'
  BY DEF SInv, Unanswered
<1>4. QED
  BY <1>1, <1>2, <1>3 DEF SInv

\* The client's call has no answer and nobody was given it.
LEMMA ClientSInv ==
  ASSUME SInv, NEW call \in Calls, ClientCalls(call)
  PROVE  /\ SInv'
         /\ Len(calls') = Len(calls) + 1
         /\ reply'[Len(calls) + 1] = NoReply
         /\ \A c \in 1..Len(calls) : calls'[c] = calls[c] /\ reply'[c] = reply[c]
<1> USE DEF ClientCalls, memberVars
<1>0. /\ calls \in Seq(Calls) /\ Len(calls) \in Nat /\ received \in 0..Len(calls)
      /\ reply \in Seq(Replies) /\ Len(reply) = Len(calls)
      /\ queue \in Seq(DOMAIN calls) /\ DOMAIN calls = 1..Len(calls)
      /\ NoReply \in Replies
  BY LenProperties DEF SInv, ServerTypeOK, Replies
<1>1. /\ calls' \in Seq(Calls) /\ Len(calls') = Len(calls) + 1
      /\ \A c \in 1..Len(calls) : calls'[c] = calls[c]
  BY <1>0, AppendProperties
<1>2. /\ reply' \in Seq(Replies) /\ Len(reply') = Len(calls) + 1
      /\ reply'[Len(calls) + 1] = NoReply
      /\ \A c \in 1..Len(calls) : reply'[c] = reply[c]
  BY <1>0, AppendProperties
<1>3. queue' \in Seq(DOMAIN calls')
  <2>1. DOMAIN calls' = 1..Len(calls')
    BY <1>1, LenProperties
  <2>2. 1..Len(calls) \subseteq 1..Len(calls')
    BY <1>0, <1>1
  <2>3. QED
    BY <1>0, <2>1, <2>2, SeqMonotonic
<1>4. ServerTypeOK'
  <2>1. received' \in 0..Len(calls')
    BY <1>0, <1>1
  <2>2. Len(reply') = Len(calls')
    BY <1>1, <1>2
  <2>3. /\ name' \in NameStates /\ m_bus_id' \in BOOLEAN /\ m_object_id' \in BOOLEAN
        /\ m_connection' \in BOOLEAN /\ m_is_running' \in BOOLEAN
    BY DEF SInv, ServerTypeOK
  <2>4. QED
    BY <1>1, <1>2, <1>3, <2>1, <2>2, <2>3 DEF ServerTypeOK
<1>5. (Len(calls) <= MaxCalls)'
  BY <1>0, <1>1, MaxCallsAssumption DEF MaxCallsAssumption
<1>6. Unanswered'
  <2>1. ASSUME NEW c \in (received' + 1)..Len(calls') PROVE reply'[c] = NoReply
    <3>1. CASE c = Len(calls) + 1
      BY <3>1, <1>2
    <3>2. CASE c # Len(calls) + 1
      <4>1. c \in (received + 1)..Len(calls) /\ c \in 1..Len(calls)
        BY <3>2, <1>0, <1>1
      <4>2. QED
        BY <4>1, <1>2 DEF SInv, Unanswered
    <3>3. QED
      BY <3>1, <3>2
  <2>2. ASSUME NEW i \in 1..Len(queue') PROVE queue'[i] <= received' /\ reply'[queue'[i]] = NoReply
    <3>1. queue'[i] = queue[i] /\ received' = received /\ i \in 1..Len(queue)
      OBVIOUS
    <3>2. queue[i] \in 1..Len(calls)
      BY <3>1, <1>0, ElementOfSeq
    <3>3. QED
      BY <3>1, <3>2, <1>2 DEF SInv, Unanswered
  <2>3. ASSUME NEW i \in 1..Len(queue'), NEW j \in 1..Len(queue'), i < j
        PROVE  queue'[i] < queue'[j]
    BY <2>3 DEF SInv, Unanswered
  <2>4. QED
    BY <2>1, <2>2, <2>3 DEF Unanswered
<1>7. QED
  BY <1>1, <1>2, <1>4, <1>5, <1>6 DEF SInv

\* What bus_method_call may do with the next call: answer it with something
\* that is no id, leave it, or put it at the end of the queue.
LEMMA GivenSInv ==
  ASSUME SInv, received < Len(calls), received' = received + 1,
         UNCHANGED <<name, memberVars, calls>>,
         \/ /\ \E v \in {ErrorReply, OtherReply} : Answer(received + 1, v)
            /\ UNCHANGED queue
         \/ UNCHANGED <<reply, queue>>
         \/ queue' = Append(queue, received + 1) /\ UNCHANGED reply
  PROVE  /\ SInv'
         /\ \A c \in 1..Len(calls) : reply'[c] = reply[c] \/ reply'[c] \in {ErrorReply, OtherReply}
         /\ \A c \in 1..Len(calls) : reply[c] # NoReply => reply'[c] = reply[c]
<1> DEFINE k == received + 1
<1>0. /\ calls \in Seq(Calls) /\ Len(calls) \in Nat /\ received \in 0..Len(calls)
      /\ reply \in Seq(Replies) /\ Len(reply) = Len(calls)
      /\ queue \in Seq(1..Len(calls)) /\ DOMAIN calls = 1..Len(calls)
      /\ k \in 1..Len(calls) /\ k \in (received + 1)..Len(calls)
  <2>1. /\ calls \in Seq(Calls) /\ received \in 0..Len(calls)
        /\ reply \in Seq(Replies) /\ Len(reply) = Len(calls)
        /\ queue \in Seq(DOMAIN calls)
    BY DEF SInv, ServerTypeOK
  <2>2. Len(calls) \in Nat /\ DOMAIN calls = 1..Len(calls)
    BY <2>1, LenProperties
  <2>3. QED
    BY <2>1, <2>2
<1>1. reply[k] = NoReply
  BY <1>0 DEF SInv, Unanswered
<1>2. reply' = reply \/ \E v \in {ErrorReply, OtherReply} : Answer(k, v)
  OBVIOUS
<1>3. /\ reply' \in Seq(Replies) /\ Len(reply') = Len(calls)
      /\ \A d \in 1..Len(calls) : d # k => reply'[d] = reply[d]
      /\ reply'[k] \in {NoReply, ErrorReply, OtherReply}
  <2>1. CASE reply' = reply
    BY <2>1, <1>0, <1>1
  <2>2. CASE \E v \in {ErrorReply, OtherReply} : Answer(k, v)
    <3>1. PICK v \in {ErrorReply, OtherReply} : Answer(k, v)
      BY <2>2
    <3>2. v \in Replies
      BY DEF Replies
    <3>3. /\ reply' \in Seq(Replies) /\ Len(reply') = Len(reply) /\ reply'[k] = v
          /\ \A d \in 1..Len(calls) : d # k => reply'[d] = reply[d]
      BY <3>1, <3>2, <1>0, AnswerOne DEF SInv
    <3>4. QED
      BY <3>3, <1>0
  <2>3. QED
    BY <1>2, <2>1, <2>2
<1>4. \A i \in 1..Len(queue) : queue[i] \in 1..Len(calls) /\ queue[i] < k /\ reply'[queue[i]] = NoReply
  <2> SUFFICES ASSUME NEW i \in 1..Len(queue)
               PROVE  queue[i] \in 1..Len(calls) /\ queue[i] < k /\ reply'[queue[i]] = NoReply
    OBVIOUS
  <2>1. queue[i] \in 1..Len(calls)
    BY <1>0, ElementOfSeq
  <2>2. queue[i] <= received /\ reply[queue[i]] = NoReply
    BY DEF SInv, Unanswered
  <2>3. queue[i] < k
    BY <2>1, <2>2, <1>0
  <2>4. QED
    BY <2>1, <2>2, <2>3, <1>3
<1>5. ServerTypeOK'
  <2>1. queue' \in Seq(1..Len(calls))
    <3>1. CASE queue' = queue
      BY <3>1, <1>0
    <3>2. CASE queue' = Append(queue, k)
      BY <3>2, <1>0, AppendProperties
    <3>3. QED
      BY <3>1, <3>2
  <2>2. received' \in 0..Len(calls)
    BY <1>0
  <2>3. /\ name' \in NameStates /\ m_bus_id' \in BOOLEAN /\ m_object_id' \in BOOLEAN
        /\ m_connection' \in BOOLEAN /\ m_is_running' \in BOOLEAN
    BY DEF SInv, ServerTypeOK, memberVars
  <2>4. calls' = calls
    OBVIOUS
  <2>5. QED
    BY <1>0, <1>3, <2>1, <2>2, <2>3, <2>4 DEF ServerTypeOK
<1>6. (Len(calls) <= MaxCalls)'
  BY DEF SInv
<1>7. Unanswered'
  <2>1. ASSUME NEW d \in (received' + 1)..Len(calls') PROVE reply'[d] = NoReply
    <3>1. d \in (received + 1)..Len(calls) /\ d \in 1..Len(calls) /\ d # k
      BY <1>0
    <3>2. QED
      BY <3>1, <1>3 DEF SInv, Unanswered
  <2>2. CASE queue' = queue
    <3>1. \A i \in 1..Len(queue') : queue'[i] <= received' /\ reply'[queue'[i]] = NoReply
      BY <2>2, <1>0, <1>4
    <3>2. \A i, j \in 1..Len(queue') : i < j => queue'[i] < queue'[j]
      BY <2>2 DEF SInv, Unanswered
    <3>3. QED
      BY <2>1, <3>1, <3>2 DEF Unanswered
  <2>3. CASE queue' = Append(queue, k) /\ reply' = reply
    <3>1. /\ Len(queue') = Len(queue) + 1 /\ Len(queue) \in Nat
          /\ \A i \in 1..Len(queue) : queue'[i] = queue[i]
          /\ queue'[Len(queue) + 1] = k
      BY <2>3, <1>0, AppendProperties, LenProperties
    <3>2. ASSUME NEW i \in 1..Len(queue') PROVE queue'[i] <= received' /\ reply'[queue'[i]] = NoReply
      <4>1. CASE i = Len(queue) + 1
        BY <4>1, <3>1, <2>3, <1>0, <1>1
      <4>2. CASE i \in 1..Len(queue)
        <5>1. queue'[i] = queue[i]
          BY <4>2, <3>1
        <5>2. QED
          BY <4>2, <5>1, <1>0, <1>4
      <4>3. QED
        BY <4>1, <4>2, <3>1
    <3>3. ASSUME NEW i \in 1..Len(queue'), NEW j \in 1..Len(queue'), i < j
          PROVE  queue'[i] < queue'[j]
      <4>1. i \in 1..Len(queue)
        BY <3>1, <3>3
      <4>2. CASE j = Len(queue) + 1
        BY <4>1, <4>2, <3>1, <1>4
      <4>3. CASE j \in 1..Len(queue)
        BY <4>1, <4>3, <3>1, <3>3 DEF SInv, Unanswered
      <4>4. QED
        BY <4>2, <4>3, <3>1
    <3>4. QED
      BY <2>1, <3>2, <3>3 DEF Unanswered
  <2>4. QED
    BY <2>2, <2>3
<1>8. SInv'
  BY <1>5, <1>6, <1>7 DEF SInv
<1>9. \A c \in 1..Len(calls) : reply'[c] = reply[c] \/ reply'[c] \in {ErrorReply, OtherReply}
  BY <1>1, <1>3
<1>10. \A c \in 1..Len(calls) : reply[c] # NoReply => reply'[c] = reply[c]
  BY <1>1, <1>3
<1>11. QED
  BY <1>8, <1>9, <1>10

\* The worker thread keeps SInv, gives no ids and changes no answer.
LEMMA WorkerSInv ==
  ASSUME SInv, WorkerStep
  PROVE  /\ SInv'
         /\ UNCHANGED calls
         /\ \A c \in 1..Len(calls) : reply'[c] = reply[c] \/ reply'[c] \in {ErrorReply, OtherReply}
         /\ \A c \in 1..Len(calls) : reply[c] # NoReply => reply'[c] = reply[c]
<1> DEFINE Goal == /\ SInv'
                   /\ UNCHANGED calls
                   /\ \A c \in 1..Len(calls) : \/ reply'[c] = reply[c]
                                               \/ reply'[c] \in {ErrorReply, OtherReply}
                   /\ \A c \in 1..Len(calls) : reply[c] # NoReply => reply'[c] = reply[c]
<1>0. /\ name \in NameStates /\ m_bus_id \in BOOLEAN /\ m_object_id \in BOOLEAN
      /\ m_connection \in BOOLEAN /\ m_is_running \in BOOLEAN
  BY DEF SInv, ServerTypeOK
<1>1. CASE Start
  BY <1>0, <1>1, ServerKept DEF Start, NameStates
<1>2. CASE OnBusAquire
  BY <1>0, <1>2, ServerKept DEF OnBusAquire, NameStates
<1>3. CASE OnNameAquire
  BY <1>0, <1>3, ServerKept DEF OnNameAquire, NameStates
<1>4. CASE OnNameLost
  BY <1>0, <1>4, ServerKept DEF OnNameLost, Stop, NameStates
<1>5. CASE BusMethodCall
  <2>1. /\ received < Len(calls) /\ received' = received + 1
        /\ UNCHANGED <<name, memberVars, calls>>
    BY <1>5 DEF BusMethodCall
  <2>2. \/ /\ \E v \in {ErrorReply, OtherReply} : Answer(received + 1, v)
           /\ UNCHANGED queue
        \/ UNCHANGED <<reply, queue>>
        \/ queue' = Append(queue, received + 1) /\ UNCHANGED reply
    BY <1>5 DEF BusMethodCall, CommandNotify, CommandCloseNotification
  <2>3. QED
    BY <2>1, <2>2, GivenSInv
<1>6. CASE BusRejectsCall
  <2>1. /\ received < Len(calls) /\ received' = received + 1
        /\ UNCHANGED <<name, memberVars, calls>>
        /\ Answer(received + 1, ErrorReply)
        /\ UNCHANGED queue
    BY <1>6 DEF BusRejectsCall
  <2>2. QED
    BY <2>1, GivenSInv
<1>7. QED
  BY <1>1, <1>2, <1>3, <1>4, <1>5, <1>6 DEF WorkerStep

\* The main thread answers the oldest waiting call with an id.
LEMMA MainSInv ==
  ASSUME SInv, DispatchNotify, NEW v \in Nat, Answer(Head(queue), v)
  PROVE  /\ SInv'
         /\ Head(queue) \in 1..Len(calls)
         /\ reply'[Head(queue)] = v
         /\ \A d \in 1..Len(calls) : d # Head(queue) => reply'[d] = reply[d]
         /\ \A d \in 1..Len(calls) : reply[d] # NoReply => reply'[d] = reply[d]
<1> DEFINE k == Head(queue)
<1>0. /\ queue # <<>> /\ queue' = Tail(queue) /\ UNCHANGED <<name, memberVars, calls, received>>
      /\ ServerTypeOK
  BY DEF DispatchNotify, SInv
<1>1. /\ calls \in Seq(Calls) /\ received \in 0..Len(calls) /\ Len(calls) \in Nat
      /\ Len(reply) = Len(calls) /\ queue \in Seq(1..Len(calls))
  <2>1. calls \in Seq(Calls) /\ DOMAIN calls = 1..Len(calls) /\ Len(calls) \in Nat
    BY <1>0, LenProperties DEF ServerTypeOK
  <2>2. QED
    BY <1>0, <2>1 DEF ServerTypeOK
<1>2. /\ k = queue[1] /\ Len(queue) \in Nat \ {0}
      /\ k \in 1..Len(calls)
      /\ queue' \in Seq(1..Len(calls))
      /\ Len(queue') = Len(queue) - 1
      /\ \A i \in 1..Len(queue') : queue'[i] = queue[i + 1]
  BY <1>0, <1>1, HeadTailProperties, EmptySeq
<1>3. k <= received /\ reply[k] = NoReply
  BY <1>2 DEF SInv, Unanswered
<1>4. v \in Replies
  BY DEF Replies
<1>5. /\ reply' \in Seq(Replies) /\ Len(reply') = Len(reply) /\ reply'[k] = v
      /\ \A d \in 1..Len(calls) : d # k => reply'[d] = reply[d]
  BY <1>0, <1>2, <1>4, AnswerOne
<1> HIDE DEF k
<1>6. ServerTypeOK'
  <2>1. DOMAIN calls' = 1..Len(calls)
    BY <1>0, <1>1, LenProperties
  <2>2. QED
    BY <1>0, <1>1, <1>2, <1>5, <2>1 DEF ServerTypeOK, memberVars
<1>7. Unanswered'
  <2>1. ASSUME NEW d \in (received' + 1)..Len(calls') PROVE reply'[d] = NoReply
    <3>1. d \in (received + 1)..Len(calls) /\ d \in 1..Len(calls) /\ d # k
      BY <1>0, <1>1, <1>3
    <3>2. QED
      BY <3>1, <1>5 DEF SInv, Unanswered
  <2>2. ASSUME NEW i \in 1..Len(queue') PROVE queue'[i] <= received' /\ reply'[queue'[i]] = NoReply
    <3>1. i + 1 \in 1..Len(queue) /\ 1 \in 1..Len(queue) /\ 1 < i + 1 /\ queue'[i] = queue[i + 1]
      BY <1>2
    <3>2. queue[1] < queue[i + 1] /\ queue[i + 1] <= received /\ reply[queue[i + 1]] = NoReply
      BY <3>1 DEF SInv, Unanswered
    <3>3. queue[i + 1] \in 1..Len(calls)
      BY <3>1, <1>1, ElementOfSeq
    <3>4. queue[i + 1] # k
      BY <3>2, <3>3, <1>1, <1>2
    <3>5. QED
      BY <3>1, <3>2, <3>3, <3>4, <1>0, <1>5
  <2>3. ASSUME NEW i \in 1..Len(queue'), NEW j \in 1..Len(queue'), i < j
        PROVE  queue'[i] < queue'[j]
    <3>1. i + 1 \in 1..Len(queue) /\ j + 1 \in 1..Len(queue) /\ i + 1 < j + 1
      BY <2>3, <1>2
    <3>2. QED
      BY <3>1, <1>2 DEF SInv, Unanswered
  <2>4. QED
    BY <2>1, <2>2, <2>3 DEF Unanswered
<1>8. (Len(calls) <= MaxCalls)'
  BY <1>0 DEF SInv
<1>9. \A d \in 1..Len(calls) : reply[d] # NoReply => reply'[d] = reply[d]
  BY <1>3, <1>5
<1>10. QED
  BY <1>2, <1>5, <1>6, <1>7, <1>8, <1>9 DEF SInv, k

-----------------------------------------------------------------------------
(* The list                                                                *)

\* LInv looks at no call and no answer but those that gave an id to a new
\* notification.
LEMMA ListKept ==
  ASSUME LInv, UNCHANGED listVars,
         \A c \in DOMAIN calls' :
           calls'[c].replaces = 0 /\ reply'[c] >= 0
             => c \in DOMAIN calls /\ calls[c].replaces = 0 /\ reply'[c] = reply[c]
  PROVE  LInv'
<1> USE DEF LInv, listVars
<1>1. ListTypeOK'
  BY DEF ListTypeOK
<1>2. NextIdIsCount' /\ IdsAreCounted' /\ ListIsSorted' /\ RowsMatch' /\ ShownWhileListed'
  BY DEF NextIdIsCount, IdsAreCounted, ListIsSorted, RowsMatch, ShownWhileListed
<1>3. RepliesAreCounted'
  BY DEF RepliesAreCounted
<1>4. IdsAreFresh'
  BY DEF IdsAreFresh
<1>5. QED
  BY <1>1, <1>2, <1>3, <1>4

\* What ListTypeOK says of the two sequences.
LEMMA ListFacts ==
  ASSUME ListTypeOK
  PROVE  /\ Len(m_notifications) \in Nat /\ DOMAIN m_notifications = 1..Len(m_notifications)
         /\ Len(rows) \in Nat /\ DOMAIN rows = 1..Len(rows)
         /\ \A i \in 1..Len(m_notifications) : m_notifications[i].id \in Nat
  BY LenProperties, ElementOfSeq DEF ListTypeOK, Notifications

\* A new notification has the greatest id and goes to the end.
LEMMA AddLInv ==
  ASSUME SInv, LInv, NEW c \in 1..Len(calls), calls[c].replaces = 0, Add(c),
         visible' = TRUE, strayShown' \in BOOLEAN, UNCHANGED <<calls, condemned>>
  PROVE  LInv'
<1> DEFINE id == (s_next_id + 1) % IdSpace
           n  == [call |-> c, id |-> id]
<1>0. /\ s_next_id' = id /\ assigned' = assigned + 1
      /\ m_notifications' = Append(m_notifications, n) /\ rows' = Append(rows, n)
      /\ Answer(c, id)
  BY DEF Add
<1>1. /\ s_next_id \in 0..(IdSpace - 1) /\ IdSpace \in Nat \ {0} /\ assigned \in Nat
      /\ m_notifications \in Seq(Notifications) /\ rows \in Seq(Notifications)
      /\ ListTypeOK
  BY IdSpaceAssumption DEF LInv, ListTypeOK, IdSpaceAssumption
<1>2. id \in 0..(IdSpace - 1) /\ id \in Nat
  BY <1>1
<1>3. assigned' < IdSpace => assigned < IdSpace /\ s_next_id = assigned /\ id = assigned + 1
  <2>1. ASSUME assigned' < IdSpace PROVE assigned < IdSpace /\ s_next_id = assigned
    BY <2>1, <1>0, <1>1 DEF LInv, NextIdIsCount
  <2>2. ASSUME assigned' < IdSpace PROVE id = assigned + 1
    <3>1. s_next_id + 1 \in Nat /\ IdSpace \in Nat /\ s_next_id + 1 < IdSpace
      BY <2>1, <2>2, <1>0, <1>1
    <3>2. (s_next_id + 1) % IdSpace = s_next_id + 1
      BY <3>1, SmallMod
    <3>3. QED
      BY <2>1, <2>2, <3>2
  <2>3. QED
    BY <2>1, <2>2
<1>4. n \in Notifications
  <2>1. c \in 1..MaxCalls
    <3>1. Len(calls) \in Nat
      BY LenProperties DEF SInv, ServerTypeOK
    <3>2. QED
      BY <3>1, MaxCallsAssumption DEF SInv, MaxCallsAssumption
  <2>2. QED
    BY <2>1, <1>2 DEF Notifications
<1> HIDE DEF id
<1>5. /\ m_notifications' \in Seq(Notifications)
      /\ Len(m_notifications') = Len(m_notifications) + 1
      /\ \A i \in 1..Len(m_notifications) : m_notifications'[i] = m_notifications[i]
      /\ m_notifications'[Len(m_notifications) + 1].id = id
      /\ DOMAIN m_notifications' = 1..(Len(m_notifications) + 1)
      /\ m_notifications' # <<>>
  <2>1. n.id = id
    OBVIOUS
  <2> HIDE DEF n
  <2>2. /\ m_notifications' \in Seq(Notifications)
        /\ Len(m_notifications') = Len(m_notifications) + 1
        /\ \A i \in 1..Len(m_notifications) : m_notifications'[i] = m_notifications[i]
        /\ m_notifications'[Len(m_notifications) + 1] = n
        /\ m_notifications' # <<>>
    BY <1>0, <1>1, <1>4, AppendProperties
  <2>3. QED
    BY <2>1, <2>2, LenProperties
<1>6. /\ rows' \in Seq(Notifications)
      /\ Len(rows') = Len(rows) + 1
      /\ \A i \in 1..Len(rows) : rows'[i] = rows[i]
      /\ rows'[Len(rows) + 1].id = id
      /\ DOMAIN rows' = 1..(Len(rows) + 1)
  <2>1. n.id = id
    OBVIOUS
  <2> HIDE DEF n
  <2>2. /\ rows' \in Seq(Notifications)
        /\ Len(rows') = Len(rows) + 1
        /\ \A i \in 1..Len(rows) : rows'[i] = rows[i]
        /\ rows'[Len(rows) + 1] = n
    BY <1>0, <1>1, <1>4, AppendProperties
  <2>3. QED
    BY <2>1, <2>2, LenProperties
<1>7. /\ Len(m_notifications) \in Nat /\ DOMAIN m_notifications = 1..Len(m_notifications)
      /\ Len(rows) \in Nat /\ DOMAIN rows = 1..Len(rows)
      /\ \A i \in 1..Len(m_notifications) : m_notifications[i].id \in Nat
  BY <1>1, ListFacts
<1>8. /\ \A d \in 1..Len(calls) : d # c => reply'[d] = reply[d]
      /\ reply'[c] = id
      /\ DOMAIN calls = 1..Len(calls) /\ Len(calls) \in Nat
      /\ \A d \in 1..Len(calls) : reply[d] \in Int
  <2>1. ServerTypeOK /\ id \in Replies
    BY <1>2 DEF SInv, Replies
  <2>2. /\ reply \in Seq(Replies) /\ Len(reply) = Len(calls)
        /\ DOMAIN calls = 1..Len(calls) /\ Len(calls) \in Nat
    BY <2>1, LenProperties DEF ServerTypeOK
  <2>3. Replies \subseteq Int
    BY DEF Replies, NoReply, ErrorReply, OtherReply
  <2>4. \A d \in 1..Len(calls) : reply[d] \in Int
    BY <2>2, <2>3, ElementOfSeq
  <2>5. QED
    BY <1>0, <2>1, <2>2, <2>4, AnswerOne
<1> HIDE DEF n
<1>9. ListTypeOK'
  <2>1. visible' \in BOOLEAN /\ strayShown' \in BOOLEAN
    OBVIOUS
  <2>2. condemned' \subseteq Notifications
    BY DEF LInv, ListTypeOK
  <2>3. s_next_id' \in 0..(IdSpace - 1) /\ assigned' \in Nat
    BY <1>0, <1>1, <1>2
  <2>4. QED
    BY <1>5, <1>6, <2>1, <2>2, <2>3 DEF ListTypeOK
<1>10. NextIdIsCount'
  BY <1>0, <1>3 DEF NextIdIsCount
<1>11. IdsAreCounted'
  <2> SUFFICES ASSUME assigned' < IdSpace, NEW i \in 1..(Len(m_notifications) + 1)
               PROVE  m_notifications'[i].id <= assigned'
    BY <1>5 DEF IdsAreCounted
  <2>1. CASE i = Len(m_notifications) + 1
    BY <2>1, <1>0, <1>1, <1>3, <1>5
  <2>2. CASE i \in 1..Len(m_notifications)
    <3>1. m_notifications[i].id <= assigned
      BY <2>2, <1>3, <1>7 DEF LInv, IdsAreCounted
    <3>2. QED
      BY <2>2, <3>1, <1>0, <1>1, <1>5, <1>7
  <2>3. QED
    BY <2>1, <2>2, <1>7
<1>12. ListIsSorted'
  <2> SUFFICES ASSUME assigned' < IdSpace, NEW i \in 1..(Len(m_notifications) + 1),
                      NEW j \in 1..(Len(m_notifications) + 1), i < j
               PROVE  m_notifications'[i].id < m_notifications'[j].id
    BY <1>5 DEF ListIsSorted
  <2>1. i \in 1..Len(m_notifications)
    BY <1>7
  <2>2. CASE j = Len(m_notifications) + 1
    <3>1. m_notifications[i].id <= assigned
      BY <2>1, <1>3, <1>7 DEF LInv, IdsAreCounted
    <3>2. QED
      BY <2>1, <2>2, <3>1, <1>1, <1>3, <1>5, <1>7
  <2>3. CASE j \in 1..Len(m_notifications)
    <3>1. m_notifications[i].id < m_notifications[j].id
      BY <2>1, <2>3, <1>3, <1>7 DEF LInv, ListIsSorted
    <3>2. QED
      BY <2>1, <2>3, <3>1, <1>5
  <2>4. j = Len(m_notifications) + 1 \/ j \in 1..Len(m_notifications)
    <3>1. Len(m_notifications) \in Nat
      BY <1>7
    <3>2. QED
      BY <3>1
  <2>5. QED
    BY <2>2, <2>3, <2>4
<1>13. RowsMatch'
  <2>1. Len(rows) = Len(m_notifications) /\ \A i \in 1..Len(rows) : rows[i].id = m_notifications[i].id
    BY <1>7 DEF LInv, RowsMatch
  <2>2. ASSUME NEW i \in 1..(Len(rows) + 1) PROVE rows'[i].id = m_notifications'[i].id
    <3>1. CASE i = Len(rows) + 1
      BY <3>1, <2>1, <1>5, <1>6
    <3>2. CASE i \in 1..Len(rows)
      BY <3>2, <2>1, <1>5, <1>6
    <3>3. QED
      BY <3>1, <3>2, <1>7
  <2>3. QED
    BY <2>1, <2>2, <1>5, <1>6 DEF RowsMatch
<1>14. ShownWhileListed'
  BY DEF ShownWhileListed
<1>15. RepliesAreCounted'
  <2> SUFFICES ASSUME assigned' < IdSpace, NEW d \in 1..Len(calls), calls[d].replaces = 0,
                      reply'[d] >= 0
               PROVE  reply'[d] <= assigned'
    BY <1>8 DEF RepliesAreCounted
  <2>1. CASE d = c
    BY <2>1, <1>0, <1>1, <1>3, <1>8
  <2>2. CASE d # c
    <3>1. reply'[d] = reply[d] /\ reply[d] <= assigned
      BY <2>2, <1>3, <1>8 DEF LInv, RepliesAreCounted
    <3>2. QED
      BY <3>1, <1>0, <1>1, <1>8
  <2>3. QED
    BY <2>1, <2>2
<1>16. IdsAreFresh'
  <2> SUFFICES ASSUME assigned' < IdSpace, NEW d \in 1..Len(calls), NEW e \in 1..Len(calls),
                      d # e, calls[d].replaces = 0, calls[e].replaces = 0,
                      reply'[d] >= 0, reply'[e] >= 0
               PROVE  reply'[d] # reply'[e]
    BY <1>8 DEF IdsAreFresh
  <2>1. ASSUME NEW f \in 1..Len(calls), f # c, calls[f].replaces = 0, reply'[f] >= 0
        PROVE  reply'[f] = reply[f] /\ reply[f] <= assigned /\ reply'[f] # id
    <3>1. reply'[f] = reply[f] /\ reply[f] <= assigned
      BY <2>1, <1>3, <1>8 DEF LInv, RepliesAreCounted
    <3>2. QED
      BY <3>1, <1>1, <1>3, <1>8
  <2>2. CASE d = c
    BY <2>1, <2>2, <1>8
  <2>3. CASE e = c
    BY <2>1, <2>3, <1>8
  <2>4. CASE d # c /\ e # c
    BY <2>1, <2>4, <1>3, <1>8 DEF LInv, IdsAreFresh
  <2>5. QED
    BY <2>2, <2>3, <2>4
<1>17. QED
  BY <1>9, <1>10, <1>11, <1>12, <1>13, <1>14, <1>15, <1>16 DEF LInv

\* A replacement takes the place of the one with its id, wherever the search
\* ended: on_new_notification compares the ids before it assigns.
LEMMA ReplaceLInv ==
  ASSUME SInv, LInv, NEW c \in 1..Len(calls), calls[c].replaces # 0,
         Replace(c, calls[c].replaces), visible' \in BOOLEAN, visible => visible',
         m_notifications = <<>> => visible', strayShown' \in BOOLEAN, UNCHANGED <<calls, condemned>>
  PROVE  LInv'
<1> DEFINE r   == calls[c].replaces
           pos == LowerBound(m_notifications, r)
           n   == [call |-> c, id |-> r]
<1>0. /\ m_notifications' = m_notifications
         \/ /\ pos \in DOMAIN m_notifications /\ m_notifications[pos].id = r
            /\ m_notifications' = [m_notifications EXCEPT ![pos] = n]
      /\ Answer(c, r)
      /\ UNCHANGED <<s_next_id, assigned, rows>>
  BY DEF Replace
<1>1. /\ calls \in Seq(Calls) /\ DOMAIN calls = 1..Len(calls) /\ Len(calls) \in Nat
      /\ r \in Nat /\ c \in 1..MaxCalls
  <2>1. calls \in Seq(Calls) /\ Len(calls) \in Nat /\ DOMAIN calls = 1..Len(calls)
    BY LenProperties DEF SInv, ServerTypeOK
  <2>2. calls[c] \in Calls
    BY <2>1, ElementOfSeq
  <2>3. r \in Nat
    BY <2>2, ReplacesAreNat
  <2>4. c \in 1..MaxCalls
    BY <2>1, MaxCallsAssumption DEF SInv, MaxCallsAssumption
  <2>5. QED
    BY <2>1, <2>3, <2>4
<1>2. n \in Notifications
  BY <1>1 DEF Notifications
<1> HIDE DEF r, pos
<1>3. /\ m_notifications' \in Seq(Notifications)
      /\ Len(m_notifications') = Len(m_notifications)
      /\ DOMAIN m_notifications' = DOMAIN m_notifications
      /\ \A i \in DOMAIN m_notifications : m_notifications'[i].id = m_notifications[i].id
      /\ DOMAIN m_notifications = 1..Len(m_notifications)
  <2>1. m_notifications \in Seq(Notifications) /\ DOMAIN m_notifications = 1..Len(m_notifications)
    BY LenProperties DEF LInv, ListTypeOK
  <2>2. CASE m_notifications' = m_notifications
    BY <2>1, <2>2
  <2>3. CASE /\ pos \in DOMAIN m_notifications /\ m_notifications[pos].id = r
             /\ m_notifications' = [m_notifications EXCEPT ![pos] = n]
    <3>1. n.id = r
      OBVIOUS
    <3> HIDE DEF n
    <3>2. /\ m_notifications' \in Seq(Notifications)
          /\ Len(m_notifications') = Len(m_notifications)
          /\ \A i \in 1..Len(m_notifications) :
               m_notifications'[i] = IF i = pos THEN n ELSE m_notifications[i]
      BY <2>1, <2>3, <1>2, ExceptSeq
    <3>3. DOMAIN m_notifications' = 1..Len(m_notifications')
      BY <3>2, LenProperties
    <3>4. QED
      BY <2>1, <2>3, <3>1, <3>2, <3>3
  <2>4. QED
    BY <1>0, <2>2, <2>3
<1>4. /\ \A d \in 1..Len(calls) : d # c => reply'[d] = reply[d]
  <2>1. r \in Replies /\ ServerTypeOK
    BY <1>1 DEF Replies, SInv
  <2>2. QED
    BY <2>1, <1>0, AnswerOne
<1>5. ListTypeOK'
  <2>1. /\ rows' \in Seq(Notifications) /\ condemned' \subseteq Notifications
        /\ s_next_id' \in 0..(IdSpace - 1) /\ assigned' \in Nat
    BY <1>0 DEF LInv, ListTypeOK
  <2>2. QED
    BY <1>3, <2>1 DEF ListTypeOK
<1>6. NextIdIsCount' /\ IdsAreCounted'
  BY <1>0, <1>3 DEF LInv, NextIdIsCount, IdsAreCounted
<1>7. ListIsSorted'
  BY <1>0, <1>3 DEF LInv, ListIsSorted
<1>8. RowsMatch'
  <2>1. DOMAIN rows = 1..Len(rows) /\ Len(rows) = Len(m_notifications)
    BY ListFacts DEF LInv, RowsMatch
  <2>2. QED
    BY <1>0, <1>3, <2>1 DEF LInv, RowsMatch
<1>9. ShownWhileListed'
  BY DEF LInv, ShownWhileListed
<1>10. \A d \in 1..Len(calls) : calls[d].replaces = 0 => reply'[d] = reply[d]
  BY <1>4
<1>11. RepliesAreCounted'
  BY <1>0, <1>1, <1>10 DEF LInv, RepliesAreCounted
<1>12. IdsAreFresh'
  BY <1>0, <1>1, <1>10 DEF LInv, IdsAreFresh
<1>13. QED
  BY <1>5, <1>6, <1>7, <1>8, <1>9, <1>11, <1>12 DEF LInv

\* The main thread's iteration.
LEMMA MainIInv ==
  ASSUME IInv, DispatchNotify
  PROVE  /\ IInv'
         /\ \A d \in 1..Len(calls) : reply[d] # NoReply => reply'[d] = reply[d]
<1> DEFINE k == Head(queue)
<1>0. SInv /\ LInv /\ UNCHANGED <<calls, condemned>> /\ queue # <<>> /\ OnNewNotification(k)
  BY DEF IInv, DispatchNotify, OnNewNotification
<1>1. k \in 1..Len(calls)
  <2>1. calls \in Seq(Calls) /\ DOMAIN calls = 1..Len(calls) /\ queue \in Seq(DOMAIN calls)
    BY <1>0, LenProperties DEF SInv, ServerTypeOK
  <2>2. QED
    BY <1>0, <2>1, HeadTailProperties
<1>2. visible \in BOOLEAN /\ strayShown \in BOOLEAN
  BY <1>0 DEF LInv, ListTypeOK
<1>3. CASE calls[k].replaces = 0
  <2>1. Add(k) /\ visible' = (visible \/ m_notifications = <<>>)
        /\ strayShown' = (strayShown \/ (m_notifications = <<>> /\ calls[k].replaces # 0))
    BY <1>0, <1>3 DEF OnNewNotification
  <2>2. visible' = TRUE
    <3>1. m_notifications # <<>> => visible
      BY <1>0 DEF LInv, ShownWhileListed
    <3>2. QED
      BY <2>1, <3>1, <1>2
  <2>3. strayShown' \in BOOLEAN
    BY <2>1
  <2>4. PICK v \in Nat : Answer(k, v)
    <3>1. (s_next_id + 1) % IdSpace \in Nat
      BY <1>0, IdSpaceAssumption DEF LInv, ListTypeOK, IdSpaceAssumption
    <3>2. QED
      BY <2>1, <3>1 DEF Add
  <2> HIDE DEF k
  <2>5. LInv'
    BY <1>0, <1>1, <1>3, <2>1, <2>2, <2>3, AddLInv
  <2> USE DEF k
  <2>6. QED
    BY <1>0, <2>4, <2>5, MainSInv DEF IInv
<1>4. CASE calls[k].replaces # 0
  <2>1. Replace(k, calls[k].replaces) /\ visible' = (visible \/ m_notifications = <<>>)
        /\ strayShown' = (strayShown \/ (m_notifications = <<>> /\ calls[k].replaces # 0))
    BY <1>0, <1>4 DEF OnNewNotification
  <2>2. /\ visible' \in BOOLEAN /\ strayShown' \in BOOLEAN
        /\ visible => visible'
        /\ m_notifications = <<>> => visible'
    BY <2>1
  <2>3. PICK v \in Nat : Answer(k, v)
    <3>1. calls[k] \in Calls
      BY <1>0, <1>1, ElementOfSeq DEF SInv, ServerTypeOK
    <3>2. calls[k].replaces \in Nat
      BY <3>1, ReplacesAreNat
    <3>3. QED
      BY <2>1, <3>2 DEF Replace
  <2> HIDE DEF k
  <2>4. LInv'
    BY <1>0, <1>1, <1>4, <2>1, <2>2, ReplaceLInv
  <2> USE DEF k
  <2>5. QED
    BY <1>0, <2>3, <2>4, MainSInv DEF IInv
<1>5. QED
  BY <1>3, <1>4

\* A click takes the notification and its row out at the same place.
LEMMA UserLInv ==
  ASSUME SInv, LInv, NEW pos \in DOMAIN rows, OnActivate(pos), UNCHANGED serverVars
  PROVE  LInv'
<1>0. /\ m_notifications \in Seq(Notifications) /\ rows \in Seq(Notifications)
      /\ Len(m_notifications) \in Nat /\ DOMAIN m_notifications = 1..Len(m_notifications)
      /\ Len(rows) = Len(m_notifications) /\ DOMAIN rows = 1..Len(rows)
      /\ pos \in 1..Len(m_notifications)
      /\ UNCHANGED <<s_next_id, visible, assigned, strayShown, calls, reply>>
  BY ListFacts DEF LInv, ListTypeOK, RowsMatch, OnActivate, serverVars
<1>1. /\ m_notifications' \in Seq(Notifications)
      /\ Len(m_notifications') = Len(m_notifications) - 1
      /\ \A i \in 1..(Len(m_notifications) - 1) :
           m_notifications'[i] = IF i < pos THEN m_notifications[i] ELSE m_notifications[i + 1]
  BY <1>0, WithoutProperties DEF OnActivate
<1>2. /\ rows' \in Seq(Notifications)
      /\ Len(rows') = Len(m_notifications) - 1
      /\ \A i \in 1..(Len(m_notifications) - 1) :
           rows'[i] = IF i < pos THEN rows[i] ELSE rows[i + 1]
  BY <1>0, WithoutProperties DEF OnActivate
<1>3. /\ DOMAIN m_notifications' = 1..(Len(m_notifications) - 1)
      /\ DOMAIN rows' = 1..(Len(m_notifications) - 1)
  BY <1>1, <1>2, LenProperties
<1>4. ListTypeOK'
  <2>1. m_notifications[pos] \in Notifications
    BY <1>0, ElementOfSeq
  <2>2. condemned' \subseteq Notifications
    BY <2>1 DEF OnActivate, LInv, ListTypeOK
  <2>3. QED
    BY <1>0, <1>1, <1>2, <2>2 DEF LInv, ListTypeOK
<1>5. NextIdIsCount' /\ RepliesAreCounted' /\ IdsAreFresh'
  BY <1>0 DEF LInv, NextIdIsCount, RepliesAreCounted, IdsAreFresh
<1>6. IdsAreCounted'
  <2> SUFFICES ASSUME assigned' < IdSpace, NEW i \in 1..(Len(m_notifications) - 1)
               PROVE  m_notifications'[i].id <= assigned'
    BY <1>3 DEF IdsAreCounted
  <2>1. i \in DOMAIN m_notifications /\ i + 1 \in DOMAIN m_notifications
    BY <1>0
  <2>2. QED
    BY <2>1, <1>0, <1>1 DEF LInv, IdsAreCounted
<1>7. ListIsSorted'
  <2> SUFFICES ASSUME assigned' < IdSpace, NEW i \in 1..(Len(m_notifications) - 1),
                      NEW j \in 1..(Len(m_notifications) - 1), i < j
               PROVE  m_notifications'[i].id < m_notifications'[j].id
    BY <1>3 DEF ListIsSorted
  <2> DEFINE p == IF i < pos THEN i ELSE i + 1
             q == IF j < pos THEN j ELSE j + 1
  <2>1. p \in DOMAIN m_notifications /\ q \in DOMAIN m_notifications /\ p < q
    BY <1>0
  <2>2. m_notifications'[i] = m_notifications[p] /\ m_notifications'[j] = m_notifications[q]
    BY <1>1
  <2> HIDE DEF p, q
  <2>3. QED
    BY <2>1, <2>2, <1>0 DEF LInv, ListIsSorted
<1>8. RowsMatch'
  <2>1. ASSUME NEW i \in 1..(Len(m_notifications) - 1) PROVE rows'[i].id = m_notifications'[i].id
    <3>1. i \in DOMAIN rows /\ i + 1 \in DOMAIN rows
      BY <1>0
    <3>2. QED
      BY <3>1, <1>1, <1>2 DEF LInv, RowsMatch
  <2>2. QED
    BY <2>1, <1>1, <1>2, <1>3 DEF RowsMatch
<1>9. ShownWhileListed'
  <2>1. m_notifications # <<>>
    BY <1>0, EmptySeq
  <2>2. QED
    BY <2>1, <1>0 DEF LInv, ShownWhileListed
<1>10. QED
  BY <1>4, <1>5, <1>6, <1>7, <1>8, <1>9 DEF LInv

\* A notification that dies hides the window of an empty list only.
LEMMA WidgetsLInv ==
  ASSUME LInv, NEW n \in condemned, DisposeNotify(n), UNCHANGED serverVars
  PROVE  LInv'
<1> USE DEF DisposeNotify, serverVars
<1>1. ListTypeOK'
  <2>1. condemned' \subseteq Notifications
    BY DEF LInv, ListTypeOK
  <2>2. visible' \in BOOLEAN /\ strayShown' \in BOOLEAN
    OBVIOUS
  <2>3. QED
    BY <2>1, <2>2 DEF LInv, ListTypeOK
<1>2. NextIdIsCount' /\ IdsAreCounted' /\ ListIsSorted'
  BY DEF LInv, NextIdIsCount, IdsAreCounted, ListIsSorted
<1>3. RowsMatch'
  BY DEF LInv, RowsMatch
<1>4. ShownWhileListed'
  BY DEF LInv, ShownWhileListed
<1>5. RepliesAreCounted' /\ IdsAreFresh'
  BY DEF LInv, RepliesAreCounted, IdsAreFresh
<1>6. QED
  BY <1>1, <1>2, <1>3, <1>4, <1>5 DEF LInv

-----------------------------------------------------------------------------
(* The theorems                                                            *)

LEMMA InitIInv == Init => IInv
<1> SUFFICES ASSUME Init PROVE IInv
  OBVIOUS
<1> USE DEF Init, ServerInit, ListInit
<1>1. ServerTypeOK
  <2>1. /\ calls = <<>> /\ reply = <<>> /\ queue = <<>> /\ received = 0 /\ Len(calls) = 0
    OBVIOUS
  <2>2. calls \in Seq(Calls) /\ reply \in Seq(Replies) /\ queue \in Seq(DOMAIN calls)
    BY <2>1, EmptySeq
  <2>3. /\ name \in NameStates /\ m_bus_id \in BOOLEAN /\ m_object_id \in BOOLEAN
        /\ m_connection \in BOOLEAN /\ m_is_running \in BOOLEAN
    BY DEF NameStates
  <2>4. received \in 0..Len(calls) /\ Len(reply) = Len(calls)
    BY <2>1
  <2> HIDE DEF Init, ServerInit, ListInit
  <2>5. QED
    BY <2>2, <2>3, <2>4 DEF ServerTypeOK
<1>2. Len(calls) <= MaxCalls /\ Unanswered
  BY MaxCallsAssumption DEF Unanswered, MaxCallsAssumption
<1>3. ListTypeOK
  <2>1. m_notifications \in Seq(Notifications) /\ rows \in Seq(Notifications)
    BY EmptySeq
  <2>2. s_next_id \in 0..(IdSpace - 1) /\ assigned \in Nat
    BY IdSpaceAssumption DEF IdSpaceAssumption
  <2>3. visible \in BOOLEAN /\ strayShown \in BOOLEAN /\ condemned \subseteq Notifications
    OBVIOUS
  <2> HIDE DEF Init, ServerInit, ListInit
  <2>4. QED
    BY <2>1, <2>2, <2>3 DEF ListTypeOK
<1>4. NextIdIsCount /\ IdsAreCounted /\ RepliesAreCounted
  BY DEF NextIdIsCount, IdsAreCounted, RepliesAreCounted
<1>5. ListIsSorted /\ RowsMatch /\ ShownWhileListed /\ IdsAreFresh
  BY DEF ListIsSorted, RowsMatch, ShownWhileListed, IdsAreFresh
<1>6. QED
  BY <1>1, <1>2, <1>3, <1>4, <1>5 DEF IInv, SInv, LInv

\* Every step keeps the invariant and every answer that was given.
LEMMA NextIInv ==
  ASSUME IInv, [Next]_vars
  PROVE  /\ IInv'
         /\ \A c \in DOMAIN calls : reply[c] # NoReply => reply'[c] = reply[c]
<1>0. SInv /\ LInv /\ DOMAIN calls = 1..Len(calls) /\ Len(calls) \in Nat
  BY LenProperties DEF IInv, SInv, ServerTypeOK
<1>1. ASSUME Clients
      PROVE  IInv' /\ \A c \in 1..Len(calls) : reply[c] # NoReply => reply'[c] = reply[c]
  <2>1. PICK call \in Calls : ClientCalls(call)
    BY <1>1 DEF Clients
  <2>2. /\ SInv'
        /\ Len(calls') = Len(calls) + 1
        /\ reply'[Len(calls) + 1] = NoReply
        /\ \A c \in 1..Len(calls) : calls'[c] = calls[c] /\ reply'[c] = reply[c]
    BY <2>1, <1>0, ClientSInv
  <2>3. DOMAIN calls' = 1..(Len(calls) + 1)
    BY <2>2, LenProperties DEF SInv, ServerTypeOK
  <2>4. ASSUME NEW c \in DOMAIN calls', calls'[c].replaces = 0, reply'[c] >= 0
        PROVE  c \in DOMAIN calls /\ calls[c].replaces = 0 /\ reply'[c] = reply[c]
    <3>1. c # Len(calls) + 1
      BY <2>2, <2>4 DEF NoReply
    <3>2. c \in 1..Len(calls)
      BY <3>1, <2>3, <1>0
    <3>3. QED
      BY <3>2, <2>2, <2>4, <1>0
  <2>5. LInv'
    BY <2>4, <1>0, <1>1, ListKept DEF Clients
  <2>6. QED
    BY <2>2, <2>5 DEF IInv
<1>2. ASSUME Worker
      PROVE  IInv' /\ \A c \in 1..Len(calls) : reply[c] # NoReply => reply'[c] = reply[c]
  <2>1. /\ SInv'
        /\ UNCHANGED calls
        /\ \A c \in 1..Len(calls) : reply'[c] = reply[c] \/ reply'[c] \in {ErrorReply, OtherReply}
        /\ \A c \in 1..Len(calls) : reply[c] # NoReply => reply'[c] = reply[c]
    BY <1>0, <1>2, WorkerSInv DEF Worker
  <2>2. ASSUME NEW c \in DOMAIN calls', calls'[c].replaces = 0, reply'[c] >= 0
        PROVE  c \in DOMAIN calls /\ calls[c].replaces = 0 /\ reply'[c] = reply[c]
    BY <2>1, <2>2, <1>0 DEF ErrorReply, OtherReply
  <2>3. LInv'
    BY <2>2, <1>0, <1>2, ListKept DEF Worker
  <2>4. QED
    BY <2>1, <2>3 DEF IInv
<1>3. ASSUME Main
      PROVE  IInv' /\ \A c \in 1..Len(calls) : reply[c] # NoReply => reply'[c] = reply[c]
  BY <1>3, MainIInv DEF Main
<1>4. ASSUME UNCHANGED serverVars
      PROVE  SInv' /\ \A c \in 1..Len(calls) : reply[c] # NoReply => reply'[c] = reply[c]
  <2>1. SInv'
    BY <1>0, <1>4, ServerKept DEF serverVars, memberVars, SInv, ServerTypeOK
  <2>2. QED
    BY <1>4, <2>1 DEF serverVars
<1>5. ASSUME User PROVE UNCHANGED serverVars /\ LInv'
  BY <1>0, <1>5, UserLInv DEF User
<1>6. ASSUME Widgets PROVE UNCHANGED serverVars /\ LInv'
  BY <1>0, <1>6, WidgetsLInv DEF Widgets
<1>7. ASSUME UNCHANGED vars PROVE UNCHANGED serverVars /\ LInv'
  BY <1>0, <1>7, ListKept DEF vars, serverVars
<1>8. QED
  BY <1>0, <1>1, <1>2, <1>3, <1>4, <1>5, <1>6, <1>7 DEF IInv, Next

\* A window presented for an empty list got its notification or is accounted
\* for, and the last notification to die takes the window with it.
LEMMA EmptyWindowNext ==
  ASSUME IInv, EmptyWindowIsExplained, [Next]_vars
  PROVE  EmptyWindowIsExplained'
<1>0. /\ m_notifications \in Seq(Notifications) /\ Len(m_notifications) \in Nat
      /\ visible \in BOOLEAN /\ strayShown \in BOOLEAN
      /\ DOMAIN rows = 1..Len(m_notifications)
  BY ListFacts DEF IInv, LInv, ListTypeOK, RowsMatch
<1>1. CASE UNCHANGED listVars
  BY <1>1 DEF listVars, EmptyWindowIsExplained
<1>2. CASE Main
  <2> DEFINE k == Head(queue)
  <2>1. /\ strayShown' = (strayShown \/ (m_notifications = <<>> /\ calls[k].replaces # 0))
        /\ visible' = (visible \/ m_notifications = <<>>)
        /\ IF calls[k].replaces = 0 THEN Add(k) ELSE Replace(k, calls[k].replaces)
        /\ UNCHANGED condemned
    BY <1>2 DEF Main, DispatchNotify, OnNewNotification
  <2> HIDE DEF k
  <2>2. CASE calls[k].replaces = 0
    <3>1. PICK n : m_notifications' = Append(m_notifications, n)
      BY <2>1, <2>2 DEF Add
    <3>2. m_notifications' # <<>>
      BY <3>1, <1>0
    <3>3. QED
      BY <3>2 DEF EmptyWindowIsExplained
  <2>3. CASE calls[k].replaces # 0
    <3>1. CASE m_notifications = <<>>
      BY <3>1, <2>1, <2>3 DEF EmptyWindowIsExplained
    <3>2. CASE m_notifications # <<>>
      <4>1. \/ m_notifications' = m_notifications
            \/ \E p \in 1..Len(m_notifications) : \E n :
                 m_notifications' = [m_notifications EXCEPT ![p] = n]
        BY <2>1, <2>3, <1>0 DEF Replace
      <4>2. m_notifications' # <<>>
        BY <4>1, <3>2, <1>0
      <4>3. QED
        BY <4>2 DEF EmptyWindowIsExplained
    <3>3. QED
      BY <3>1, <3>2
  <2>4. QED
    BY <2>2, <2>3
<1>3. CASE User
  <2>1. condemned' # {}
    BY <1>3 DEF User, OnActivate
  <2>2. QED
    BY <2>1 DEF EmptyWindowIsExplained
<1>4. CASE Widgets
  <2>1. m_notifications' = m_notifications /\ visible' = (visible /\ m_notifications # <<>>)
    BY <1>4 DEF Widgets, DisposeNotify
  <2>2. QED
    BY <2>1 DEF EmptyWindowIsExplained
<1>5. QED
  BY <1>1, <1>2, <1>3, <1>4 DEF Next, Clients, Worker, vars, listVars

\* SInv and LInv hold together in every reachable state.
THEOREM Inductive == Spec => []IInv
<1>1. IInv /\ [Next]_vars => IInv'
  BY NextIInv
<1>2. QED
  BY InitIInv, <1>1, PTL DEF Spec

\* The list stays sorted by id, so that on_new_notification may search it by
\* halves, however many notifications were added, replaced and removed.
THEOREM SortedList == Spec => []ListIsSorted
<1>1. IInv => ListIsSorted
  BY DEF IInv, LInv
<1>2. QED
  BY <1>1, Inductive, PTL

LEMMA FoundInList == IInv => ReplaceFinds
<1>1. ASSUME IInv, assigned < IdSpace, NEW i \in DOMAIN m_notifications
      PROVE  LowerBound(m_notifications, m_notifications[i].id) = i
  <2> DEFINE list == m_notifications
  <2>1. /\ Len(list) \in Nat /\ DOMAIN list = 1..Len(list)
        /\ \A j \in 1..Len(list) : list[j].id \in Nat
    BY <1>1, LenProperties, ElementOfSeq DEF IInv, LInv, ListTypeOK, Notifications
  <2>2. \A j, k \in 1..Len(list) : j < k => list[j].id < list[k].id
    BY <1>1, <2>1 DEF IInv, LInv, ListIsSorted
  <2> HIDE DEF list
  <2>3. \A j \in 1..Len(list) : list[j].id < list[i].id <=> j < i
    BY <1>1, <2>1, <2>2 DEF list
  <2>4. QED
    BY <1>1, <2>1, <2>3, LowerBoundFinds DEF list
<1>2. QED
  BY <1>1 DEF ReplaceFinds

\* A call that replaces a listed notification finds it.
THEOREM ReplacementIsFound == Spec => []ReplaceFinds
BY FoundInList, Inductive, PTL

\* The rows of the window and the notifications correspond place by place.
THEOREM MatchingRows == Spec => []RowsMatch
<1>1. IInv => RowsMatch
  BY DEF IInv, LInv
<1>2. QED
  BY <1>1, Inductive, PTL

\* The window is never hidden from a notification, whenever the last reference
\* to an older one goes.
THEOREM WindowIsShown == Spec => []ShownWhileListed
<1>1. IInv => ShownWhileListed
  BY DEF IInv, LInv
<1>2. QED
  BY <1>1, Inductive, PTL

\* A window that stays without a notification waits for one to die, or was
\* presented for a call that replaces one that is gone.
THEOREM EmptyWindow == Spec => []EmptyWindowIsExplained
<1>1. Init => EmptyWindowIsExplained
  BY DEF Init, ListInit, EmptyWindowIsExplained
<1>2. IInv /\ EmptyWindowIsExplained /\ [Next]_vars => EmptyWindowIsExplained'
  BY EmptyWindowNext
<1>3. QED
  BY <1>1, <1>2, Inductive, PTL DEF Spec

\* No two new notifications get the same id before the counter wraps.
THEOREM FreshIds == Spec => []IdsAreFresh
<1>1. IInv => IdsAreFresh
  BY DEF IInv, LInv
<1>2. QED
  BY <1>1, Inductive, PTL

\* The variables keep their types.
THEOREM TypeCorrect == Spec => []TypeOK
<1>1. IInv => TypeOK
  BY DEF IInv, SInv, LInv, TypeOK
<1>2. QED
  BY <1>1, Inductive, PTL

\* No invocation is answered by both threads or twice by one of them.
THEOREM OneAnswer == Spec => AnsweredOnce
<1>1. IInv /\ [Next]_vars
        => [\A c \in DOMAIN calls : reply[c] # NoReply => reply'[c] = reply[c]]_vars
  BY NextIInv
<1>2. QED
  BY Inductive, <1>1, PTL DEF Spec, AnsweredOnce

-----------------------------------------------------------------------------
(* The service                                                             *)

\* The queue holds calls to Notify alone, and holds all that were received and
\* have no answer.
Waiting ==
  /\ \A i \in 1..Len(queue) : calls[queue[i]].method = "Notify"
  /\ \A c \in 1..received :
       calls[c].method = "Notify" /\ reply[c] = NoReply => \E i \in 1..Len(queue) : queue[i] = c

LEMMA ServerFacts ==
  ASSUME SInv
  PROVE  /\ calls \in Seq(Calls) /\ Len(calls) \in Nat /\ DOMAIN calls = 1..Len(calls)
         /\ received \in 0..Len(calls)
         /\ reply \in Seq(Replies) /\ Len(reply) = Len(calls) /\ DOMAIN reply = 1..Len(calls)
         /\ queue \in Seq(1..Len(calls)) /\ Len(queue) \in Nat
         /\ \A i \in 1..Len(queue) : queue[i] \in 1..Len(calls)
<1>1. /\ calls \in Seq(Calls) /\ received \in 0..Len(calls)
      /\ reply \in Seq(Replies) /\ Len(reply) = Len(calls)
      /\ queue \in Seq(DOMAIN calls)
  BY DEF SInv, ServerTypeOK
<1>2. Len(calls) \in Nat /\ DOMAIN calls = 1..Len(calls) /\ DOMAIN reply = 1..Len(reply)
  BY <1>1, LenProperties
<1>3. queue \in Seq(1..Len(calls)) /\ Len(queue) \in Nat
  BY <1>1, <1>2, LenProperties
<1>4. QED
  BY <1>1, <1>2, <1>3, ElementOfSeq

\* A step that leaves calls, answers and queue alone keeps Waiting.
LEMMA WaitingKept ==
  ASSUME Waiting, UNCHANGED <<calls, received, reply, queue>>
  PROVE  Waiting'
BY DEF Waiting

\* bus_method_call answers or queues the call to Notify that it is given.
LEMMA GivenWaiting ==
  ASSUME SInv, Waiting, BusMethodCall \/ BusRejectsCall
  PROVE  Waiting'
<1> DEFINE k == received + 1
<1>1. /\ received < Len(calls) /\ received' = k /\ calls' = calls
      /\ \/ reply' = reply \/ \E v \in {ErrorReply, OtherReply} : Answer(k, v)
      /\ queue' = queue \/ queue' = Append(queue, k)
      /\ calls[k].method = "Notify" => queue' = Append(queue, k) \/ Answer(k, ErrorReply)
      /\ queue' # queue => calls[k].method = "Notify"
  BY DEF BusMethodCall, BusRejectsCall, CommandNotify, CommandCloseNotification
<1>2. k \in 1..Len(calls) /\ SInv /\ \A c \in 1..k : c = k \/ c \in 1..received
  BY <1>1, ServerFacts
<1>3. /\ \A d \in 1..Len(calls) : d # k => reply'[d] = reply[d]
      /\ Answer(k, ErrorReply) => reply'[k] = ErrorReply
  <2>1. CASE reply' = reply
    BY <2>1, <1>2, ServerFacts DEF Answer
  <2>2. ASSUME NEW v \in {ErrorReply, OtherReply}, Answer(k, v)
        PROVE  /\ \A d \in 1..Len(calls) : d # k => reply'[d] = reply[d]
               /\ Answer(k, ErrorReply) => reply'[k] = ErrorReply
    BY <2>2, <1>2, ServerFacts DEF Answer
  <2>3. QED
    BY <1>1, <2>1, <2>2
<1>4. /\ Len(queue') \in {Len(queue), Len(queue) + 1}
      /\ \A i \in 1..Len(queue) : i \in 1..Len(queue') /\ queue'[i] = queue[i]
      /\ \A i \in 1..Len(queue') : i \in 1..Len(queue) \/ (queue' # queue /\ queue'[i] = k)
      /\ queue' = Append(queue, k) => Len(queue') = Len(queue) + 1 /\ queue'[Len(queue) + 1] = k
  <2>1. queue \in Seq(1..Len(calls)) /\ k \in 1..Len(calls) /\ Len(queue) \in Nat
    BY <1>2, ServerFacts
  <2> HIDE DEF k
  <2>2. CASE queue' = queue
    BY <2>1, <2>2, AppendProperties
  <2>3. CASE queue' = Append(queue, k)
    <3>1. /\ Len(queue') = Len(queue) + 1 /\ queue'[Len(queue) + 1] = k
          /\ \A i \in 1..Len(queue) : queue'[i] = queue[i]
      BY <2>1, <2>3, AppendProperties
    <3>2. queue' # queue
      BY <2>1, <3>1
    <3>3. QED
      BY <2>1, <3>1, <3>2
  <2>4. QED
    BY <1>1, <2>2, <2>3 DEF k
<1>5. ASSUME NEW i \in 1..Len(queue') PROVE calls'[queue'[i]].method = "Notify"
  BY <1>1, <1>4 DEF Waiting
<1>6. ASSUME NEW c \in 1..received', calls'[c].method = "Notify", reply'[c] = NoReply
      PROVE  \E i \in 1..Len(queue') : queue'[i] = c
  <2>1. CASE c = k
    <3>1. ErrorReply # NoReply
      BY DEF ErrorReply, NoReply
    <3>2. queue' = Append(queue, k)
      BY <2>1, <3>1, <1>1, <1>3, <1>6
    <3>3. Len(queue) + 1 \in 1..Len(queue')
      BY <3>2, <1>4, ServerFacts
    <3>4. QED
      BY <2>1, <3>2, <3>3, <1>4
  <2>2. CASE c # k
    <3>1. c \in 1..received /\ c \in 1..Len(calls)
      BY <2>2, <1>1, <1>2, ServerFacts
    <3>2. PICK i \in 1..Len(queue) : queue[i] = c
      BY <2>2, <3>1, <1>1, <1>3, <1>6 DEF Waiting
    <3>3. QED
      BY <3>2, <1>4
  <2>3. QED
    BY <2>1, <2>2
<1>7. QED
  BY <1>5, <1>6 DEF Waiting

\* The main thread answers the call that it takes.
LEMMA MainWaiting ==
  ASSUME SInv, Waiting, DispatchNotify, NEW v \in Nat, Answer(Head(queue), v)
  PROVE  Waiting'
<1> DEFINE k == Head(queue)
<1>1. /\ reply'[k] = v /\ \A d \in 1..Len(calls) : d # k => reply'[d] = reply[d]
  BY MainSInv
<1>2. /\ queue' = Tail(queue) /\ queue # <<>> /\ UNCHANGED <<calls, received>>
  BY DEF DispatchNotify
<1>3. /\ k = queue[1] /\ Len(queue') = Len(queue) - 1 /\ Len(queue) \in Nat \ {0}
      /\ \A i \in 1..Len(queue') : queue'[i] = queue[i + 1]
  BY <1>2, ServerFacts, HeadTailProperties, EmptySeq
<1> HIDE DEF k
<1>4. ASSUME NEW i \in 1..Len(queue') PROVE calls'[queue'[i]].method = "Notify"
  BY <1>2, <1>3 DEF Waiting
<1>5. ASSUME NEW c \in 1..received', calls'[c].method = "Notify", reply'[c] = NoReply
      PROVE  \E i \in 1..Len(queue') : queue'[i] = c
  <2>1. c # k
    BY <1>1, <1>5 DEF NoReply
  <2>2. c \in 1..received /\ c \in 1..Len(calls)
    BY <1>2, ServerFacts
  <2>3. PICK i \in 1..Len(queue) : queue[i] = c
    BY <2>1, <2>2, <1>1, <1>2, <1>5 DEF Waiting
  <2>4. i # 1
    BY <2>1, <2>3, <1>3
  <2>5. i - 1 \in 1..Len(queue') /\ (i - 1) + 1 = i
    BY <2>3, <2>4, <1>3
  <2>6. QED
    BY <2>3, <2>5, <1>3
<1>6. QED
  BY <1>4, <1>5 DEF Waiting

\* The answer of the main thread is an id.
LEMMA DispatchAnswers ==
  ASSUME IInv, DispatchNotify
  PROVE  \E v \in Nat : Answer(Head(queue), v)
<1> DEFINE k == Head(queue)
<1>1. k \in 1..Len(calls) /\ calls[k] \in Calls /\ OnNewNotification(k)
  <2>1. SInv /\ queue # <<>> /\ OnNewNotification(k)
    BY DEF IInv, DispatchNotify
  <2>2. k \in 1..Len(calls) /\ calls \in Seq(Calls)
    BY <2>1, ServerFacts, HeadTailProperties
  <2>3. QED
    BY <2>1, <2>2, ElementOfSeq
<1>2. CASE calls[k].replaces = 0
  <2>1. (s_next_id + 1) % IdSpace \in Nat
    BY IdSpaceAssumption DEF IInv, LInv, ListTypeOK, IdSpaceAssumption
  <2>2. QED
    BY <1>1, <1>2, <2>1 DEF OnNewNotification, Add
<1>3. CASE calls[k].replaces # 0
  <2>1. calls[k].replaces \in Nat
    BY <1>1, ReplacesAreNat
  <2>2. QED
    BY <1>1, <1>3, <2>1 DEF OnNewNotification, Replace
<1>4. QED
  BY <1>2, <1>3

LEMMA NextWaiting ==
  ASSUME IInv, Waiting, [Next]_vars
  PROVE  Waiting'
<1>0. SInv
  BY DEF IInv
<1>1. CASE Clients
  <2>1. PICK call \in Calls : ClientCalls(call)
    BY <1>1 DEF Clients
  <2>2. \A c \in 1..Len(calls) : calls'[c] = calls[c] /\ reply'[c] = reply[c]
    BY <1>0, <2>1, ClientSInv
  <2>3. received' = received /\ queue' = queue
    BY <2>1 DEF ClientCalls
  <2>4. /\ \A i \in 1..Len(queue) : queue[i] \in 1..Len(calls)
        /\ \A c \in 1..received : c \in 1..Len(calls)
    BY <1>0, ServerFacts
  <2>5. QED
    BY <2>2, <2>3, <2>4 DEF Waiting
<1>2. CASE Worker
  <2>1. CASE BusMethodCall \/ BusRejectsCall
    BY <1>0, <2>1, GivenWaiting
  <2>2. CASE Start \/ OnBusAquire \/ OnNameAquire \/ OnNameLost
    BY <2>2, WaitingKept DEF Start, OnBusAquire, OnNameAquire, OnNameLost
  <2>3. QED
    BY <1>2, <2>1, <2>2 DEF Worker, WorkerStep
<1>3. CASE Main
  <2>1. PICK v \in Nat : Answer(Head(queue), v)
    BY <1>3, DispatchAnswers DEF Main
  <2>2. QED
    BY <1>0, <1>3, <2>1, MainWaiting DEF Main
<1>4. CASE UNCHANGED serverVars
  BY <1>4, WaitingKept DEF serverVars
<1>5. QED
  BY <1>1, <1>2, <1>3, <1>4 DEF Next, User, Widgets, vars, serverVars

\* Until the counter wraps no two notifications have one id.
LEMMA ListedFacts ==
  ASSUME IInv, assigned < IdSpace
  PROVE  /\ m_notifications \in Seq(Notifications) /\ Len(m_notifications) \in Nat
         /\ DOMAIN m_notifications = 1..Len(m_notifications)
         /\ Listed = {m_notifications[i] : i \in 1..Len(m_notifications)}
         /\ \A i \in 1..Len(m_notifications) :
              m_notifications[i] \in Notifications /\ m_notifications[i].id \in Nat
         /\ \A i, j \in 1..Len(m_notifications) :
              m_notifications[i].id = m_notifications[j].id => i = j
<1>1. /\ m_notifications \in Seq(Notifications) /\ Len(m_notifications) \in Nat
      /\ DOMAIN m_notifications = 1..Len(m_notifications)
      /\ \A i \in 1..Len(m_notifications) :
           m_notifications[i] \in Notifications /\ m_notifications[i].id \in Nat
  BY ListFacts, ElementOfSeq DEF IInv, LInv, ListTypeOK
<1>2. \A i, j \in 1..Len(m_notifications) : i < j => m_notifications[i].id < m_notifications[j].id
  BY <1>1 DEF IInv, LInv, ListIsSorted
<1>3. \A i, j \in 1..Len(m_notifications) : m_notifications[i].id = m_notifications[j].id => i = j
  BY <1>1, <1>2
<1>4. QED
  BY <1>1, <1>3 DEF Listed

\* Add posts a notification.
LEMMA AddPosts ==
  ASSUME IInv, assigned' < IdSpace, NEW c \in 1..Len(calls), Add(c)
  PROVE  /\ assigned \in Nat /\ assigned' = assigned + 1
         /\ Answer(c, assigned')
         /\ Listed' = Listed \cup {[call |-> c, id |-> assigned']}
<1> DEFINE id == (s_next_id + 1) % IdSpace
           n  == [call |-> c, id |-> id]
<1>1. /\ assigned' = assigned + 1 /\ m_notifications' = Append(m_notifications, n)
      /\ Answer(c, id) /\ s_next_id' = id
  BY DEF Add
<1>2. /\ assigned \in Nat /\ assigned < IdSpace /\ s_next_id = assigned
      /\ IdSpace \in Nat \ {0} /\ SInv
  BY <1>1, IdSpaceAssumption DEF IInv, LInv, ListTypeOK, NextIdIsCount, IdSpaceAssumption
<1>3. id = assigned'
  <2>1. s_next_id + 1 \in Nat /\ IdSpace \in Nat /\ s_next_id + 1 < IdSpace
    BY <1>1, <1>2
  <2>2. (s_next_id + 1) % IdSpace = s_next_id + 1
    BY <2>1, SmallMod
  <2>3. QED
    BY <2>2, <1>1, <1>2
<1>4. n \in Notifications
  <2>1. Len(calls) <= MaxCalls /\ Len(calls) \in Nat /\ MaxCalls \in Nat
    BY <1>2, ServerFacts, MaxCallsAssumption DEF SInv, MaxCallsAssumption
  <2>2. QED
    BY <1>1, <1>2, <1>3, <2>1 DEF Notifications
<1> HIDE DEF n
<1>5. Listed' = Listed \cup {n}
  <2> DEFINE L == Len(m_notifications)
  <2>1. /\ DOMAIN m_notifications' = 1..(L + 1) /\ L \in Nat
        /\ m_notifications'[L + 1] = n
        /\ \A i \in 1..L : m_notifications'[i] = m_notifications[i]
        /\ Listed = {m_notifications[i] : i \in 1..L}
    BY <1>1, <1>2, <1>4, ListedFacts, AppendProperties
  <2>2. Listed' = {m_notifications'[i] : i \in 1..(L + 1)}
    BY <2>1 DEF Listed
  <2> HIDE DEF L
  <2>3. \A i \in 1..(L + 1) : i = L + 1 \/ i \in 1..L
    BY <2>1
  <2>4. L + 1 \in 1..(L + 1) /\ 1..L \subseteq 1..(L + 1)
    BY <2>1
  <2>5. Listed' \subseteq Listed \cup {n}
    BY <2>1, <2>2, <2>3
  <2>6. Listed \cup {n} \subseteq Listed'
    BY <2>1, <2>2, <2>4
  <2>7. QED
    BY <2>5, <2>6
<1>6. QED
  BY <1>1, <1>2, <1>3, <1>5 DEF n

\* Replace changes the notification with the id, if there is one, and no other.
LEMMA ReplaceReplaces ==
  ASSUME IInv, assigned < IdSpace, NEW c \in 1..Len(calls), NEW r \in Nat, Replace(c, r)
  PROVE  Listed' = {IF n.id = r THEN [n EXCEPT !.call = c] ELSE n : n \in Listed}
<1> DEFINE L    == Len(m_notifications)
           pos  == LowerBound(m_notifications, r)
           new  == [call |-> c, id |-> r]
           s(n) == IF n.id = r THEN [n EXCEPT !.call = c] ELSE n
<1>1. /\ m_notifications \in Seq(Notifications) /\ L \in Nat
      /\ DOMAIN m_notifications = 1..L
      /\ Listed = {m_notifications[i] : i \in 1..L}
      /\ \A i \in 1..L : m_notifications[i] \in Notifications /\ m_notifications[i].id \in Nat
      /\ \A i, j \in 1..L : m_notifications[i].id = m_notifications[j].id => i = j
  BY ListedFacts
<1>2. \A i \in 1..L : m_notifications[i].id = r => pos = i
  BY <1>1, FoundInList DEF ReplaceFinds
<1>3. m_notifications' =
        IF pos \in 1..L /\ m_notifications[pos].id = r
        THEN [m_notifications EXCEPT ![pos] = new] ELSE m_notifications
  BY <1>1 DEF Replace
<1> HIDE DEF pos, L
<1>4. \A n \in Notifications : n.id = r => [n EXCEPT !.call = c] = new
  BY DEF Notifications
<1>5. DOMAIN m_notifications' = 1..L /\ \A i \in 1..L : m_notifications'[i] = s(m_notifications[i])
  <2>1. CASE pos \in 1..L /\ m_notifications[pos].id = r
    <3>1. /\ DOMAIN m_notifications' = 1..L
          /\ \A i \in 1..L : m_notifications'[i] = IF i = pos THEN new ELSE m_notifications[i]
      BY <2>1, <1>1, <1>3
    <3>2. \A i \in 1..L : i = pos <=> m_notifications[i].id = r
      BY <2>1, <1>2
    <3> HIDE DEF new
    <3>3. QED
      BY <3>1, <3>2, <1>1, <1>4
  <2>2. CASE ~(pos \in 1..L /\ m_notifications[pos].id = r)
    <3>1. \A i \in 1..L : m_notifications[i].id # r
      BY <2>2, <1>2
    <3>2. m_notifications' = m_notifications
      BY <2>2, <1>3
    <3>3. QED
      BY <3>1, <3>2, <1>1
  <2>3. QED
    BY <2>1, <2>2
<1>6. Listed' = {m_notifications'[i] : i \in 1..L}
  BY <1>5 DEF Listed
<1> HIDE DEF s
<1>7. Listed' = {s(n) : n \in Listed}
  BY <1>1, <1>5, <1>6
<1>8. QED
  BY <1>7 DEF s

\* A click takes the notification out that is at the place of the row.
LEMMA ActivateDismisses ==
  ASSUME IInv, assigned < IdSpace, NEW pos \in 1..Len(m_notifications), OnActivate(pos)
  PROVE  m_notifications[pos] \in Listed /\ Listed' = Listed \ {m_notifications[pos]}
<1> DEFINE L == Len(m_notifications)
<1>1. /\ m_notifications \in Seq(Notifications) /\ L \in Nat
      /\ Listed = {m_notifications[i] : i \in 1..L}
      /\ \A i, j \in 1..L : m_notifications[i].id = m_notifications[j].id => i = j
  BY ListedFacts
<1>2. /\ m_notifications' \in Seq(Notifications) /\ Len(m_notifications') = L - 1
      /\ \A i \in 1..(L - 1) :
           m_notifications'[i] = IF i < pos THEN m_notifications[i] ELSE m_notifications[i + 1]
  BY <1>1, WithoutProperties DEF OnActivate
<1>3. DOMAIN m_notifications' = 1..(L - 1)
  BY <1>2, LenProperties
<1>4. Listed' = {m_notifications'[i] : i \in 1..(L - 1)}
  BY <1>3 DEF Listed
<1> HIDE DEF L
<1>5. pos \in 1..L
  BY DEF L
<1>6. ASSUME NEW i \in 1..(L - 1)
      PROVE  m_notifications'[i] \in Listed \ {m_notifications[pos]}
  <2> DEFINE k == IF i < pos THEN i ELSE i + 1
  <2>1. k \in 1..L /\ k # pos /\ m_notifications'[i] = m_notifications[k]
    BY <1>1, <1>2, <1>5
  <2> HIDE DEF k
  <2>2. QED
    BY <2>1, <1>1, <1>5
<1>7. ASSUME NEW k \in 1..L, m_notifications[k] # m_notifications[pos]
      PROVE  m_notifications[k] \in Listed'
  <2> DEFINE i == IF k < pos THEN k ELSE k - 1
  <2>1. i \in 1..(L - 1) /\ (IF i < pos THEN i ELSE i + 1) = k
    BY <1>1, <1>5, <1>7
  <2> HIDE DEF i
  <2>2. m_notifications'[i] = m_notifications[k]
    BY <2>1, <1>2
  <2>3. QED
    BY <2>1, <2>2, <1>4
<1>8. m_notifications[pos] \in Listed
  BY <1>1, <1>5
<1>9. Listed' \subseteq Listed \ {m_notifications[pos]}
  BY <1>4, <1>6
<1>10. Listed \ {m_notifications[pos]} \subseteq Listed'
  BY <1>1, <1>7
<1>11. QED
  BY <1>8, <1>9, <1>10

\* The call that the main thread takes is the first that waits.
LEMMA HeadHasTurn ==
  ASSUME SInv, Waiting, queue # <<>>
  PROVE  /\ Head(queue) \in 1..Len(calls)
         /\ Service!Open(Head(queue)) /\ Service!Turn(Head(queue))
<1>1. /\ Head(queue) = queue[1] /\ 1 \in 1..Len(queue)
      /\ \A i \in 1..Len(queue) : queue[i] \in 1..Len(calls)
      /\ Len(calls) \in Nat /\ Len(queue) \in Nat /\ received \in 0..Len(calls)
  BY ServerFacts, HeadTailProperties, EmptySeq
<1>2. reply[queue[1]] = NoReply /\ queue[1] <= received
  BY <1>1 DEF SInv, Unanswered
<1>3. calls[queue[1]].method = "Notify"
  BY <1>1 DEF Waiting
<1>4. ASSUME NEW d \in 1..(queue[1] - 1), calls[d].method = "Notify", reply[d] = NoReply
      PROVE  FALSE
  <2>1. d \in 1..received
    BY <1>1, <1>2
  <2>2. PICK i \in 1..Len(queue) : queue[i] = d
    BY <2>1, <1>4 DEF Waiting
  <2>3. i = 1 \/ queue[1] < queue[i]
    BY <1>1 DEF SInv, Unanswered
  <2>4. QED
    BY <2>2, <2>3, <1>1
<1>5. QED
  BY <1>1, <1>2, <1>3, <1>4 DEF Service!Open, Service!Turn

LEMMA InitService == Init => Service!Init /\ Waiting
BY DEF Init, ServerInit, ListInit, Service!Init, Listed, Waiting

\* Every step is one of the service or none, until the counter wraps.
LEMMA StepService ==
  ASSUME IInv, Waiting, [Next]_vars, assigned' < IdSpace
  PROVE  Service!Next \/ UNCHANGED Service!vars
<1> USE DEF Service!Next
<1>0. SInv /\ assigned \in Nat /\ DOMAIN calls = 1..Len(calls) /\ Len(calls) \in Nat
  BY ServerFacts DEF IInv, LInv, ListTypeOK
<1>1. CASE Clients
  <2>1. Service!Call
    BY <1>1 DEF Clients, ClientCalls, listVars, Service!Call, Listed
  <2>2. QED
    BY <2>1
<1>2. CASE Worker
  <2> DEFINE k == received + 1
  <2>1. UNCHANGED <<Listed, assigned>>
    BY <1>2 DEF Worker, listVars, Listed
  <2>2. CASE Start \/ OnBusAquire \/ OnNameAquire \/ OnNameLost
    BY <2>1, <2>2 DEF Start, OnBusAquire, OnNameAquire, OnNameLost, Service!vars
  <2>3. CASE BusMethodCall \/ BusRejectsCall
    <3>1. /\ received < Len(calls) /\ calls' = calls
          /\ \/ UNCHANGED reply
             \/ Answer(k, ErrorReply)
             \/ /\ calls[k].method \in {"GetCapabilities", "GetServerInformation"}
                /\ Answer(k, OtherReply)
      BY <2>3 DEF BusMethodCall, BusRejectsCall, CommandNotify, CommandCloseNotification
    <3>2. k \in DOMAIN calls /\ Service!Open(k)
      <4>1. k \in 1..Len(calls) /\ k \in (received + 1)..Len(calls)
        BY <3>1, <1>0, ServerFacts
      <4>2. QED
        BY <4>1, <1>0 DEF SInv, Unanswered, Service!Open
    <3>3. CASE UNCHANGED reply
      BY <3>1, <3>3, <2>1 DEF Service!vars
    <3>4. CASE Answer(k, ErrorReply)
      BY <3>1, <3>2, <3>4, <2>1 DEF Answer, Service!Refuse, Service!Answer
    <3>5. CASE /\ calls[k].method \in {"GetCapabilities", "GetServerInformation"}
               /\ Answer(k, OtherReply)
      BY <3>1, <3>2, <3>5, <2>1 DEF Answer, Service!Inform, Service!Answer
    <3>6. QED
      BY <3>1, <3>3, <3>4, <3>5
  <2>4. QED
    BY <1>2, <2>2, <2>3 DEF Worker, WorkerStep
<1>3. CASE Main
  <2> DEFINE k == Head(queue)
  <2>1. /\ queue # <<>> /\ calls' = calls
        /\ IF calls[k].replaces = 0 THEN Add(k) ELSE Replace(k, calls[k].replaces)
    BY <1>3 DEF Main, DispatchNotify, OnNewNotification
  <2>2. k \in 1..Len(calls) /\ Service!Open(k) /\ Service!Turn(k)
    BY <2>1, <1>0, HeadHasTurn
  <2> HIDE DEF k
  <2>3. CASE calls[k].replaces = 0
    <3>1. /\ assigned \in Nat /\ assigned' = assigned + 1 /\ Answer(k, assigned')
          /\ Listed' = Listed \cup {[call |-> k, id |-> assigned']}
      BY <2>1, <2>2, <2>3, AddPosts
    <3>2. assigned' \in Nat /\ assigned' > assigned
      BY <3>1
    <3>3. Service!Post(k)
      BY <2>1, <2>2, <2>3, <3>1, <3>2 DEF Answer, Service!Post, Service!Answer
    <3>4. QED
      BY <3>3, <2>2, <1>0
  <2>4. CASE calls[k].replaces # 0
    <3>1. Replace(k, calls[k].replaces) /\ assigned' = assigned /\ Answer(k, calls[k].replaces)
      BY <2>1, <2>4 DEF Replace
    <3>2. calls[k].replaces \in Nat
      BY <1>0, <2>2, ServerFacts, ElementOfSeq, ReplacesAreNat
    <3>3. Listed' = {IF n.id = calls[k].replaces THEN [n EXCEPT !.call = k] ELSE n : n \in Listed}
      BY <2>2, <3>1, <3>2, ReplaceReplaces
    <3>4. Service!Replace(k)
      BY <2>1, <2>2, <2>4, <3>1, <3>3 DEF Answer, Service!Replace, Service!Answer
    <3>5. QED
      BY <3>4, <2>2, <1>0
  <2>5. QED
    BY <2>3, <2>4
<1>4. CASE User
  <2>1. PICK pos \in DOMAIN rows : OnActivate(pos)
    BY <1>4 DEF User
  <2>2. assigned' = assigned /\ UNCHANGED <<calls, reply>>
    BY <1>4, <2>1 DEF User, OnActivate, serverVars
  <2>3. pos \in 1..Len(m_notifications)
    BY <2>1, ListFacts DEF IInv, LInv, RowsMatch
  <2>4. m_notifications[pos] \in Listed /\ Listed' = Listed \ {m_notifications[pos]}
    BY <2>1, <2>2, <2>3, ActivateDismisses
  <2>5. Service!Dismiss
    BY <2>2, <2>4 DEF Service!Dismiss
  <2>6. QED
    BY <2>5
<1>5. CASE Widgets
  BY <1>5 DEF Widgets, DisposeNotify, serverVars, Listed, Service!vars
<1>6. CASE UNCHANGED vars
  BY <1>6 DEF vars, serverVars, listVars, Listed, Service!vars
<1>7. QED
  BY <1>1, <1>2, <1>3, <1>4, <1>5, <1>6 DEF Next

\* The two threads, the queue and the sorted list behave like the service that
\* deals with each call in one step, until the counter wraps.
THEOREM Implements == Spec => ImplementsService
<1>1. Init => Service!Init /\ Waiting
  BY InitService
<1>2. IInv /\ Waiting /\ [Next]_vars => Waiting'
  BY NextWaiting
<1>3. IInv /\ Waiting /\ [Next]_vars
        => [assigned' < IdSpace => Service!Next]_(Service!vars)
  BY StepService
<1>4. QED
  BY <1>1, <1>2, <1>3, Inductive, PTL DEF Spec, ImplementsService

-----------------------------------------------------------------------------
(* Who has no answer                                                       *)

\* What can stand in `reply' for a call that was received.
AnswersTo(method) ==
  CASE method = "Notify"            -> Nat \cup {NoReply, ErrorReply}
    [] method = "CloseNotification" -> {NoReply, ErrorReply}
    [] method = "InvalidNotify"     -> {ErrorReply}
    [] OTHER                        -> {OtherReply, ErrorReply}

AnswersMatch == \A c \in 1..received : reply[c] \in AnswersTo(calls[c].method)

\* A call that was received and has no answer is a CloseNotification or waits
\* for the main thread.
UnansweredIsExplained ==
  \A c \in 1..received :
    reply[c] = NoReply
      => calls[c].method = "CloseNotification" \/ \E i \in 1..Len(queue) : queue[i] = c

\* No call to CloseNotification gets the empty answer that is declared for it,
\* at most the error that GDBus sends when there is no object.
CloseIsUnanswered ==
  \A c \in 1..received :
    calls[c].method = "CloseNotification" => reply[c] \in {NoReply, ErrorReply}

LEMMA NextAnswersMatch ==
  ASSUME IInv, Waiting, AnswersMatch, [Next]_vars
  PROVE  AnswersMatch'
<1>0. /\ SInv /\ calls \in Seq(Calls) /\ received \in 0..Len(calls) /\ Len(calls) \in Nat
      /\ DOMAIN reply = 1..Len(calls) /\ \A c \in 1..received : c \in 1..Len(calls)
  BY ServerFacts DEF IInv
<1>1. CASE UNCHANGED <<calls, received, reply>>
  BY <1>1 DEF AnswersMatch
<1>2. CASE Clients
  <2>1. PICK call \in Calls : ClientCalls(call)
    BY <1>2 DEF Clients
  <2>2. \A c \in 1..Len(calls) : calls'[c] = calls[c] /\ reply'[c] = reply[c]
    BY <1>0, <2>1, ClientSInv
  <2>3. received' = received
    BY <2>1 DEF ClientCalls
  <2>4. QED
    BY <1>0, <2>2, <2>3 DEF AnswersMatch
<1>3. CASE BusMethodCall \/ BusRejectsCall
  <2> DEFINE k == received + 1
  <2>1. /\ received' = k /\ calls' = calls /\ k \in 1..Len(calls)
        /\ \A c \in 1..k : c = k \/ c \in 1..received
    BY <1>0, <1>3 DEF BusMethodCall, BusRejectsCall
  <2>2. reply' = reply \/ \E v \in {ErrorReply, OtherReply} : Answer(k, v)
    BY <1>3 DEF BusMethodCall, BusRejectsCall, CommandNotify, CommandCloseNotification
  <2>3. \A c \in 1..received : reply'[c] = reply[c]
    BY <1>0, <2>1, <2>2 DEF Answer
  <2>4. reply[k] = NoReply
    <3>1. k \in (received + 1)..Len(calls)
      BY <1>0, <2>1
    <3> HIDE DEF k
    <3>2. QED
      BY <1>0, <3>1 DEF SInv, Unanswered
  <2>5. reply'[k] \in AnswersTo(calls[k].method)
    <3>1. \A v : Answer(k, v) => reply'[k] = v
      BY <1>0, <2>1 DEF Answer
    <3>2. CASE BusRejectsCall
      BY <3>1, <3>2 DEF BusRejectsCall, AnswersTo
    <3>3. CASE BusMethodCall
      BY <2>4, <3>1, <3>3 DEF BusMethodCall, CommandNotify, CommandCloseNotification, AnswersTo
    <3>4. QED
      BY <1>3, <3>2, <3>3
  <2>6. QED
    BY <2>1, <2>3, <2>5 DEF AnswersMatch
<1>4. CASE Main
  <2>1. PICK v \in Nat : Answer(Head(queue), v)
    BY <1>4, DispatchAnswers DEF Main
  <2>2. /\ reply'[Head(queue)] = v
        /\ \A c \in 1..Len(calls) : c # Head(queue) => reply'[c] = reply[c]
    BY <1>0, <1>4, <2>1, MainSInv DEF Main
  <2>3. /\ UNCHANGED <<calls, received>> /\ queue # <<>>
        /\ Head(queue) = queue[1] /\ 1 \in 1..Len(queue)
    BY <1>0, <1>4, ServerFacts, HeadTailProperties, EmptySeq DEF Main, DispatchNotify
  <2>4. calls[Head(queue)].method = "Notify"
    BY <2>3 DEF Waiting
  <2>5. QED
    BY <1>0, <2>2, <2>3, <2>4 DEF AnswersMatch, AnswersTo
<1>5. QED
  BY <1>1, <1>2, <1>3, <1>4
  DEF Next, Worker, WorkerStep, Start, OnBusAquire, OnNameAquire, OnNameLost,
      User, Widgets, vars, serverVars

\* command_close_notification is the only handler that leaves a client without an
\* answer, and gives none; every other call that was received is answered, or waits
\* for the main thread.  That the queue runs empty, which is why every Notify
\* is answered in the end, rests on fairness.
THEOREM UnansweredCalls == Spec => [](UnansweredIsExplained /\ CloseIsUnanswered)
<1>1. Init => Waiting /\ AnswersMatch
  BY DEF Init, ServerInit, Waiting, AnswersMatch
<1>2. IInv /\ Waiting /\ [Next]_vars => Waiting'
  BY NextWaiting
<1>3. IInv /\ Waiting /\ AnswersMatch /\ [Next]_vars => AnswersMatch'
  BY NextAnswersMatch
<1>4. IInv /\ Waiting /\ AnswersMatch => UnansweredIsExplained /\ CloseIsUnanswered
  <2> SUFFICES ASSUME IInv, Waiting, AnswersMatch
               PROVE  UnansweredIsExplained /\ CloseIsUnanswered
    OBVIOUS
  <2>1. CloseIsUnanswered
    BY DEF AnswersMatch, AnswersTo, CloseIsUnanswered
  <2>2. ASSUME NEW c \in 1..received, reply[c] = NoReply,
               calls[c].method # "CloseNotification"
        PROVE  calls[c].method = "Notify"
    BY <2>2 DEF AnswersMatch, AnswersTo, NoReply, ErrorReply, OtherReply
  <2>3. QED
    BY <2>1, <2>2 DEF Waiting, UnansweredIsExplained
<1>5. QED
  BY <1>1, <1>2, <1>3, <1>4, Inductive, PTL DEF Spec

-----------------------------------------------------------------------------
(* Fewer calls than ids                                                    *)

\* Ids are given for calls that were received.
Counted == assigned + Len(queue) <= received

LEMMA NextCounted ==
  ASSUME SInv, assigned \in Nat, Counted, [Next]_vars
  PROVE  Counted'
<1>0. /\ queue \in Seq(1..Len(calls)) /\ Len(queue) \in Nat
      /\ received \in 0..Len(calls) /\ Len(calls) \in Nat
  BY ServerFacts
<1>1. CASE UNCHANGED <<received, queue, assigned>>
  BY <1>1 DEF Counted
<1>2. CASE Worker
  <2>1. CASE UNCHANGED <<received, queue>>
    BY <1>2, <2>1, <1>1 DEF Worker, listVars
  <2>2. CASE BusMethodCall \/ BusRejectsCall
    <3> DEFINE k == received + 1
    <3>1. received' = k /\ (queue' = queue \/ queue' = Append(queue, k)) /\ k \in 1..Len(calls)
      BY <2>2, <1>0 DEF BusMethodCall, BusRejectsCall, CommandNotify, CommandCloseNotification
    <3> HIDE DEF k
    <3>2. Len(queue') \in {Len(queue), Len(queue) + 1}
      BY <3>1, <1>0, AppendProperties
    <3>3. assigned' = assigned
      BY <1>2 DEF Worker, listVars
    <3>4. QED
      BY <3>1, <3>2, <3>3, <1>0 DEF Counted, k
  <2>3. QED
    BY <1>2, <2>1, <2>2 DEF Worker, WorkerStep, Start, OnBusAquire, OnNameAquire, OnNameLost
<1>3. CASE Main
  <2>1. /\ queue # <<>> /\ queue' = Tail(queue) /\ received' = received
        /\ assigned' = assigned \/ assigned' = assigned + 1
    BY <1>3 DEF Main, DispatchNotify, OnNewNotification, Add, Replace
  <2>2. Len(queue') = Len(queue) - 1
    BY <2>1, <1>0, HeadTailProperties
  <2>3. QED
    BY <2>1, <2>2, <1>0 DEF Counted
<1>4. CASE Clients \/ User \/ Widgets \/ UNCHANGED vars
  BY <1>1, <1>4 DEF Clients, ClientCalls, User, OnActivate, Widgets, DisposeNotify,
                    serverVars, listVars, vars
<1>5. QED
  BY <1>2, <1>3, <1>4 DEF Next

\* Before more than 2^32 - 1 calls were made, the program is the service.
THEOREM IsService == MaxCalls < IdSpace => (Spec => Service!Spec)
<1> SUFFICES ASSUME MaxCalls < IdSpace PROVE Spec => Service!Spec
  OBVIOUS
<1>1. Init => Counted
  BY DEF Init, ServerInit, ListInit, Counted
<1>2. IInv /\ Counted /\ [Next]_vars => Counted'
  BY NextCounted DEF IInv, LInv, ListTypeOK
<1>3. IInv /\ Counted => assigned < IdSpace
  <2> SUFFICES ASSUME IInv, Counted PROVE assigned < IdSpace
    OBVIOUS
  <2>1. /\ assigned \in Nat /\ Len(queue) \in Nat /\ received \in 0..Len(calls)
        /\ Len(calls) \in Nat /\ Len(calls) <= MaxCalls
    BY ServerFacts DEF IInv, SInv, LInv, ListTypeOK
  <2>2. QED
    BY <2>1, MaxCallsAssumption, IdSpaceAssumption
       DEF Counted, MaxCallsAssumption, IdSpaceAssumption
<1>4. (assigned < IdSpace)' /\ [assigned' < IdSpace => Service!Next]_(Service!vars)
        => [Service!Next]_(Service!vars)
  OBVIOUS
<1>5. QED
  BY <1>1, <1>2, <1>3, <1>4, Inductive, Implements, PTL
     DEF Spec, ImplementsService, Service!Spec

=============================================================================
