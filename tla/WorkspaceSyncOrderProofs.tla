---------------------- MODULE WorkspaceSyncOrderProofs ----------------------
(***************************************************************************)
(* The list catches up with the compositor, for every set of workspaces,   *)
(* any number of events and failures and both builds: the focused and the  *)
(* special workspace are highlighted, and the items are the workspaces, as *)
(* soon as nothing that could still change them is under way.              *)
(*                                                                         *)
(* What is under way is one sequence, from the socket through the worker   *)
(* thread to the main loop.  It grows at its end when the compositor emits *)
(* a line and shrinks when the worker drops a line it does not know or     *)
(* the main loop takes the first.  The invariants are two patterns in that *)
(* sequence that both ways keep: the last event of a kind tells how the    *)
(* compositor is now, and the event of a new workspace is followed by the  *)
(* event that makes it the focused or the special one.                     *)
(*                                                                         *)
(* Then: a workspace is announced twice at most, and the program comes to  *)
(* rest.                                                                   *)
(***************************************************************************)
EXTENDS WorkspaceSyncProofs, SequenceTheorems

\* The places of the events of E.
At(s, E) == {i \in DOMAIN s : s[i] \in E}

\* The last event of E is one of G.
LastIn(s, E, G) == \A i \in At(s, E) : s[i] \in G \/ \E j \in At(s, E) : i < j

\* Behind every event of C there is one of E.
FollowedBy(s, C, E) == \A i \in At(s, C) : \E j \in At(s, E) : i < j

Appended(s, t, e) ==
  /\ Len(t) = Len(s) + 1
  /\ t[Len(s) + 1] = e
  /\ \A i \in 1..Len(s) : t[i] = s[i]

Removed(s, t, p) ==
  /\ p \in 1..Len(s)
  /\ Len(t) = Len(s) - 1
  /\ \A i \in 1..(Len(s) - 1) : t[i] = IF i < p THEN s[i] ELSE s[i + 1]

-----------------------------------------------------------------------------
(* The patterns.                                                           *)

\* An event of another kind at the end disturbs neither pattern.
LEMMA AppendOther ==
  ASSUME NEW S, NEW s \in Seq(S), NEW t \in Seq(S), NEW e, Appended(s, t, e),
         NEW E, NEW G, NEW C
  PROVE  /\ e \notin E /\ LastIn(s, E, G) => LastIn(t, E, G)
         /\ e \notin C /\ FollowedBy(s, C, E) => FollowedBy(t, C, E)
         /\ At(t, E) = {} => At(s, E) = {} /\ e \notin E
<1>1. /\ DOMAIN s = 1..Len(s) /\ DOMAIN t = 1..(Len(s) + 1) /\ Len(s) \in Nat
  BY LenProperties DEF Appended
<1>2. \A i \in 1..(Len(s) + 1) : i = Len(s) + 1 \/ i \in 1..Len(s)
  BY <1>1
<1>3. \A i \in 1..Len(s) : i \in 1..(Len(s) + 1) /\ t[i] = s[i]
  BY <1>1 DEF Appended
<1>4. Len(s) + 1 \in DOMAIN t /\ t[Len(s) + 1] = e
  BY <1>1 DEF Appended
<1>5. \A X : At(s, X) \subseteq At(t, X)
  BY <1>1, <1>3 DEF At
<1>6. \A X : e \notin X => At(t, X) \subseteq At(s, X)
  BY <1>1, <1>2, <1>3, <1>4 DEF At
<1>7. \A X : \A i \in At(s, X) : t[i] = s[i]
  BY <1>1, <1>3 DEF At
<1>8. e \notin E /\ LastIn(s, E, G) => LastIn(t, E, G)
  BY <1>5, <1>6, <1>7 DEF LastIn
<1>9. e \notin C /\ FollowedBy(s, C, E) => FollowedBy(t, C, E)
  BY <1>5, <1>6 DEF FollowedBy
<1>10. At(t, E) = {} => At(s, E) = {} /\ e \notin E
  BY <1>4, <1>5 DEF At
<1>11. QED
  BY <1>8, <1>9, <1>10

\* An event of E at the end completes both patterns, however the sequence was
\* before.
LEMMA AppendLast ==
  ASSUME NEW S, NEW s \in Seq(S), NEW t \in Seq(S), NEW e, Appended(s, t, e),
         NEW E, NEW G, NEW C, e \in E
  PROVE  /\ e \in G => LastIn(t, E, G)
         /\ e \notin C => FollowedBy(t, C, E)
         /\ At(t, E) # {}
<1>1. DOMAIN t = 1..(Len(s) + 1) /\ Len(s) \in Nat
  BY LenProperties DEF Appended
<1>2. Len(s) + 1 \in At(t, E) /\ t[Len(s) + 1] = e
  BY <1>1 DEF Appended, At
<1>3. \A X : \A i \in At(t, X) : i = Len(s) + 1 \/ i < Len(s) + 1
  BY <1>1 DEF At
<1>4. e \in G => LastIn(t, E, G)
  BY <1>2, <1>3 DEF LastIn
<1>5. e \notin C => FollowedBy(t, C, E)
  <2> SUFFICES ASSUME e \notin C, NEW i \in At(t, C) PROVE i < Len(s) + 1
    BY <1>2 DEF FollowedBy
  <2>1. i # Len(s) + 1
    BY <1>2 DEF At
  <2>2. QED
    BY <2>1, <1>3
<1>6. QED
  BY <1>2, <1>4, <1>5

\* So it is when an event goes, be it the first one or of another kind.
LEMMA RemoveKeeps ==
  ASSUME NEW S, NEW s \in Seq(S), NEW t \in Seq(S), NEW p, Removed(s, t, p),
         NEW E, NEW G, NEW C, p = 1 \/ s[p] \notin E
  PROVE  /\ LastIn(s, E, G) => LastIn(t, E, G)
         /\ FollowedBy(s, C, E) => FollowedBy(t, C, E)
         /\ At(t, E) = {} => At(s, E) \subseteq {p}
<1> DEFINE old(i) == IF i < p THEN i ELSE i + 1
           new(i) == IF i < p THEN i ELSE i - 1
<1>1. /\ DOMAIN s = 1..Len(s) /\ DOMAIN t = 1..(Len(s) - 1) /\ Len(s) \in Nat
      /\ p \in 1..Len(s)
  BY LenProperties DEF Removed
<1>2. \A i \in DOMAIN t : old(i) \in DOMAIN s /\ old(i) # p /\ t[i] = s[old(i)]
  BY <1>1 DEF Removed
<1>3. \A j \in DOMAIN s : j # p => new(j) \in DOMAIN t /\ t[new(j)] = s[j]
  <2> SUFFICES ASSUME NEW j \in 1..Len(s), j # p
               PROVE  new(j) \in 1..(Len(s) - 1) /\ t[new(j)] = s[j]
    BY <1>1
  <2>1. CASE j < p
    BY <2>1, <1>1 DEF Removed
  <2>2. CASE j > p
    <3>1. new(j) = j - 1 /\ j - 1 \in 1..(Len(s) - 1) /\ ~(j - 1 < p) /\ (j - 1) + 1 = j
      BY <2>2, <1>1
    <3>2. QED
      BY <3>1 DEF Removed
  <2>3. QED
    BY <2>1, <2>2, <1>1
<1>4. \A i \in DOMAIN t, j \in DOMAIN s : old(i) < j /\ j # p => i < new(j)
  BY <1>1
<1>5. \A X : \A i \in At(t, X) : old(i) \in At(s, X)
  BY <1>2 DEF At
<1>6. \A X : \A j \in At(s, X) : j # p => new(j) \in At(t, X)
  BY <1>3 DEF At
<1>7. \A i \in DOMAIN t, j \in At(s, E) : old(i) < j => j # p
  BY <1>1 DEF At
<1>8. \A i \in DOMAIN t, j \in At(s, E) : old(i) < j => new(j) \in At(t, E) /\ i < new(j)
  BY <1>4, <1>6, <1>7 DEF At
<1>9. \A X : At(t, X) \subseteq DOMAIN t
  BY DEF At
<1> HIDE DEF old, new
<1>10. LastIn(s, E, G) => LastIn(t, E, G)
  <2> SUFFICES ASSUME LastIn(s, E, G), NEW i \in At(t, E)
               PROVE  t[i] \in G \/ \E j \in At(t, E) : i < j
    BY DEF LastIn
  <2>1. CASE s[old(i)] \in G
    BY <2>1, <1>2, <1>9
  <2>2. CASE \E j \in At(s, E) : old(i) < j
    BY <2>2, <1>8, <1>9
  <2>3. QED
    BY <2>1, <2>2, <1>5 DEF LastIn
<1>11. FollowedBy(s, C, E) => FollowedBy(t, C, E)
  <2> SUFFICES ASSUME FollowedBy(s, C, E), NEW i \in At(t, C)
               PROVE  \E j \in At(t, E) : i < j
    BY DEF FollowedBy
  <2>1. PICK j \in At(s, E) : old(i) < j
    BY <1>5 DEF FollowedBy
  <2>2. QED
    BY <2>1, <1>8, <1>9
<1>12. At(t, E) = {} => At(s, E) \subseteq {p}
  BY <1>6
<1>13. QED
  BY <1>10, <1>11, <1>12

-----------------------------------------------------------------------------
(* How what is under way changes.                                          *)

\* The places of two sequences behind one another.
LEMMA ConcatPlaces ==
  ASSUME NEW S, NEW q \in Seq(S), NEW w \in Seq(S)
  PROVE  /\ q \o w \in Seq(S)
         /\ Len(q) \in Nat /\ Len(w) \in Nat
         /\ Len(q \o w) = Len(q) + Len(w)
         /\ \A i \in 1..Len(q) : (q \o w)[i] = q[i]
         /\ \A i \in 1..Len(w) : (q \o w)[Len(q) + i] = w[i]
<1>1. Len(q) \in Nat /\ Len(w) \in Nat
  BY LenProperties
<1>2. /\ q \o w \in Seq(S)
      /\ Len(q \o w) = Len(q) + Len(w)
      /\ \A i \in 1..(Len(q) + Len(w)) : (q \o w)[i] = IF i <= Len(q) THEN q[i] ELSE w[i - Len(q)]
  BY ConcatProperties
<1>3. \A i \in 1..Len(q) : (q \o w)[i] = q[i]
  BY <1>1, <1>2
<1>4. ASSUME NEW i \in 1..Len(w) PROVE (q \o w)[Len(q) + i] = w[i]
  <2>1. Len(q) + i \in 1..(Len(q) + Len(w)) /\ ~(Len(q) + i <= Len(q)) /\ (Len(q) + i) - Len(q) = i
    BY <1>1
  <2>2. QED
    BY <1>2, <2>1
<1>5. QED
  BY <1>1, <1>2, <1>3, <1>4

\* A line is written behind everything.
LEMMA AppendBehind ==
  ASSUME NEW S, NEW q \in Seq(S), NEW w \in Seq(S), NEW e \in S
  PROVE  /\ Appended(q \o w, q \o Append(w, e), e)
         /\ q \o Append(w, e) \in Seq(S)
<1> DEFINE v == Append(w, e)
<1>1. /\ v \in Seq(S)
      /\ Len(v) = Len(w) + 1
      /\ v[Len(w) + 1] = e
      /\ \A i \in 1..Len(w) : v[i] = w[i]
  BY AppendProperties
<1>2. v \in Seq(S)
  BY <1>1
<1> HIDE DEF v
<1> DEFINE s == q \o w
           t == q \o v
<1>3. /\ Len(q) \in Nat /\ Len(w) \in Nat
      /\ Len(s) = Len(q) + Len(w)
      /\ \A i \in 1..Len(q) : s[i] = q[i]
      /\ \A i \in 1..Len(w) : s[Len(q) + i] = w[i]
  BY ConcatPlaces
<1>4. /\ t \in Seq(S)
      /\ Len(t) = Len(q) + Len(v)
      /\ \A i \in 1..Len(q) : t[i] = q[i]
      /\ \A i \in 1..Len(v) : t[Len(q) + i] = v[i]
  BY <1>2, ConcatPlaces
<1> HIDE DEF s, t
<1>5. Len(t) = Len(s) + 1
  BY <1>1, <1>3, <1>4
<1>6. t[Len(s) + 1] = e
  <2>1. Len(w) + 1 \in 1..Len(v) /\ Len(s) + 1 = Len(q) + (Len(w) + 1)
    BY <1>1, <1>3
  <2>2. QED
    BY <1>1, <1>4, <2>1
<1>7. ASSUME NEW i \in 1..Len(s) PROVE t[i] = s[i]
  <2>1. CASE i <= Len(q)
    BY <2>1, <1>3, <1>4
  <2>2. CASE ~(i <= Len(q))
    <3> DEFINE k == i - Len(q)
    <3>1. k \in 1..Len(w) /\ k \in 1..Len(v) /\ i = Len(q) + k
      BY <2>2, <1>1, <1>3
    <3> HIDE DEF k
    <3>2. QED
      BY <3>1, <1>1, <1>3, <1>4
  <2>3. QED
    BY <2>1, <2>2
<1>8. Appended(s, t, e)
  BY <1>5, <1>6, <1>7 DEF Appended
<1>9. QED
  BY <1>4, <1>8 DEF s, t, v

\* The place of the line the worker thread reads, and the sequence without it.
LEMMA RemoveSecondHead ==
  ASSUME NEW S, NEW q \in Seq(S), NEW w \in Seq(S), w # <<>>
  PROVE  /\ Removed(q \o w, q \o Tail(w), Len(q) + 1)
         /\ (q \o w)[Len(q) + 1] = Head(w)
         /\ q \o Tail(w) \in Seq(S)
<1> DEFINE v == Tail(w)
<1>1. /\ v \in Seq(S)
      /\ Len(v) = Len(w) - 1
      /\ \A i \in 1..Len(v) : v[i] = w[i + 1]
      /\ Len(w) \in Nat \ {0}
      /\ Head(w) = w[1]
  BY HeadTailProperties, LenProperties
<1>2. v \in Seq(S)
  BY <1>1
<1> HIDE DEF v
<1> DEFINE s == q \o w
           t == q \o v
           p == Len(q) + 1
<1>3. /\ Len(q) \in Nat
      /\ Len(s) = Len(q) + Len(w)
      /\ \A i \in 1..Len(q) : s[i] = q[i]
      /\ \A i \in 1..Len(w) : s[Len(q) + i] = w[i]
  BY ConcatPlaces
<1>4. /\ t \in Seq(S)
      /\ Len(t) = Len(q) + Len(v)
      /\ \A i \in 1..Len(q) : t[i] = q[i]
      /\ \A i \in 1..Len(v) : t[Len(q) + i] = v[i]
  BY <1>2, ConcatPlaces
<1> HIDE DEF s, t
<1>5. p \in 1..Len(s) /\ Len(t) = Len(s) - 1 /\ s[p] = Head(w)
  BY <1>1, <1>3, <1>4
<1>6. ASSUME NEW i \in 1..(Len(s) - 1) PROVE t[i] = IF i < p THEN s[i] ELSE s[i + 1]
  <2>1. CASE i < p
    <3>1. i \in 1..Len(q)
      BY <2>1, <1>3
    <3>2. QED
      BY <2>1, <3>1, <1>3, <1>4
  <2>2. CASE ~(i < p)
    <3> DEFINE k == i - Len(q)
    <3>1. /\ k \in 1..Len(v) /\ k + 1 \in 1..Len(w)
          /\ i = Len(q) + k /\ i + 1 = Len(q) + (k + 1)
      BY <2>2, <1>1, <1>3
    <3> HIDE DEF k
    <3>2. t[i] = v[k] /\ v[k] = w[k + 1] /\ s[i + 1] = w[k + 1]
      BY <3>1, <1>1, <1>3, <1>4
    <3>3. QED
      BY <2>2, <3>2
  <2>3. QED
    BY <2>1, <2>2
<1>7. Removed(s, t, p)
  BY <1>5, <1>6 DEF Removed
<1>8. QED
  BY <1>4, <1>5, <1>7 DEF s, t, v

\* A line handed over by the worker thread keeps its place.
LEMMA HandOver ==
  ASSUME NEW S, NEW q \in Seq(S), NEW w \in Seq(S), w # <<>>
  PROVE  Append(q, Head(w)) \o Tail(w) = q \o w
<1> DEFINE r == Append(q, Head(w))
           v == Tail(w)
<1>1. /\ v \in Seq(S)
      /\ Len(v) = Len(w) - 1
      /\ \A i \in 1..Len(v) : v[i] = w[i + 1]
      /\ Len(w) \in Nat \ {0}
      /\ Head(w) = w[1] /\ Head(w) \in S
  BY HeadTailProperties, LenProperties
<1>2. /\ r \in Seq(S)
      /\ Len(r) = Len(q) + 1
      /\ r[Len(q) + 1] = w[1]
      /\ \A i \in 1..Len(q) : r[i] = q[i]
  BY <1>1, AppendProperties
<1>0. r \in Seq(S) /\ v \in Seq(S)
  BY <1>1, <1>2
<1> HIDE DEF r, v
<1> DEFINE s == q \o w
           t == r \o v
<1>3. /\ s \in Seq(S)
      /\ Len(q) \in Nat
      /\ Len(s) = Len(q) + Len(w)
      /\ \A i \in 1..Len(q) : s[i] = q[i]
      /\ \A i \in 1..Len(w) : s[Len(q) + i] = w[i]
  BY ConcatPlaces
<1>4. /\ t \in Seq(S)
      /\ Len(t) = Len(r) + Len(v)
      /\ \A i \in 1..Len(r) : t[i] = r[i]
      /\ \A i \in 1..Len(v) : t[Len(r) + i] = v[i]
  BY <1>0, ConcatPlaces
<1> HIDE DEF s, t
<1>5. Len(t) = Len(s)
  BY <1>1, <1>2, <1>3, <1>4
<1>6. ASSUME NEW i \in 1..Len(t) PROVE t[i] = s[i]
  <2>1. CASE i <= Len(q)
    BY <2>1, <1>2, <1>3, <1>4
  <2>2. CASE i = Len(q) + 1
    BY <2>2, <1>1, <1>2, <1>3, <1>4
  <2>3. CASE i > Len(q) + 1
    <3> DEFINE k == i - Len(r)
    <3>1. /\ k \in 1..Len(v) /\ k + 1 \in 1..Len(w)
          /\ i = Len(r) + k /\ i = Len(q) + (k + 1)
      BY <2>3, <1>1, <1>2, <1>3, <1>4
    <3> HIDE DEF k
    <3>2. t[i] = v[k] /\ v[k] = w[k + 1]
      BY <3>1, <1>1, <1>4
    <3>3. s[i] = w[k + 1]
      BY <3>1, <1>3
    <3>4. QED
      BY <3>2, <3>3
  <2>4. QED
    BY <2>1, <2>2, <2>3, <1>3
<1>7. t = s
  BY <1>3, <1>4, <1>5, <1>6, SeqEqual
<1>8. QED
  BY <1>7 DEF s, t, r, v

\* The main loop takes the first event.
LEMMA TakeFirst ==
  ASSUME NEW S, NEW q \in Seq(S), NEW w \in Seq(S), q # <<>>
  PROVE  /\ Removed(q \o w, Tail(q) \o w, 1)
         /\ (q \o w)[1] = Head(q)
         /\ Tail(q) \o w \in Seq(S)
<1> DEFINE r == Tail(q)
<1>1. /\ r \in Seq(S)
      /\ Len(r) = Len(q) - 1
      /\ \A i \in 1..Len(r) : r[i] = q[i + 1]
      /\ Len(q) \in Nat \ {0}
      /\ Head(q) = q[1]
  BY HeadTailProperties, LenProperties
<1>2. r \in Seq(S)
  BY <1>1
<1> HIDE DEF r
<1> DEFINE s == q \o w
           t == r \o w
<1>3. /\ Len(w) \in Nat
      /\ Len(s) = Len(q) + Len(w)
      /\ \A i \in 1..Len(q) : s[i] = q[i]
      /\ \A i \in 1..Len(w) : s[Len(q) + i] = w[i]
  BY ConcatPlaces
<1>4. /\ t \in Seq(S)
      /\ Len(t) = Len(r) + Len(w)
      /\ \A i \in 1..Len(r) : t[i] = r[i]
      /\ \A i \in 1..Len(w) : t[Len(r) + i] = w[i]
  BY <1>2, ConcatPlaces
<1> HIDE DEF s, t
<1>5. 1 \in 1..Len(s) /\ Len(t) = Len(s) - 1 /\ s[1] = Head(q)
  BY <1>1, <1>3, <1>4
<1>6. ASSUME NEW i \in 1..(Len(s) - 1) PROVE t[i] = s[i + 1]
  <2>1. CASE i <= Len(r)
    <3>1. i \in 1..Len(r) /\ i + 1 \in 1..Len(q)
      BY <2>1, <1>1
    <3>2. QED
      BY <3>1, <1>1, <1>3, <1>4
  <2>2. CASE ~(i <= Len(r))
    <3> DEFINE k == i - Len(r)
    <3>1. k \in 1..Len(w) /\ i = Len(r) + k /\ i + 1 = Len(q) + k
      BY <2>2, <1>1, <1>3
    <3> HIDE DEF k
    <3>2. QED
      BY <3>1, <1>3, <1>4
  <2>3. QED
    BY <2>1, <2>2
<1>7. Removed(s, t, 1)
  BY <1>5, <1>6 DEF Removed
<1>8. QED
  BY <1>4, <1>5, <1>7 DEF s, t, r

LEMMA PendingSeq ==
  ASSUME TypeOK
  PROVE  Pending \in Seq(Events) /\ queue \in Seq(Events) /\ wire \in Seq(Events)
<1>1. queue \in Seq(Events) /\ wire \in Seq(Events)
  BY DEF TypeOK, HyprlandTypeOK, ListenerTypeOK
<1>2. QED
  BY <1>1, ConcatPlaces DEF Pending

\* A line emitted for a connected client is the last one under way.
LEMMA EmitAppends ==
  ASSUME TypeOK, NEW name, NEW id, [name |-> name, id |-> id] \in Events,
         Emit(name, id), UNCHANGED queue
  PROVE  /\ subscribed => Appended(Pending, Pending', [name |-> name, id |-> id])
         /\ ~subscribed => Pending' = Pending
         /\ Pending' \in Seq(Events)
         /\ UNCHANGED subscribed
<1> DEFINE e == [name |-> name, id |-> id]
<1>1. UNCHANGED subscribed /\ wire' = IF subscribed THEN Append(wire, e) ELSE wire
  BY DEF Emit
<1>2. e \in Events
  OBVIOUS
<1> HIDE DEF e
<1>3. CASE subscribed
  <2>1. Pending' = queue \o Append(wire, e)
    BY <1>1, <1>3 DEF Pending
  <2>2. Appended(Pending, Pending', e) /\ Pending' \in Seq(Events)
    BY <2>1, <1>2, PendingSeq, AppendBehind DEF Pending
  <2>3. QED
    BY <1>1, <1>3, <2>2 DEF e
<1>4. CASE ~subscribed
  <2>1. Pending' = Pending
    BY <1>1, <1>4 DEF Pending
  <2>2. QED
    BY <1>1, <1>4, <2>1, PendingSeq
<1>5. QED
  BY <1>3, <1>4

\* The worker thread hands a line over, which leaves the sequence as it is, or
\* drops one that is no event.
LEMMA ReadRemoves ==
  ASSUME TypeOK, ReadLine
  PROVE  \/ Pending' = Pending
         \/ /\ Pending' \in Seq(Events)
            /\ \E p \in 1..Len(Pending) :
                 Removed(Pending, Pending', p) /\ Pending[p].name \notin KnownEvents
<1>1. wire # <<>> /\ wire' = Tail(wire)
  BY DEF ReadLine
<1>2. CASE Head(wire).name \in KnownEvents
  <2>1. Pending' = Append(queue, Head(wire)) \o Tail(wire)
    BY <1>1, <1>2 DEF Pending, ReadLine
  <2>2. QED
    BY <2>1, <1>1, PendingSeq, HandOver DEF Pending
<1>3. CASE Head(wire).name \notin KnownEvents
  <2>1. Pending' = queue \o Tail(wire)
    BY <1>1, <1>3 DEF Pending, ReadLine
  <2>2. /\ Removed(Pending, Pending', Len(queue) + 1)
        /\ Pending[Len(queue) + 1] = Head(wire)
        /\ Pending' \in Seq(Events)
    BY <2>1, <1>1, PendingSeq, RemoveSecondHead DEF Pending
  <2>3. Len(queue) + 1 \in 1..Len(Pending)
    BY <2>2 DEF Removed
  <2>4. QED
    BY <1>3, <2>2, <2>3
<1>4. QED
  BY <1>2, <1>3

\* The main loop takes the first event.
LEMMA DispatchRemoves ==
  ASSUME TypeOK, Dispatch
  PROVE  /\ Removed(Pending, Pending', 1)
         /\ Pending[1] = Head(queue)
         /\ Pending' \in Seq(Events)
<1>1. queue # <<>> /\ queue' = Tail(queue) /\ UNCHANGED wire
  BY DEF Dispatch, hyprlandVars
<1>2. Pending' = Tail(queue) \o wire
  BY <1>1 DEF Pending
<1>3. QED
  BY <1>1, <1>2, PendingSeq, TakeFirst DEF Pending

-----------------------------------------------------------------------------
(* The invariants about what is under way.                                 *)

FocusEvents   == [name : {"workspacev2"}, id : Normal]
SpecialEvents == [name : {"activespecialv2"}, id : Special \cup {None}]
MemberEvents(w) == [name : MembershipEvents, id : {w}]

NewEvent(w) == [name |-> "createworkspacev2", id |-> w]

\* The events that may be the last about w.
LastEvents(w) ==
  IF w \in exists THEN [name : {"createworkspacev2", "moveworkspacev2"}, id : {w}]
                  ELSE [name : {"destroyworkspacev2"}, id : {w}]

\* Nothing is lost once the listener is connected.
Connected ==
  /\ phase \in {"connected", "listed", "ready"} => subscribed
  /\ ~subscribed => Pending = <<>>

FocusOrder ==
  /\ LastIn(Pending, FocusEvents, {[name |-> "workspacev2", id |-> focused]})
  /\ FollowedBy(Pending, {NewEvent(focused)}, FocusEvents)

SpecialOrder ==
  /\ LastIn(Pending, SpecialEvents, {[name |-> "activespecialv2", id |-> shown]})
  /\ FollowedBy(Pending, {NewEvent(shown)}, SpecialEvents)

MemberOrder == \A w \in Ids : LastIn(Pending, MemberEvents(w), LastEvents(w))

Order == Connected /\ FocusOrder /\ SpecialOrder /\ MemberOrder

\* Nothing is under way before the connection, so nothing is out of order.
LEMMA EmptyOrder ==
  ASSUME NEW E, NEW G, NEW C
  PROVE  LastIn(<<>>, E, G) /\ FollowedBy(<<>>, C, E)
<1>1. \A X : At(<<>>, X) = {}
  BY DEF At
<1>2. QED
  BY <1>1 DEF LastIn, FollowedBy

\* A step that takes an event out or leaves the sequence alone keeps the order,
\* as it leaves the compositor alone.
LEMMA TakenOrder ==
  ASSUME TypeOK, FocusOrder, SpecialOrder, MemberOrder,
         UNCHANGED <<exists, focused, shown>>,
         Pending' \in Seq(Events), NEW p, Removed(Pending, Pending', p),
         p = 1 \/ Pending[p].name \notin KnownEvents
  PROVE  FocusOrder' /\ SpecialOrder' /\ MemberOrder'
<1>1. \A w : LastEvents(w)' = LastEvents(w)
  BY DEF LastEvents
<1>2. p = 1 \/ Pending[p] \notin FocusEvents
  BY DEF FocusEvents, KnownEvents
<1>3. p = 1 \/ Pending[p] \notin SpecialEvents
  BY DEF SpecialEvents, KnownEvents
<1>4. \A w : p = 1 \/ Pending[p] \notin MemberEvents(w)
  BY DEF MemberEvents, MembershipEvents, KnownEvents
<1>5. Pending \in Seq(Events)
  BY PendingSeq
<1>6. FocusOrder'
  BY <1>2, <1>5, RemoveKeeps DEF FocusOrder
<1>7. SpecialOrder'
  BY <1>3, <1>5, RemoveKeeps DEF SpecialOrder
<1>8. MemberOrder'
  <2> SUFFICES ASSUME NEW w \in Ids PROVE LastIn(Pending', MemberEvents(w), LastEvents(w))
    BY <1>1 DEF MemberOrder
  <2>1. LastIn(Pending, MemberEvents(w), LastEvents(w))
    BY DEF MemberOrder
  <2>2. QED
    BY <2>1, <1>4, <1>5, RemoveKeeps
<1>9. QED
  BY <1>6, <1>7, <1>8

\* An emitted event keeps the order when it tells what changed and names, as a
\* new workspace, neither the focused nor the special one.
LEMMA EmittedOrder ==
  ASSUME TypeOK, FocusOrder, SpecialOrder, MemberOrder,
         NEW e, Pending' \in Seq(Events), Appended(Pending, Pending', e),
         e \in FocusEvents => e.id = focused',
         e \notin FocusEvents => focused' = focused,
         e \in SpecialEvents => e.id = shown',
         e \notin SpecialEvents => shown' = shown,
         e \notin {NewEvent(focused'), NewEvent(shown')},
         \A w \in Ids : e \in MemberEvents(w) => e \in LastEvents(w)',
         \A w \in Ids : e \notin MemberEvents(w) => (w \in exists' <=> w \in exists)
  PROVE  FocusOrder' /\ SpecialOrder' /\ MemberOrder'
<1>1. Pending \in Seq(Events)
  BY PendingSeq
<1>2. FocusOrder'
  <2> DEFINE G == {[name |-> "workspacev2", id |-> focused']}
             C == {NewEvent(focused')}
  <2>1. CASE e \in FocusEvents
    <3>1. e \in G /\ e \notin C
      BY <2>1 DEF FocusEvents
    <3> HIDE DEF G, C
    <3>2. LastIn(Pending', FocusEvents, G) /\ FollowedBy(Pending', C, FocusEvents)
      BY <3>1, <2>1, <1>1, AppendLast
    <3>3. QED
      BY <3>2 DEF FocusOrder, NewEvent, G, C
  <2>2. CASE e \notin FocusEvents
    <3>1. LastIn(Pending, FocusEvents, G) /\ FollowedBy(Pending, C, FocusEvents) /\ e \notin C
      BY <2>2 DEF FocusOrder
    <3> HIDE DEF G, C
    <3>2. LastIn(Pending', FocusEvents, G) /\ FollowedBy(Pending', C, FocusEvents)
      BY <3>1, <2>2, <1>1, AppendOther
    <3>3. QED
      BY <3>2 DEF FocusOrder, NewEvent, G, C
  <2>3. QED
    BY <2>1, <2>2
<1>3. SpecialOrder'
  <2> DEFINE G == {[name |-> "activespecialv2", id |-> shown']}
             C == {NewEvent(shown')}
  <2>1. CASE e \in SpecialEvents
    <3>1. e \in G /\ e \notin C
      BY <2>1 DEF SpecialEvents
    <3> HIDE DEF G, C
    <3>2. LastIn(Pending', SpecialEvents, G) /\ FollowedBy(Pending', C, SpecialEvents)
      BY <3>1, <2>1, <1>1, AppendLast
    <3>3. QED
      BY <3>2 DEF SpecialOrder, NewEvent, G, C
  <2>2. CASE e \notin SpecialEvents
    <3>1. LastIn(Pending, SpecialEvents, G) /\ FollowedBy(Pending, C, SpecialEvents) /\ e \notin C
      BY <2>2 DEF SpecialOrder
    <3> HIDE DEF G, C
    <3>2. LastIn(Pending', SpecialEvents, G) /\ FollowedBy(Pending', C, SpecialEvents)
      BY <3>1, <2>2, <1>1, AppendOther
    <3>3. QED
      BY <3>2 DEF SpecialOrder, NewEvent, G, C
  <2>3. QED
    BY <2>1, <2>2
<1>4. MemberOrder'
  <2> SUFFICES ASSUME NEW w \in Ids PROVE LastIn(Pending', MemberEvents(w), LastEvents(w)')
    BY DEF MemberOrder, MemberEvents
  <2>1. CASE e \in MemberEvents(w)
    BY <2>1, <1>1, AppendLast
  <2>2. CASE e \notin MemberEvents(w)
    <3>1. LastEvents(w)' = LastEvents(w)
      BY <2>2 DEF LastEvents
    <3>2. LastIn(Pending, MemberEvents(w), LastEvents(w))
      BY DEF MemberOrder
    <3>3. LastIn(Pending', MemberEvents(w), LastEvents(w))
      BY <3>2, <2>2, <1>1, AppendOther
    <3>4. QED
      BY <3>1, <3>3
  <2>3. QED
    BY <2>1, <2>2
<1>5. QED
  BY <1>2, <1>3, <1>4

\* What a change of the compositor and its line have to do with each other.
Tells(name, id) ==
  /\ [name |-> name, id |-> id] \in Events
  /\ name = "workspacev2" => id = focused'
  /\ name # "workspacev2" => focused' = focused
  /\ name = "activespecialv2" => id = shown'
  /\ name # "activespecialv2" => shown' = shown
  /\ name = "createworkspacev2" => id \notin exists \cup {focused', shown'}
  /\ name \in MembershipEvents => (id \in exists' <=> name # "destroyworkspacev2")
  /\ \A w \in Ids : name \notin MembershipEvents \/ w # id => (w \in exists' <=> w \in exists)

LEMMA StepTells ==
  ASSUME HyprlandTypeOK, HyprlandStep
  PROVE  \E name, id : Emit(name, id) /\ Tells(name, id)
<1>1. /\ focused \in exists \cap Normal /\ shown \in (exists \cap Special) \cup {None}
      /\ exists \subseteq Ids /\ None \notin Ids
  BY IdsAssumption DEF IdsAssumption, None, HyprlandTypeOK
<1> USE DEF Tells, Events, MembershipEvents
<1>2. ASSUME NEW w \in Ids, CreateWorkspace(w)
      PROVE  Emit("createworkspacev2", w) /\ Tells("createworkspacev2", w)
  BY <1>1, <1>2 DEF CreateWorkspace
<1>3. ASSUME NEW w \in Ids, DestroyWorkspace(w)
      PROVE  Emit("destroyworkspacev2", w) /\ Tells("destroyworkspacev2", w)
  BY <1>1, <1>3 DEF DestroyWorkspace
<1>4. ASSUME NEW w \in Ids, MoveWorkspace(w)
      PROVE  Emit("moveworkspacev2", w) /\ Tells("moveworkspacev2", w)
  BY <1>1, <1>4 DEF MoveWorkspace
<1>5. ASSUME NEW w \in Ids, FocusWorkspace(w)
      PROVE  Emit("workspacev2", w) /\ Tells("workspacev2", w)
  BY <1>1, <1>5 DEF FocusWorkspace
<1>6. ASSUME NEW w \in Ids \cup {None}, ShowSpecial(w)
      PROVE  Emit("activespecialv2", w) /\ Tells("activespecialv2", w)
  BY <1>1, <1>6 DEF ShowSpecial
<1>7. ASSUME NEW name \in OtherLines, OtherLine(name)
      PROVE  Emit(name, None) /\ Tells(name, None)
  BY <1>1, <1>7, OtherLinesAssumption DEF OtherLine, OtherLinesAssumption
<1>8. QED
  BY <1>2, <1>3, <1>4, <1>5, <1>6, <1>7 DEF HyprlandStep

\* Each change of the compositor emits an event that keeps the order.
LEMMA CompositorOrder ==
  ASSUME TypeOK, Order, Compositor
  PROVE  Order'
<1>1. /\ FocusOrder /\ SpecialOrder /\ MemberOrder /\ Connected
      /\ UNCHANGED <<queue, phase>>
      /\ HyprlandTypeOK /\ HyprlandStep
  BY DEF Order, Compositor, listenerVars, listVars, TypeOK
<1>2. PICK name, id : Emit(name, id) /\ Tells(name, id)
  BY <1>1, StepTells
<1> DEFINE e == [name |-> name, id |-> id]
<1>3. e \in Events
  BY <1>2 DEF Tells
<1>4. /\ subscribed => Appended(Pending, Pending', e)
      /\ ~subscribed => Pending' = Pending
      /\ Pending' \in Seq(Events)
      /\ UNCHANGED subscribed
  BY <1>1, <1>2, <1>3, EmitAppends
<1>5. Connected'
  BY <1>1, <1>4 DEF Connected
<1>6. CASE subscribed
  <2>1. /\ e \in FocusEvents => name = "workspacev2"
        /\ e \in SpecialEvents => name = "activespecialv2"
        /\ e \in {NewEvent(focused'), NewEvent(shown')} =>
             name = "createworkspacev2" /\ id \in {focused', shown'}
        /\ \A w \in Ids : e \in MemberEvents(w) <=> name \in MembershipEvents /\ id = w
    BY DEF FocusEvents, SpecialEvents, NewEvent, MemberEvents
  <2>2. /\ name = "workspacev2" => e \in FocusEvents
        /\ name = "activespecialv2" => e \in SpecialEvents
    BY <1>3, OtherLinesAssumption DEF FocusEvents, SpecialEvents, Events, OtherLinesAssumption
  <2>3. e \in FocusEvents => e.id = focused'
    BY <1>2, <2>1 DEF Tells
  <2>4. e \notin FocusEvents => focused' = focused
    BY <1>2, <2>2 DEF Tells
  <2>5. e \in SpecialEvents => e.id = shown'
    BY <1>2, <2>1 DEF Tells
  <2>6. e \notin SpecialEvents => shown' = shown
    BY <1>2, <2>2 DEF Tells
  <2>7. e \notin {NewEvent(focused'), NewEvent(shown')}
    BY <1>2, <2>1 DEF Tells
  <2>8. ASSUME NEW w \in Ids, e \in MemberEvents(w) PROVE e \in LastEvents(w)'
    <3>1. name \in MembershipEvents /\ id = w /\ (w \in exists' <=> name # "destroyworkspacev2")
      BY <1>2, <2>1, <2>8 DEF Tells
    <3>2. QED
      BY <3>1 DEF MembershipEvents, LastEvents
  <2>9. ASSUME NEW w \in Ids, e \notin MemberEvents(w) PROVE w \in exists' <=> w \in exists
    BY <1>2, <2>1, <2>9 DEF Tells
  <2> HIDE DEF e
  <2>10. Appended(Pending, Pending', e) /\ Pending' \in Seq(Events)
    BY <1>4, <1>6
  <2>11. FocusOrder' /\ SpecialOrder' /\ MemberOrder'
    BY <1>1, <2>3, <2>4, <2>5, <2>6, <2>7, <2>8, <2>9, <2>10, EmittedOrder
  <2>12. QED
    BY <1>5, <2>11 DEF Order
<1>7. CASE ~subscribed
  <2>1. Pending' = <<>>
    BY <1>1, <1>4, <1>7 DEF Connected
  <2>2. FocusOrder' /\ SpecialOrder' /\ MemberOrder'
    BY <2>1, EmptyOrder DEF FocusOrder, SpecialOrder, MemberOrder
  <2>3. QED
    BY <1>5, <2>2 DEF Order
<1>8. QED
  BY <1>6, <1>7

\* Every step keeps the order.
LEMMA OrderNext ==
  ASSUME IInv, Order, [Next]_vars
  PROVE  Order'
<1>0. TypeOK /\ FocusOrder /\ SpecialOrder /\ MemberOrder /\ Connected
  BY DEF IInv, Order
<1>1. ASSUME Pending' = Pending, UNCHANGED <<exists, focused, shown>>, Connected'
      PROVE  Order'
  <2>1. \A w : LastEvents(w)' = LastEvents(w)
    BY <1>1 DEF LastEvents
  <2>2. QED
    BY <1>0, <1>1, <2>1 DEF Order, FocusOrder, SpecialOrder, MemberOrder
<1>2. CASE Compositor
  BY <1>0, <1>2, CompositorOrder
<1>3. CASE Worker
  <2>1. ReadLine /\ UNCHANGED <<exists, focused, shown, subscribed, phase>>
    BY <1>3 DEF Worker, ReadLine, listVars
  <2>2. CASE Pending' = Pending
    <3>1. Connected'
      BY <1>0, <2>1, <2>2 DEF Connected
    <3>2. QED
      BY <1>1, <2>1, <2>2, <3>1
  <2>3. CASE /\ Pending' \in Seq(Events)
             /\ \E p \in 1..Len(Pending) :
                  Removed(Pending, Pending', p) /\ Pending[p].name \notin KnownEvents
    <3>1. PICK p \in 1..Len(Pending) :
            Removed(Pending, Pending', p) /\ Pending[p].name \notin KnownEvents
      BY <2>3
    <3>2. Pending # <<>>
      BY <3>1
    <3>3. Connected'
      BY <1>0, <2>1, <3>2 DEF Connected
    <3>4. QED
      BY <1>0, <2>1, <2>3, <3>1, <3>3, TakenOrder DEF Order
  <2>4. QED
    BY <1>0, <2>1, <2>2, <2>3, ReadRemoves
<1>4. CASE ListInitStep
  <2>1. /\ UNCHANGED <<exists, focused, shown, queue, wire>>
        /\ \/ subscribed' = TRUE
           \/ UNCHANGED subscribed /\ phase' \in {"failed", "terminated"}
           \/ UNCHANGED subscribed /\ phase \in {"connected", "listed"}
    BY <1>4 DEF ListInitStep, CreateListener, Subscribe, FetchWorkspaces, FetchActiveWorkspace,
                InitFails, InitThrows, hyprlandVars, listenerVars
  <2>2. Pending' = Pending
    BY <2>1 DEF Pending
  <2>3. Connected'
    BY <1>0, <2>1, <2>2 DEF Connected
  <2>4. QED
    BY <1>1, <2>1, <2>2, <2>3
<1>5. CASE Dispatch
  <2>1. /\ UNCHANGED <<exists, focused, shown, subscribed>> /\ phase = "ready"
        /\ Removed(Pending, Pending', 1) /\ Pending' \in Seq(Events)
    BY <1>0, <1>5, DispatchRemoves DEF Dispatch, hyprlandVars
  <2>2. Connected'
    BY <1>0, <2>1 DEF Connected
  <2>3. QED
    BY <1>0, <2>1, <2>2, TakenOrder DEF Order
<1>6. CASE UNCHANGED vars
  <2>1. /\ UNCHANGED <<exists, focused, shown, subscribed, phase>>
        /\ Pending' = Pending
    BY <1>6 DEF vars, hyprlandVars, listenerVars, listVars, Pending
  <2>2. Connected'
    BY <1>0, <2>1 DEF Connected
  <2>3. QED
    BY <1>1, <2>1, <2>2
<1>7. QED
  BY <1>2, <1>3, <1>4, <1>5, <1>6 DEF Next, Main

\* Events are under way in an order that tells the compositor's state.
THEOREM EventsInOrder == Spec => []Order
<1>1. Init => Order
  <2> SUFFICES ASSUME Init PROVE Order
    OBVIOUS
  <2>1. Pending = <<>> /\ phase = "new"
    BY DEF Init, HyprlandInit, ListenerInit, ListInit, Pending
  <2>2. QED
    BY <2>1, EmptyOrder DEF Order, Connected, FocusOrder, SpecialOrder, MemberOrder
<1>2. IInv /\ Order /\ [Next]_vars => Order'
  BY OrderNext
<1>3. QED
  BY <1>1, <1>2, Inductive, PTL DEF Spec

-----------------------------------------------------------------------------
(* Nothing of a kind is under way.                                         *)

FocusQuiet     == At(Pending, FocusEvents) = {}
SpecialQuiet   == At(Pending, SpecialEvents) = {}
MemberQuiet(w) == At(Pending, MemberEvents(w)) = {}

\* An event is of a kind when it has the name of the kind.
LEMMA KindsOfEvents ==
  ASSUME NEW e \in Events
  PROVE  /\ e.name = "workspacev2" <=> e \in FocusEvents
         /\ e.name = "activespecialv2" <=> e \in SpecialEvents
         /\ \A w : e.name \in MembershipEvents /\ e.id = w <=> e \in MemberEvents(w)
BY OtherLinesAssumption
   DEF OtherLinesAssumption, Events, FocusEvents, SpecialEvents, MemberEvents, MembershipEvents

LEMMA Quiet ==
  ASSUME NEW s \in Seq(Events)
  PROVE  /\ {i \in DOMAIN s : s[i].name \in {"workspacev2"}} = At(s, FocusEvents)
         /\ {i \in DOMAIN s : s[i].name \in {"activespecialv2"}} = At(s, SpecialEvents)
         /\ \A w : (\E i \in {i \in DOMAIN s : s[i].name \in MembershipEvents} : s[i].id = w)
                     <=> At(s, MemberEvents(w)) # {}
<1>1. \A i \in DOMAIN s : s[i] \in Events
  BY LenProperties, ElementOfSeq
<1>2. QED
  BY <1>1, KindsOfEvents DEF At

\* The two ways of saying that nothing of a kind is under way.
LEMMA QuietIs ==
  ASSUME TypeOK
  PROVE  /\ InFlight({"workspacev2"}) = {} <=> FocusQuiet
         /\ InFlight({"activespecialv2"}) = {} <=> SpecialQuiet
         /\ \A w : ~Undecided(w) <=> MemberQuiet(w)
BY PendingSeq, Quiet
   DEF InFlight, Undecided, FocusQuiet, SpecialQuiet, MemberQuiet

\* What is quiet after a change of the compositor was so before, and not what
\* changed.
LEMMA QuietCompositor ==
  ASSUME TypeOK, Compositor, subscribed
  PROVE  /\ FocusQuiet' => FocusQuiet /\ focused' = focused
         /\ SpecialQuiet' => SpecialQuiet /\ shown' = shown
         /\ \A w \in Ids : MemberQuiet(w)' => MemberQuiet(w) /\ (w \in exists' <=> w \in exists)
<1>1. PICK name, id : Emit(name, id) /\ Tells(name, id)
  BY StepTells DEF TypeOK, Compositor
<1> DEFINE e == [name |-> name, id |-> id]
<1>2. e \in Events /\ e.name = name /\ e.id = id /\ UNCHANGED queue
  BY <1>1 DEF Tells, Compositor, listenerVars
<1>3. /\ Appended(Pending, Pending', e)
      /\ Pending \in Seq(Events) /\ Pending' \in Seq(Events)
  BY <1>1, <1>2, EmitAppends, PendingSeq
<1> HIDE DEF e
<1>4. \A E : At(Pending', E) = {} => At(Pending, E) = {} /\ e \notin E
  BY <1>3, AppendOther
<1>5. FocusQuiet' => FocusQuiet /\ focused' = focused
  <2>1. FocusQuiet' => FocusQuiet /\ e \notin FocusEvents
    BY <1>4 DEF FocusQuiet, FocusEvents, Normal
  <2>2. QED
    BY <2>1, <1>1, <1>2, KindsOfEvents DEF Tells
<1>6. SpecialQuiet' => SpecialQuiet /\ shown' = shown
  <2>1. SpecialQuiet' => SpecialQuiet /\ e \notin SpecialEvents
    BY <1>4 DEF SpecialQuiet, SpecialEvents, Special
  <2>2. QED
    BY <2>1, <1>1, <1>2, KindsOfEvents DEF Tells
<1>7. ASSUME NEW w \in Ids, MemberQuiet(w)'
      PROVE  MemberQuiet(w) /\ (w \in exists' <=> w \in exists)
  <2>1. MemberQuiet(w) /\ e \notin MemberEvents(w)
    BY <1>4, <1>7 DEF MemberQuiet, MemberEvents, MembershipEvents
  <2>2. QED
    BY <2>1, <1>1, <1>2, KindsOfEvents DEF Tells
<1>8. QED
  BY <1>5, <1>6, <1>7

\* A line the worker thread drops was of none of the kinds.
LEMMA QuietWorker ==
  ASSUME TypeOK, Worker
  PROVE  /\ FocusQuiet' => FocusQuiet
         /\ SpecialQuiet' => SpecialQuiet
         /\ \A w \in Ids : MemberQuiet(w)' => MemberQuiet(w)
<1>1. CASE Pending' = Pending
  BY <1>1 DEF FocusQuiet, SpecialQuiet, MemberQuiet
<1>2. CASE /\ Pending' \in Seq(Events)
           /\ \E p \in 1..Len(Pending) :
                Removed(Pending, Pending', p) /\ Pending[p].name \notin KnownEvents
  <2>1. PICK p \in 1..Len(Pending) :
          Removed(Pending, Pending', p) /\ Pending[p].name \notin KnownEvents
    BY <1>2
  <2>2. \A E : Pending[p] \notin E /\ At(Pending', E) = {} => At(Pending, E) = {}
    <3> SUFFICES ASSUME NEW E, Pending[p] \notin E, At(Pending', E) = {} PROVE At(Pending, E) = {}
      OBVIOUS
    <3>1. At(Pending, E) \subseteq {p}
      BY <1>2, <2>1, PendingSeq, RemoveKeeps
    <3>2. p \notin At(Pending, E)
      BY DEF At
    <3>3. QED
      BY <3>1, <3>2
  <2>3. Pending[p] \notin FocusEvents /\ Pending[p] \notin SpecialEvents
    BY <2>1 DEF FocusEvents, SpecialEvents, KnownEvents
  <2>4. \A w : Pending[p] \notin MemberEvents(w)
    BY <2>1 DEF MemberEvents, MembershipEvents, KnownEvents
  <2>5. QED
    BY <2>2, <2>3, <2>4 DEF FocusQuiet, SpecialQuiet, MemberQuiet
<1>3. QED
  BY <1>1, <1>2, ReadRemoves DEF Worker

\* If a handler's event was the last of its kind, it told the truth.
LEMMA QuietDispatch ==
  ASSUME TypeOK, Order, Dispatch
  PROVE  /\ FocusQuiet' /\ Head(queue).name = "workspacev2" => Head(queue).id = focused
         /\ FocusQuiet' /\ Head(queue).name # "workspacev2" => FocusQuiet
         /\ FocusQuiet' => Head(queue) # NewEvent(focused)
         /\ SpecialQuiet' /\ Head(queue).name = "activespecialv2" => Head(queue).id = shown
         /\ SpecialQuiet' /\ Head(queue).name # "activespecialv2" => SpecialQuiet
         /\ SpecialQuiet' => Head(queue) # NewEvent(shown)
         /\ \A w \in Ids :
              /\ MemberQuiet(w)' /\ Head(queue) \in MemberEvents(w) => Head(queue) \in LastEvents(w)
              /\ MemberQuiet(w)' /\ Head(queue) \notin MemberEvents(w) => MemberQuiet(w)
         /\ Head(queue) \in Events
<1>1. /\ Removed(Pending, Pending', 1) /\ Pending[1] = Head(queue)
      /\ Pending' \in Seq(Events) /\ Pending \in Seq(Events)
  BY DispatchRemoves, PendingSeq
<1> DEFINE e == Head(queue)
<1>2. 1 \in DOMAIN Pending /\ e = Pending[1] /\ e \in Events
  BY <1>1, LenProperties, ElementOfSeq DEF Removed
<1> HIDE DEF e
<1>3. ASSUME NEW E, At(Pending', E) = {}
      PROVE  /\ e \notin E => At(Pending, E) = {}
             /\ \A G : e \in E /\ LastIn(Pending, E, G) => e \in G
             /\ \A C : FollowedBy(Pending, C, E) => e \notin C
  <2>1. At(Pending, E) \subseteq {1}
    BY <1>1, <1>3, RemoveKeeps
  <2>2. QED
    BY <2>1, <1>2 DEF At, LastIn, FollowedBy
<1>4. FocusOrder /\ SpecialOrder /\ MemberOrder
  BY DEF Order
<1>5. ASSUME FocusQuiet'
      PROVE  /\ e.name = "workspacev2" => e.id = focused
             /\ e.name # "workspacev2" => FocusQuiet
             /\ e # NewEvent(focused)
  <2>1. At(Pending', FocusEvents) = {}
    BY <1>5 DEF FocusQuiet, FocusEvents, Normal
  <2>2. /\ e \notin FocusEvents => FocusQuiet
        /\ e \in FocusEvents => e = [name |-> "workspacev2", id |-> focused]
        /\ e # NewEvent(focused)
    BY <2>1, <1>3, <1>4 DEF FocusOrder, FocusQuiet
  <2>3. QED
    BY <2>2, <1>2, KindsOfEvents
<1>6. ASSUME SpecialQuiet'
      PROVE  /\ e.name = "activespecialv2" => e.id = shown
             /\ e.name # "activespecialv2" => SpecialQuiet
             /\ e # NewEvent(shown)
  <2>1. At(Pending', SpecialEvents) = {}
    BY <1>6 DEF SpecialQuiet, SpecialEvents, Special
  <2>2. /\ e \notin SpecialEvents => SpecialQuiet
        /\ e \in SpecialEvents => e = [name |-> "activespecialv2", id |-> shown]
        /\ e # NewEvent(shown)
    BY <2>1, <1>3, <1>4 DEF SpecialOrder, SpecialQuiet
  <2>3. QED
    BY <2>2, <1>2, KindsOfEvents
<1>7. ASSUME NEW w \in Ids, MemberQuiet(w)'
      PROVE  /\ e \in MemberEvents(w) => e \in LastEvents(w)
             /\ e \notin MemberEvents(w) => MemberQuiet(w)
  <2>1. At(Pending', MemberEvents(w)) = {}
    BY <1>7 DEF MemberQuiet, MemberEvents, MembershipEvents
  <2>2. QED
    BY <2>1, <1>3, <1>4 DEF MemberOrder, MemberQuiet
<1>8. QED
  BY <1>2, <1>5, <1>6, <1>7 DEF e

-----------------------------------------------------------------------------
(* The list.                                                               *)

\* A normal workspace is never remembered as the special one, nor the other
\* way round, and the handlers remember nothing before the first of them ran.
ListMembers ==
  /\ m_active_id \in Normal \cup {None}
  /\ m_active_special_id \in Special \cup {None}
  /\ phase \in {"new", "connected", "listed"} => m_active_special_id = None /\ dropped = {}
  /\ DOMAIN m_items \cap dropped = {}

FocusShown ==
  phase = "ready" /\ FocusQuiet =>
    /\ m_active_id = focused
    /\ focused \in DOMAIN m_items => m_items[focused]

SpecialShown ==
  phase = "ready" /\ SpecialQuiet =>
    /\ \A w \in DOMAIN m_items \cap Special : m_items[w] => w = shown
    /\ m_active_special_id # None /\ shown \in DOMAIN m_items => m_items[shown]

MembersRight ==
  \A w \in Ids : MemberQuiet(w) =>
    /\ phase = "ready" => (w \in DOMAIN m_items <=> w \in exists \ dropped)
    /\ phase = "listed" => (w \in snapshot <=> w \in exists)

Caught == ListMembers /\ FocusShown /\ SpecialShown /\ MembersRight

\* The special workspaces are told from the others by their ids.
LEMMA Kinds == Normal \cap Special = {} /\ None \notin Normal \cup Special
<1>1. \A w \in Ids : w \in Int /\ w # 0
  BY IdsAssumption DEF IdsAssumption
<1>2. QED
  BY <1>1 DEF Normal, Special, None

\* The other two parties change what is under way and leave the list alone.
LEMMA CaughtOthers ==
  ASSUME IInv, Order, Caught, Compositor \/ Worker \/ UNCHANGED vars
  PROVE  Caught'
<1>0. TypeOK /\ Connected
  BY DEF IInv, Order
<1>1. UNCHANGED <<phase, snapshot, m_items, m_active_id, m_active_special_id, dropped>>
  BY DEF Compositor, Worker, vars, listVars, memberVars, activeVars
<1>2. phase \in {"listed", "ready"} =>
        /\ FocusQuiet' => FocusQuiet /\ focused' = focused
        /\ SpecialQuiet' => SpecialQuiet /\ shown' = shown
        /\ \A w \in Ids : MemberQuiet(w)' => MemberQuiet(w) /\ (w \in exists' <=> w \in exists)
  <2>1. CASE Compositor
    BY <2>1, <1>0, QuietCompositor DEF Connected
  <2>2. CASE Worker
    <3>1. UNCHANGED <<exists, focused, shown>>
      BY <2>2 DEF Worker, ReadLine
    <3>2. QED
      BY <2>2, <3>1, <1>0, QuietWorker
  <2>3. CASE UNCHANGED vars
    BY <2>3 DEF vars, hyprlandVars, listenerVars, FocusQuiet, SpecialQuiet, MemberQuiet, Pending
  <2>4. QED
    BY <2>1, <2>2, <2>3
<1>3. ListMembers'
  BY <1>1 DEF Caught, ListMembers, Normal, Special
<1>4. FocusShown'
  BY <1>1, <1>2 DEF Caught, FocusShown
<1>5. SpecialShown'
  BY <1>1, <1>2 DEF Caught, SpecialShown, Special
<1>6. MembersRight'
  BY <1>1, <1>2 DEF Caught, MembersRight
<1>7. QED
  BY <1>3, <1>4, <1>5, <1>6 DEF Caught

\* vfunc_init: the snapshot and the active workspace are as the compositor is,
\* and what changes meanwhile is under way.
LEMMA CaughtInit ==
  ASSUME IInv, Caught, ListInitStep
  PROVE  Caught'
<1>0. /\ focused \in exists \cap Normal /\ None \notin Ids
      /\ ListMembers /\ MembersRight
  BY IdsAssumption DEF IInv, TypeOK, HyprlandTypeOK, IdsAssumption, None, Caught
<1>1. /\ UNCHANGED <<exists, focused, shown, wire, queue, m_active_special_id, dropped>>
      /\ phase \in {"new", "connected", "listed"}
  BY DEF ListInitStep, CreateListener, Subscribe, FetchWorkspaces, FetchActiveWorkspace,
         InitFails, InitThrows, hyprlandVars, listenerVars, memberVars, activeVars
<1>2. \A w : MemberQuiet(w)' <=> MemberQuiet(w)
  BY <1>1 DEF MemberQuiet, Pending
<1>3. CASE FetchActiveWorkspace
  <2>1. /\ phase = "listed" /\ phase' = "ready"
        /\ m_active_id' = focused
        /\ m_items' = [w \in snapshot |-> w = focused]
        /\ DOMAIN m_items' = snapshot
    BY <1>3 DEF FetchActiveWorkspace
  <2>2. m_active_special_id = None /\ dropped = {}
    BY <1>0, <2>1 DEF ListMembers
  <2>3. ListMembers'
    BY <1>0, <1>1, <2>1, <2>2 DEF ListMembers, Normal, Special
  <2>4. FocusShown'
    BY <1>1, <2>1 DEF FocusShown
  <2>5. SpecialShown'
    <3>1. ASSUME NEW w \in DOMAIN m_items' \cap Special PROVE ~m_items'[w]
      BY <1>0, <2>1, Kinds
    <3>2. QED
      BY <1>1, <2>2, <3>1 DEF SpecialShown, Special
  <2>6. MembersRight'
    BY <1>0, <1>1, <1>2, <2>1, <2>2 DEF MembersRight
  <2>7. QED
    BY <2>3, <2>4, <2>5, <2>6 DEF Caught
<1>4. CASE CreateListener \/ FetchWorkspaces \/ InitFails \/ InitThrows
  <2>1. /\ UNCHANGED <<m_items, m_active_id>>
        /\ phase' # "ready"
        /\ phase' = "listed" => snapshot' = exists
    BY <1>4 DEF CreateListener, FetchWorkspaces, InitFails, InitThrows, memberVars, activeVars
  <2>2. ListMembers'
    BY <1>0, <1>1, <2>1 DEF ListMembers, Normal, Special
  <2>3. FocusShown' /\ SpecialShown'
    BY <2>1 DEF FocusShown, SpecialShown
  <2>4. MembersRight'
    BY <1>1, <2>1 DEF MembersRight
  <2>5. QED
    BY <2>2, <2>3, <2>4 DEF Caught
<1>5. QED
  BY <1>3, <1>4 DEF ListInitStep

\* What a handler may assume of its event.
Fresh(e) ==
  /\ FocusQuiet' /\ e.name = "workspacev2" => e.id = focused
  /\ FocusQuiet' /\ e.name # "workspacev2" => FocusQuiet
  /\ FocusQuiet' => e # NewEvent(focused)
  /\ SpecialQuiet' /\ e.name = "activespecialv2" => e.id = shown
  /\ SpecialQuiet' /\ e.name # "activespecialv2" => SpecialQuiet
  /\ SpecialQuiet' => e # NewEvent(shown)
  /\ \A w \in Ids :
       /\ MemberQuiet(w)' /\ e \in MemberEvents(w) => e \in LastEvents(w)
       /\ MemberQuiet(w)' /\ e \notin MemberEvents(w) => MemberQuiet(w)
  /\ e \in Events

\* What every handler leaves alone.
Kept ==
  /\ phase = "ready"
  /\ UNCHANGED <<exists, focused, shown, snapshot>>

\* A handler that keeps the membership.
LEMMA KeepsMembers ==
  ASSUME MembersRight, Kept, NEW e, Fresh(e), e.name \notin MembershipEvents,
         DOMAIN m_items' = DOMAIN m_items, dropped' = dropped, phase' = phase
  PROVE  MembersRight'
<1>1. \A w \in Ids : e \notin MemberEvents(w)
  BY DEF MemberEvents
<1>2. QED
  BY <1>1 DEF Kept, Fresh, MembersRight

LEMMA CaughtFocus ==
  ASSUME IInv, Caught, Kept, NEW e, Fresh(e), e.name = "workspacev2", OnWorkspaceChange(e.id)
  PROVE  Caught'
<1> DEFINE id == e.id
           off == SetIsActive(m_items, m_active_id, FALSE)
<1>0. /\ id \in Normal /\ ListMembers /\ SpecialShown /\ MembersRight
      /\ UNCHANGED <<phase, m_active_special_id, dropped>>
  BY EventIds DEF Fresh, Caught, OnWorkspaceChange
<1>1. /\ DOMAIN off = DOMAIN m_items
      /\ \A v \in DOMAIN m_items : off[v] = IF v = m_active_id THEN FALSE ELSE m_items[v]
  BY DEF SetIsActive
<1>2. m_items' = SetIsActive(off, id, TRUE) /\ m_active_id' = id
  BY DEF OnWorkspaceChange
<1> HIDE DEF off
<1>3. /\ DOMAIN m_items' = DOMAIN m_items
      /\ \A v \in DOMAIN m_items : m_items'[v] = IF v = id THEN TRUE ELSE off[v]
  BY <1>1, <1>2 DEF SetIsActive
<1>4. \A v \in DOMAIN m_items : v \in Special => m_items'[v] = m_items[v]
  BY <1>0, <1>1, <1>3, Kinds DEF ListMembers
<1>5. ListMembers'
  BY <1>0, <1>2, <1>3 DEF ListMembers, Normal, Special, Kept
<1>6. FocusShown'
  BY <1>2, <1>3 DEF FocusShown, Fresh, Kept
<1>7. SpecialShown'
  <2>1. shown \in Special \cup {None} /\ None \notin Ids /\ DOMAIN m_items \subseteq Ids
    BY IdsAssumption DEF IInv, TypeOK, HyprlandTypeOK, ListTypeOK, IdsAssumption, None
  <2>2. QED
    BY <1>0, <1>3, <1>4, <2>1 DEF SpecialShown, Fresh, Kept, Special
<1>8. MembersRight'
  BY <1>0, <1>3, KeepsMembers DEF MembershipEvents
<1>9. QED
  BY <1>5, <1>6, <1>7, <1>8 DEF Caught

LEMMA CaughtSpecial ==
  ASSUME IInv, HighlightIsOwned', Caught, Kept, NEW e, Fresh(e), e.name = "activespecialv2",
         OnActiveSpecial(e.id)
  PROVE  Caught'
<1> DEFINE id == e.id
           off == SetIsActive(m_items, m_active_special_id, FALSE)
<1>0. /\ id \in Special \cup {None} /\ ListMembers /\ FocusShown /\ MembersRight
      /\ HighlightIsOwned
      /\ UNCHANGED <<phase, m_active_id, dropped>>
      /\ focused \in Normal /\ DOMAIN m_items \subseteq Ids /\ None \notin Ids
  BY EventIds, IdsAssumption
     DEF Fresh, Caught, OnActiveSpecial, IInv, TypeOK, HyprlandTypeOK, ListTypeOK, IdsAssumption, None
<1>1. /\ DOMAIN off = DOMAIN m_items
      /\ \A v \in DOMAIN m_items :
           off[v] = IF v = m_active_special_id THEN FALSE ELSE m_items[v]
  BY DEF SetIsActive
<1>2. /\ m_items' = IF id = None THEN off ELSE SetIsActive(off, id, TRUE)
      /\ m_active_special_id' = IF id = None THEN m_active_special_id ELSE id
  BY DEF OnActiveSpecial
<1> HIDE DEF off
<1>3. /\ DOMAIN m_items' = DOMAIN m_items
      /\ \A v \in DOMAIN m_items :
           m_items'[v] = IF id # None /\ v = id THEN TRUE ELSE off[v]
  <2>1. CASE id = None
    BY <2>1, <1>1, <1>2
  <2>2. CASE id # None
    <3>1. m_items' = [v \in DOMAIN off |-> IF v = id THEN TRUE ELSE off[v]]
      BY <2>2, <1>2 DEF SetIsActive
    <3>2. QED
      BY <3>1, <2>2, <1>1
  <2>3. QED
    BY <2>1, <2>2
<1>4. \A v \in DOMAIN m_items : v \in Normal => m_items'[v] = m_items[v]
  BY <1>0, <1>1, <1>3, Kinds DEF ListMembers
<1>5. ListMembers'
  BY <1>0, <1>2, <1>3 DEF ListMembers, Normal, Special, Kept
<1>6. FocusShown'
  BY <1>0, <1>3, <1>4 DEF FocusShown, Fresh, Kept
<1>7. SpecialShown'
  <2> SUFFICES ASSUME SpecialQuiet'
               PROVE  /\ \A w \in DOMAIN m_items' \cap Special : m_items'[w] => w = shown'
                      /\ m_active_special_id' # None /\ shown' \in DOMAIN m_items'
                           => m_items'[shown']
    BY DEF SpecialShown, Special
  <2>1. id = shown /\ shown' = shown
    BY DEF Fresh, Kept
  <2>2. \A w \in DOMAIN m_items' \cap Special : m_items'[w] => w = m_active_special_id'
    BY DEF HighlightIsOwned, IsSpecial, Special
  <2>3. CASE id = None
    <3>1. \A w \in DOMAIN m_items' \cap Special : ~m_items'[w]
      BY <2>2, <2>3, <1>1, <1>2, <1>3
    <3>2. shown' \notin DOMAIN m_items'
      BY <2>1, <2>3, <1>0, <1>3
    <3>3. QED
      BY <3>1, <3>2
  <2>4. CASE id # None
    BY <2>1, <2>2, <2>4, <1>2, <1>3
  <2>5. QED
    BY <2>3, <2>4
<1>8. MembersRight'
  BY <1>0, <1>3, KeepsMembers DEF MembershipEvents
<1>9. QED
  BY <1>5, <1>6, <1>7, <1>8 DEF Caught

\* A handler that decides about its own workspace.
LEMMA Decides ==
  ASSUME Caught, Kept, NEW e, Fresh(e), e.name \in MembershipEvents,
         UNCHANGED <<m_active_id, m_active_special_id>>,
         phase' \in {"ready", "assert_failed"},
         DOMAIN m_items' \subseteq DOMAIN m_items \cup {e.id},
         \A w \in DOMAIN m_items' : m_items'[w] = IF w \in DOMAIN m_items THEN m_items[w] ELSE FALSE,
         \A w : w # e.id => /\ w \in DOMAIN m_items' <=> w \in DOMAIN m_items
                            /\ w \in dropped' <=> w \in dropped,
         e.name = "createworkspacev2" \/ e.id \notin DOMAIN m_items',
         e.id \notin DOMAIN m_items' \cap dropped',
         e \in LastEvents(e.id) => (e.id \in DOMAIN m_items' <=> e.id \in exists \ dropped')
  PROVE  Caught'
<1>0. /\ ListMembers /\ FocusShown /\ SpecialShown /\ MembersRight
      /\ e.id \in Ids /\ e \in Events
  BY EventIds DEF Caught, Fresh, MembershipEvents
<1>1. \A w : w # e.id => e \notin MemberEvents(w)
  BY DEF MemberEvents
<1>2. e \in MemberEvents(e.id)
  BY <1>0, KindsOfEvents
<1>3. e.name = "createworkspacev2" => e = NewEvent(e.id)
  BY <1>0, OtherLinesAssumption DEF Events, NewEvent, OtherLinesAssumption
<1>4. e.name \notin {"workspacev2", "activespecialv2"}
  BY DEF MembershipEvents
<1>5. ListMembers'
  BY <1>0 DEF ListMembers, Normal, Special
<1>6. FocusShown'
  <2> SUFFICES ASSUME phase' = "ready", FocusQuiet'
               PROVE  /\ m_active_id' = focused'
                      /\ focused' \in DOMAIN m_items' => m_items'[focused']
    BY DEF FocusShown
  <2>1. FocusQuiet /\ focused' = focused /\ e # NewEvent(focused)
    BY <1>4 DEF Fresh, Kept
  <2>2. focused \in DOMAIN m_items' => focused # e.id
    BY <2>1, <1>3
  <2>3. m_active_id = focused /\ (focused \in DOMAIN m_items => m_items[focused])
    BY <2>1, <1>0 DEF FocusShown, Kept
  <2>4. focused \in DOMAIN m_items' => m_items'[focused]
    BY <2>2, <2>3
  <2>5. QED
    BY <2>1, <2>3, <2>4
<1>7. SpecialShown'
  <2> SUFFICES ASSUME phase' = "ready", SpecialQuiet'
               PROVE  /\ \A w \in DOMAIN m_items' \cap Special : m_items'[w] => w = shown'
                      /\ m_active_special_id' # None /\ shown' \in DOMAIN m_items'
                           => m_items'[shown']
    BY DEF SpecialShown, Special
  <2>1. SpecialQuiet /\ shown' = shown /\ e # NewEvent(shown)
    BY <1>4 DEF Fresh, Kept
  <2>2. shown \in DOMAIN m_items' => shown # e.id
    BY <2>1, <1>3
  <2>3. QED
    BY <2>1, <2>2, <1>0 DEF SpecialShown, Kept
<1>8. MembersRight'
  <2> SUFFICES ASSUME NEW w \in Ids, MemberQuiet(w)', phase' = "ready"
               PROVE  w \in DOMAIN m_items' <=> w \in exists' \ dropped'
    BY DEF MembersRight, MemberQuiet, MemberEvents, MembershipEvents
  <2>1. CASE w = e.id
    BY <2>1, <1>2 DEF Fresh, Kept
  <2>2. CASE w # e.id
    BY <2>2, <1>0, <1>1 DEF Fresh, Kept, MembersRight
  <2>3. QED
    BY <2>1, <2>2
<1>9. QED
  BY <1>5, <1>6, <1>7, <1>8 DEF Caught

\* A new workspace: added if it still exists, given up if the command fails.
LEMMA CaughtNew ==
  ASSUME Caught, Kept, NEW e, Fresh(e), e.name = "createworkspacev2",
         OnNewWorkspace(e.id) \/ OnNewWorkspaceFails(e.id)
  PROVE  Caught'
<1> DEFINE id == e.id
<1>0. /\ e.name \in MembershipEvents /\ ListMembers /\ phase = "ready"
      /\ e \in LastEvents(id) => id \in exists
      /\ UNCHANGED <<m_active_id, m_active_special_id>>
  BY DEF MembershipEvents, Caught, Kept, LastEvents, OnNewWorkspace, OnNewWorkspaceFails, activeVars
<1>1. CASE OnNewWorkspace(id) /\ id \in exists
  <2>1. /\ m_items' = [v \in DOMAIN m_items \cup {id} |->
                         IF v \in DOMAIN m_items THEN m_items[v] ELSE FALSE]
        /\ dropped' = dropped \ {id}
        /\ phase' \in {phase, "assert_failed"}
    BY <1>1 DEF OnNewWorkspace, AddItem
  <2>2. DOMAIN m_items' = DOMAIN m_items \cup {id}
    BY <2>1
  <2>3. QED
    BY <1>0, <1>1, <2>1, <2>2, Decides
<1>2. CASE OnNewWorkspace(id) /\ id \notin exists
  <2>1. UNCHANGED <<phase, m_items, dropped>>
    BY <1>2 DEF OnNewWorkspace, memberVars
  <2>2. e.id \notin DOMAIN m_items' \cap dropped'
    BY <1>0, <2>1 DEF ListMembers
  <2>3. e \notin LastEvents(e.id)
    BY <1>0, <1>2
  <2>4. QED
    BY <1>0, <2>1, <2>2, <2>3, Decides
<1>3. CASE OnNewWorkspaceFails(id)
  <2>1. /\ UNCHANGED <<phase, m_items>>
        /\ dropped' = IF id \in exists \ DOMAIN m_items THEN dropped \cup {id} ELSE dropped
    BY <1>3 DEF OnNewWorkspaceFails
  <2>2. e.id \notin DOMAIN m_items' \cap dropped'
    BY <1>0, <2>1 DEF ListMembers
  <2>3. e \in LastEvents(id) => (id \in DOMAIN m_items' <=> id \in exists \ dropped')
    BY <1>0, <2>1 DEF ListMembers
  <2>4. QED
    BY <1>0, <2>1, <2>2, <2>3, Decides
<1>4. QED
  BY <1>1, <1>2, <1>3

\* A workspace that was destroyed or went to another monitor.
LEMMA CaughtRemove ==
  ASSUME Caught, Kept, NEW e, Fresh(e), e.name \in {"destroyworkspacev2", "moveworkspacev2"},
         OnRemoveWorkspace(e.name, e.id)
  PROVE  Caught'
<1> DEFINE id == e.id
<1>0. /\ e.name \in MembershipEvents /\ ListMembers /\ phase = "ready"
      /\ e.name = "destroyworkspacev2" /\ e \in LastEvents(id) => id \notin exists
      /\ UNCHANGED <<phase, m_active_id, m_active_special_id>>
      /\ dropped' = IF e.name = "moveworkspacev2" THEN dropped \cup {id} ELSE dropped \ {id}
  BY DEF MembershipEvents, Caught, Kept, LastEvents, OnRemoveWorkspace, activeVars
<1>1. /\ DOMAIN m_items' = DOMAIN m_items \ {id}
      /\ \A w \in DOMAIN m_items' : m_items'[w] = m_items[w]
  <2>1. CASE id \in DOMAIN m_items
    <3>1. m_items' = [v \in DOMAIN m_items \ {id} |-> m_items[v]]
      BY <2>1 DEF OnRemoveWorkspace, EraseItem
    <3>2. QED
      BY <3>1
  <2>2. CASE id \notin DOMAIN m_items
    <3>1. m_items' = m_items
      BY <2>2 DEF OnRemoveWorkspace
    <3>2. QED
      BY <2>2, <3>1
  <2>3. QED
    BY <2>1, <2>2
<1>2. QED
  BY <1>0, <1>1, Decides

\* An event without a handler.
LEMMA CaughtOther ==
  ASSUME Caught, Kept, NEW e, Fresh(e), e.name = "openwindow", OnOtherEvent
  PROVE  Caught'
<1>1. /\ UNCHANGED <<phase, m_items, dropped, m_active_id, m_active_special_id>>
      /\ ListMembers /\ FocusShown /\ SpecialShown /\ MembersRight
  BY DEF OnOtherEvent, memberVars, activeVars, Caught
<1>2. ListMembers'
  BY <1>1 DEF ListMembers, Normal, Special
<1>3. FocusShown' /\ SpecialShown'
  BY <1>1 DEF FocusShown, SpecialShown, Fresh, Kept, Special
<1>4. MembersRight'
  BY <1>1, KeepsMembers DEF MembershipEvents
<1>5. QED
  BY <1>2, <1>3, <1>4 DEF Caught

\* An answer that does not parse ends the process.
LEMMA CaughtThrow ==
  ASSUME Caught, Kept, OnNewWorkspaceThrows
  PROVE  Caught'
<1>1. /\ phase' = "terminated" /\ ListMembers
      /\ UNCHANGED <<m_items, dropped, m_active_id, m_active_special_id>>
  BY DEF OnNewWorkspaceThrows, memberVars, activeVars, Caught
<1>2. ListMembers'
  BY <1>1 DEF ListMembers, Normal, Special
<1>3. FocusShown' /\ SpecialShown' /\ MembersRight'
  BY <1>1 DEF FocusShown, SpecialShown, MembersRight
<1>4. QED
  BY <1>2, <1>3 DEF Caught

\* One iteration of the main loop.
LEMMA CaughtDispatch ==
  ASSUME IInv, IInv', Order, Caught, Dispatch
  PROVE  Caught'
<1> DEFINE e == Head(queue)
<1>1. Fresh(e)
  BY QuietDispatch DEF IInv, Fresh
<1>2. Kept /\ HighlightIsOwned'
  BY DEF Dispatch, Kept, hyprlandVars, IInv
<1>3. \/ e.name = "workspacev2"        /\ OnWorkspaceChange(e.id)
      \/ e.name = "createworkspacev2"  /\ OnNewWorkspace(e.id)
      \/ e.name = "createworkspacev2"  /\ OnNewWorkspaceFails(e.id)
      \/ e.name = "createworkspacev2"  /\ OnNewWorkspaceThrows
      \/ e.name = "destroyworkspacev2" /\ OnRemoveWorkspace(e.name, e.id)
      \/ e.name = "moveworkspacev2"    /\ OnRemoveWorkspace(e.name, e.id)
      \/ e.name = "activespecialv2"    /\ OnActiveSpecial(e.id)
      \/ e.name = "openwindow"         /\ OnOtherEvent
  BY Zenon DEF Dispatch
<1> HIDE DEF e
<1>4. QED
  BY <1>1, <1>2, <1>3, CaughtFocus, CaughtSpecial, CaughtNew, CaughtRemove, CaughtOther, CaughtThrow

-----------------------------------------------------------------------------
(* The theorems                                                            *)

LEMMA CaughtNext ==
  ASSUME IInv, IInv', Order, Caught, [Next]_vars
  PROVE  Caught'
BY CaughtOthers, CaughtInit, CaughtDispatch DEF Next, Main

\* The list is what the events and the answers so far make it.
THEOREM CaughtUp == Spec => []Caught
<1>1. Init => Caught
  <2> SUFFICES ASSUME Init PROVE Caught
    OBVIOUS
  <2>1. /\ phase = "new" /\ m_items = [w \in {} |-> FALSE] /\ dropped = {}
        /\ m_active_id = None /\ m_active_special_id = None
    BY DEF Init, ListInit
  <2>2. QED
    BY <2>1 DEF Caught, ListMembers, FocusShown, SpecialShown, MembersRight
<1>2. IInv /\ IInv' /\ Order /\ Caught /\ [Next]_vars => Caught'
  BY CaughtNext
<1>3. QED
  BY <1>1, <1>2, Inductive, EventsInOrder, PTL DEF Spec

\* When no switch of the focus is under way, the focused workspace is the
\* active one and its item, if there is one, is highlighted.
THEOREM FocusCorrect == Spec => []FocusIsHighlighted
<1>1. IInv /\ Caught => FocusIsHighlighted
  BY QuietIs DEF IInv, Caught, FocusShown, FocusIsHighlighted
<1>2. QED
  BY <1>1, Inductive, CaughtUp, PTL

\* When no switch of the special workspace is under way, no other than the one
\* on display is highlighted, and that one is.
THEOREM SpecialCorrect == Spec => []SpecialIsHighlighted
<1>1. IInv /\ Caught => SpecialIsHighlighted
  BY QuietIs DEF IInv, Caught, SpecialShown, SpecialIsHighlighted
<1>2. QED
  BY <1>1, Inductive, CaughtUp, PTL

\* A workspace about which nothing is under way is in the list exactly when it
\* exists and no handler gave it up.
THEOREM MembersCorrect == Spec => []DecidedItemsAreRight
<1>1. IInv /\ Caught => DecidedItemsAreRight
  BY QuietIs DEF IInv, Caught, MembersRight, DecidedItemsAreRight
<1>2. QED
  BY <1>1, Inductive, CaughtUp, PTL

-----------------------------------------------------------------------------
(* What is announced twice.                                                *)
(*                                                                         *)
(* An item can only be announced again by the event of a new workspace     *)
(* that comes before every other event about it.  Between two such events  *)
(* is the one that takes the item away, so there is one for a workspace at *)
(* most, and only the snapshot puts an item in front of it.                *)

\* The first event of E is one of C.
FirstIn(s, E, C) == \E i \in At(s, C) : \A j \in At(s, E) : i <= j

\* Between two events of C is one of D.
Between(s, C, D) ==
  \A i, j \in At(s, C) : i < j => \E k \in At(s, D) : i < k /\ k < j

\* An event at the end is the first of its kind only when it is the only one,
\* and is separated from the ones before when these are followed by the
\* separating kind.
LEMMA AppendBetween ==
  ASSUME NEW S, NEW s \in Seq(S), NEW t \in Seq(S), NEW e, Appended(s, t, e),
         NEW E, NEW C, NEW D, C \subseteq E
  PROVE  /\ FirstIn(t, E, C) => FirstIn(s, E, C) \/ (e \in C /\ At(s, E) = {})
         /\ Between(s, C, D) /\ (e \in C => FollowedBy(s, C, D)) => Between(t, C, D)
<1>1. /\ DOMAIN s = 1..Len(s) /\ DOMAIN t = 1..(Len(s) + 1) /\ Len(s) \in Nat
  BY LenProperties DEF Appended
<1>2. /\ \A i \in 1..Len(s) : i \in 1..(Len(s) + 1) /\ t[i] = s[i]
      /\ t[Len(s) + 1] = e
      /\ \A i \in 1..(Len(s) + 1) : i = Len(s) + 1 \/ i \in 1..Len(s)
  BY <1>1 DEF Appended
<1>3. \A X : /\ At(s, X) \subseteq At(t, X)
             /\ \A i \in At(s, X) : i \in 1..Len(s)
             /\ \A i \in At(t, X) : i \in At(s, X) \/ (i = Len(s) + 1 /\ e \in X)
  BY <1>1, <1>2 DEF At
<1>4. FirstIn(t, E, C) => FirstIn(s, E, C) \/ (e \in C /\ At(s, E) = {})
  <2> SUFFICES ASSUME NEW i \in At(t, C), \A j \in At(t, E) : i <= j
               PROVE  FirstIn(s, E, C) \/ (e \in C /\ At(s, E) = {})
    BY DEF FirstIn
  <2>1. CASE i \in At(s, C)
    BY <2>1, <1>3 DEF FirstIn
  <2>2. CASE i = Len(s) + 1 /\ e \in C
    <3>1. \A j \in At(s, E) : j \in 1..Len(s) /\ Len(s) + 1 <= j
      BY <2>2, <1>3
    <3>2. At(s, E) = {}
      BY <3>1, <1>1
    <3>3. QED
      BY <2>2, <3>2
  <2>3. QED
    BY <2>1, <2>2, <1>3
<1>5. Between(s, C, D) /\ (e \in C => FollowedBy(s, C, D)) => Between(t, C, D)
  <2> SUFFICES ASSUME Between(s, C, D), e \in C => FollowedBy(s, C, D),
                      NEW i \in At(t, C), NEW j \in At(t, C), i < j
               PROVE  \E k \in At(t, D) : i < k /\ k < j
    BY DEF Between
  <2>1. i \in At(s, C)
    <3>1. j \in 1..(Len(s) + 1) /\ i \in 1..(Len(s) + 1) /\ i # Len(s) + 1
      BY <1>1 DEF At
    <3>2. QED
      BY <3>1, <1>3
  <2>2. CASE j \in At(s, C)
    BY <2>1, <2>2, <1>3 DEF Between
  <2>3. CASE j = Len(s) + 1 /\ e \in C
    <3>1. PICK k \in At(s, D) : i < k
      BY <2>1, <2>3 DEF FollowedBy
    <3>2. k \in At(t, D) /\ k < j
      BY <1>1, <1>3, <2>3
    <3>3. QED
      BY <3>1, <3>2
  <2>4. QED
    BY <2>2, <2>3, <1>3
<1>6. QED
  BY <1>4, <1>5

\* When an event goes that is of another kind, the first stays the first; when
\* the first of C goes, the next event is of another kind.
LEMMA RemoveBetween ==
  ASSUME NEW S, NEW s \in Seq(S), NEW t \in Seq(S), NEW p, Removed(s, t, p),
         NEW E, NEW C, NEW D, C \subseteq E, D \subseteq E, p = 1 \/ s[p] \notin E
  PROVE  /\ s[p] \notin E /\ FirstIn(t, E, C) => FirstIn(s, E, C)
         /\ p = 1 /\ s[1] \in C => FirstIn(s, E, C)
         /\ p = 1 /\ s[1] \in C /\ Between(s, C, D) => ~FirstIn(t, E, C)
         /\ Between(s, C, D) => Between(t, C, D)
<1> DEFINE old(i) == IF i < p THEN i ELSE i + 1
           new(i) == IF i < p THEN i ELSE i - 1
<1>1. /\ DOMAIN s = 1..Len(s) /\ DOMAIN t = 1..(Len(s) - 1) /\ Len(s) \in Nat
      /\ p \in 1..Len(s)
  BY LenProperties DEF Removed
<1>2. \A i \in DOMAIN t : old(i) \in DOMAIN s /\ old(i) # p /\ t[i] = s[old(i)]
  BY <1>1 DEF Removed
<1>3. \A j \in DOMAIN s : j # p => new(j) \in DOMAIN t /\ old(new(j)) = j
  BY <1>1
<1>4. \A j \in DOMAIN s : j # p => t[new(j)] = s[j]
  BY <1>2, <1>3
<1>5. \A i \in DOMAIN t, j \in DOMAIN s :
        j # p => (old(i) < j <=> i < new(j)) /\ (j < old(i) <=> new(j) < i)
  BY <1>1
<1>6. \A i, j \in DOMAIN t : i < j => old(i) < old(j)
  BY <1>1
<1>7. \A i \in DOMAIN t : p = 1 => 1 < old(i)
  BY <1>1
<1>8. \A X : /\ At(s, X) \subseteq DOMAIN s /\ At(t, X) \subseteq DOMAIN t
             /\ \A i \in At(t, X) : old(i) \in At(s, X)
             /\ \A j \in At(s, X) : j # p => new(j) \in At(t, X)
  BY <1>2, <1>3, <1>4 DEF At
<1>9. \A i \in DOMAIN t, j \in DOMAIN s : i \in Nat /\ j \in Nat /\ old(i) \in Nat /\ new(j) \in Int
  BY <1>1
<1> HIDE DEF old, new
<1>10. s[p] \notin E /\ FirstIn(t, E, C) => FirstIn(s, E, C)
  <2> SUFFICES ASSUME s[p] \notin E, NEW i \in At(t, C), \A j \in At(t, E) : i <= j
               PROVE  FirstIn(s, E, C)
    BY DEF FirstIn
  <2>1. ASSUME NEW j \in At(s, E) PROVE old(i) <= j
    <3>1. j # p /\ new(j) \in At(t, E) /\ i <= new(j)
      BY <1>8 DEF At
    <3>2. ~(j < old(i))
      BY <3>1, <1>5, <1>8, <1>9
    <3>3. QED
      BY <3>2, <1>8, <1>9
  <2>2. QED
    BY <2>1, <1>8 DEF FirstIn
<1>11. p = 1 /\ s[1] \in C => FirstIn(s, E, C)
  <2> SUFFICES ASSUME p = 1, s[1] \in C PROVE FirstIn(s, E, C)
    OBVIOUS
  <2>1. 1 \in At(s, C) /\ \A j \in At(s, E) : 1 <= j
    BY <1>1 DEF At
  <2>2. QED
    BY <2>1 DEF FirstIn
<1>12. p = 1 /\ s[1] \in C /\ Between(s, C, D) => ~FirstIn(t, E, C)
  <2> SUFFICES ASSUME p = 1, s[1] \in C, Between(s, C, D),
                      NEW i \in At(t, C), \A j \in At(t, E) : i <= j
               PROVE  FALSE
    BY DEF FirstIn
  <2>1. 1 \in At(s, C) /\ old(i) \in At(s, C) /\ 1 < old(i)
    BY <1>1, <1>7, <1>8 DEF At
  <2>2. PICK k \in At(s, D) : 1 < k /\ k < old(i)
    BY <2>1 DEF Between
  <2>3. k # p /\ new(k) \in At(t, D) /\ new(k) < i
    BY <2>2, <1>5, <1>8
  <2>4. new(k) \in At(t, E)
    BY <2>3 DEF At
  <2>5. QED
    BY <2>3, <2>4, <1>8, <1>9
<1>13. Between(s, C, D) => Between(t, C, D)
  <2> SUFFICES ASSUME Between(s, C, D), NEW i \in At(t, C), NEW j \in At(t, C), i < j
               PROVE  \E k \in At(t, D) : i < k /\ k < j
    BY DEF Between
  <2>1. old(i) \in At(s, C) /\ old(j) \in At(s, C) /\ old(i) < old(j)
    BY <1>6, <1>8
  <2>2. PICK k \in At(s, D) : old(i) < k /\ k < old(j)
    BY <2>1 DEF Between
  <2>3. k # p
    <3>1. CASE p = 1
      BY <3>1, <2>2, <1>7, <1>8, <1>9
    <3>2. CASE s[p] \notin E
      BY <3>2 DEF At
    <3>3. QED
      BY <3>1, <3>2
  <2>4. new(k) \in At(t, D) /\ i < new(k) /\ new(k) < j
    BY <2>2, <2>3, <1>5, <1>8
  <2>5. QED
    BY <2>4
<1>14. QED
  BY <1>10, <1>11, <1>12, <1>13

GoneEvent(w) == [name |-> "destroyworkspacev2", id |-> w]

\* New and gone take turns.
Turn(w) ==
  /\ Between(Pending, {NewEvent(w)}, {GoneEvent(w)})
  /\ w \notin exists => FollowedBy(Pending, {NewEvent(w)}, {GoneEvent(w)})

Turns == \A w \in Ids : Turn(w)

LEMMA MemberKinds ==
  ASSUME NEW w
  PROVE  {NewEvent(w)} \subseteq MemberEvents(w) /\ {GoneEvent(w)} \subseteq MemberEvents(w)
BY DEF NewEvent, GoneEvent, MemberEvents, MembershipEvents

\* The compositor makes a workspace only after the last one of its id is gone.
LEMMA TurnsCompositor ==
  ASSUME TypeOK, Order, Turns, Compositor
  PROVE  Turns'
<1>1. PICK name, id : Emit(name, id) /\ Tells(name, id)
  BY StepTells DEF TypeOK, Compositor
<1> DEFINE e == [name |-> name, id |-> id]
<1>2. e \in Events /\ UNCHANGED queue
  BY <1>1 DEF Tells, Compositor, listenerVars
<1>3. /\ subscribed => Appended(Pending, Pending', e)
      /\ ~subscribed => Pending' = Pending
      /\ Pending \in Seq(Events) /\ Pending' \in Seq(Events)
  BY <1>1, <1>2, EmitAppends, PendingSeq
<1>4. CASE ~subscribed
  <2>1. Pending' = <<>>
    BY <1>3, <1>4 DEF Order, Connected
  <2>2. \A X : At(Pending', X) = {}
    BY <2>1 DEF At
  <2>3. QED
    BY <2>2 DEF Turns, Turn, Between, FollowedBy
<1>5. ASSUME subscribed, NEW w \in Ids PROVE Turn(w)'
  <2> DEFINE C == {NewEvent(w)}
             D == {GoneEvent(w)}
  <2>1. /\ e \in C <=> name = "createworkspacev2" /\ id = w
        /\ e \in D <=> name = "destroyworkspacev2" /\ id = w
        /\ C \subseteq MemberEvents(w)
    BY MemberKinds DEF NewEvent, GoneEvent
  <2>2. e \in C => w \notin exists /\ w \in exists'
    BY <2>1, <1>1 DEF Tells, MembershipEvents
  <2>3. w \notin exists' => e \in D \/ (e \notin C /\ w \notin exists)
    <3>1. CASE name \in MembershipEvents /\ id = w
      BY <3>1, <2>1, <1>1 DEF Tells
    <3>2. CASE name \notin MembershipEvents \/ id # w
      BY <3>2, <2>1, <1>1 DEF Tells, MembershipEvents
    <3>3. QED
      BY <3>1, <3>2
  <2>4. e \in D => e \notin C
    BY <2>1
  <2>5. Between(Pending, C, D) /\ (w \notin exists => FollowedBy(Pending, C, D))
    BY DEF Turns, Turn
  <2>6. Appended(Pending, Pending', e)
    BY <1>3, <1>5
  <2> HIDE DEF e, C, D
  <2>7. Between(Pending', C, D)
    BY <1>3, <2>1, <2>2, <2>5, <2>6, AppendBetween
  <2>8. w \notin exists' => FollowedBy(Pending', C, D)
    <3>1. CASE e \in D
      BY <3>1, <2>4, <1>3, <2>6, AppendLast
    <3>2. CASE e \notin C /\ w \notin exists
      BY <3>2, <2>5, <1>3, <2>6, AppendOther
    <3>3. QED
      BY <3>1, <3>2, <2>3
  <2>9. QED
    BY <2>7, <2>8 DEF Turn, C, D, NewEvent, GoneEvent
<1>6. QED
  BY <1>4, <1>5 DEF Turns

\* Taking an event out keeps the turns, when it is the first one or of no
\* membership.
LEMMA TurnsTaken ==
  ASSUME TypeOK, Turns, UNCHANGED exists, Pending' \in Seq(Events), NEW p,
         Removed(Pending, Pending', p), p = 1 \/ Pending[p].name \notin KnownEvents
  PROVE  Turns'
<1> SUFFICES ASSUME NEW w \in Ids PROVE Turn(w)'
  BY DEF Turns
<1>1. p = 1 \/ Pending[p] \notin MemberEvents(w)
  BY DEF MemberEvents, MembershipEvents, KnownEvents
<1> DEFINE C == {NewEvent(w)}
           D == {GoneEvent(w)}
<1>2. /\ C \subseteq MemberEvents(w) /\ D \subseteq MemberEvents(w)
      /\ Between(Pending, C, D) /\ (w \notin exists => FollowedBy(Pending, C, D))
      /\ Pending \in Seq(Events)
  BY MemberKinds, PendingSeq DEF Turns, Turn
<1>3. p = 1 \/ Pending[p] \notin D
  BY <1>1, <1>2
<1> HIDE DEF C, D
<1>4. Between(Pending', C, D)
  BY <1>1, <1>2, RemoveBetween
<1>5. w \notin exists' => FollowedBy(Pending', C, D)
  BY <1>2, <1>3, RemoveKeeps
<1>6. QED
  BY <1>4, <1>5 DEF Turn, C, D, NewEvent, GoneEvent

\* Every step keeps the turns.
LEMMA TurnsNext ==
  ASSUME IInv, Order, Turns, [Next]_vars
  PROVE  Turns'
<1>0. TypeOK
  BY DEF IInv
<1>1. ASSUME Pending' = Pending, UNCHANGED exists PROVE Turns'
  BY <1>1 DEF Turns, Turn, NewEvent, GoneEvent
<1>2. CASE Compositor
  BY <1>0, <1>2, TurnsCompositor
<1>3. CASE Worker
  <2>1. ReadLine /\ UNCHANGED exists
    BY <1>3 DEF Worker, ReadLine
  <2>2. QED
    BY <1>0, <1>1, <2>1, ReadRemoves, TurnsTaken
<1>4. CASE ListInitStep
  <2>1. UNCHANGED <<exists, queue, wire>>
    BY <1>4 DEF ListInitStep, CreateListener, Subscribe, FetchWorkspaces, FetchActiveWorkspace,
                InitFails, InitThrows, hyprlandVars, listenerVars
  <2>2. QED
    BY <1>1, <2>1 DEF Pending
<1>5. CASE Dispatch
  BY <1>0, <1>5, DispatchRemoves, TurnsTaken DEF Dispatch, hyprlandVars
<1>6. CASE UNCHANGED vars
  BY <1>1, <1>6 DEF vars, hyprlandVars, listenerVars, Pending
<1>7. QED
  BY <1>2, <1>3, <1>4, <1>5, <1>6 DEF Next, Main

\* In what is under way, a workspace is created again only after it is gone.
THEOREM NewAndGoneTakeTurns == Spec => []Turns
<1>1. Init => Turns
  <2> SUFFICES ASSUME Init PROVE Turns
    OBVIOUS
  <2>1. Pending = <<>>
    BY DEF Init, HyprlandInit, ListenerInit, Pending
  <2>2. \A X : At(Pending, X) = {}
    BY <2>1 DEF At
  <2>3. QED
    BY <2>2 DEF Turns, Turn, Between, FollowedBy
<1>2. IInv /\ Order /\ Turns /\ [Next]_vars => Turns'
  BY TurnsNext
<1>3. QED
  BY <1>1, <1>2, Inductive, EventsInOrder, PTL DEF Spec

\* The items that will be announced again if their workspace is still there.
Twice == {w \in DOMAIN m_items : FirstIn(Pending, MemberEvents(w), {NewEvent(w)})}

Bounded ==
  /\ phase \in {"new", "connected", "listed"} => extraRows = 0
  /\ extraRows + Cardinality(Twice) <= Cardinality(snapshot)
  /\ extraSpecial + Cardinality(Twice \cap Special) <= Cardinality(snapshot \cap Special)

\* The compositor adds no item to them: what it emits about an item comes after
\* an older event, or about a workspace that exists.
LEMMA TwiceCompositor ==
  ASSUME IInv, Order, Caught, Compositor
  PROVE  Twice' \subseteq Twice
<1>1. UNCHANGED <<m_items, phase, queue>> /\ phase \notin {"failed", "assert_failed", "terminated"}
  BY DEF Compositor, listVars, memberVars, listenerVars, Stopped
<1> SUFFICES ASSUME NEW w \in Twice' PROVE w \in Twice
  OBVIOUS
<1>2. w \in DOMAIN m_items /\ w \in Ids /\ FirstIn(Pending, MemberEvents(w), {NewEvent(w)})'
  BY <1>1 DEF Twice, IInv, TypeOK, ListTypeOK
<1>3. phase = "ready" /\ subscribed /\ MembersRight
  <2>1. phase \in Phases /\ DOMAIN m_items # {}
    BY <1>2 DEF IInv, TypeOK, ListTypeOK
  <2>2. phase \notin {"new", "connected", "listed"}
    BY <2>1 DEF IInv, Untouched
  <2>3. QED
    BY <1>1, <2>1, <2>2 DEF Phases, Order, Connected, Caught
<1>4. PICK name, id : Emit(name, id) /\ Tells(name, id)
  BY StepTells DEF IInv, TypeOK, Compositor
<1> DEFINE e == [name |-> name, id |-> id]
<1>5. e \in Events
  BY <1>4 DEF Tells
<1>6. /\ Appended(Pending, Pending', e)
      /\ Pending \in Seq(Events) /\ Pending' \in Seq(Events)
  BY <1>1, <1>3, <1>4, <1>5, EmitAppends, PendingSeq DEF IInv
<1>7. FirstIn(Pending', MemberEvents(w), {NewEvent(w)})
  BY <1>2 DEF MemberEvents, MembershipEvents, NewEvent
<1>8. e = NewEvent(w) => w \notin exists
  BY <1>4 DEF Tells, NewEvent
<1> HIDE DEF e
<1>9. CASE FirstIn(Pending, MemberEvents(w), {NewEvent(w)})
  BY <1>2, <1>9 DEF Twice
<1>10. CASE e = NewEvent(w) /\ MemberQuiet(w)
  BY <1>2, <1>3, <1>8, <1>10 DEF MembersRight
<1>11. QED
  BY <1>6, <1>7, <1>9, <1>10, MemberKinds, AppendBetween DEF MemberQuiet

\* Nor does the worker thread.
LEMMA TwiceWorker ==
  ASSUME TypeOK, Worker
  PROVE  Twice' \subseteq Twice
<1>1. UNCHANGED m_items
  BY DEF Worker, listVars, memberVars
<1> SUFFICES ASSUME NEW w \in DOMAIN m_items, FirstIn(Pending', MemberEvents(w), {NewEvent(w)})
             PROVE  FirstIn(Pending, MemberEvents(w), {NewEvent(w)})
  BY <1>1 DEF Twice, MemberEvents, MembershipEvents, NewEvent
<1>2. CASE Pending' = Pending
  BY <1>2
<1>3. CASE /\ Pending' \in Seq(Events)
           /\ \E p \in 1..Len(Pending) :
                Removed(Pending, Pending', p) /\ Pending[p].name \notin KnownEvents
  <2>1. PICK p \in 1..Len(Pending) :
          Removed(Pending, Pending', p) /\ Pending[p].name \notin KnownEvents
    BY <1>3
  <2>2. Pending[p] \notin MemberEvents(w)
    BY <2>1 DEF MemberEvents, MembershipEvents, KnownEvents
  <2>3. QED
    BY <1>3, <2>1, <2>2, PendingSeq, MemberKinds, RemoveBetween
<1>4. QED
  BY <1>2, <1>3, ReadRemoves DEF Worker

\* What a handler does to the membership and the counts, by its event.
LEMMA HandlerCounts ==
  ASSUME TypeOK, Dispatch
  PROVE  LET e == Head(queue)
             again == e.name = "createworkspacev2" /\ e.id \in DOMAIN m_items
         IN  /\ e \in Events
             /\ phase = "ready" /\ UNCHANGED snapshot
             /\ \/ UNCHANGED <<extraRows, extraSpecial>>
                \/ /\ again
                   /\ extraRows' \in {extraRows, extraRows + 1}
                   /\ extraSpecial' = extraSpecial + (IF e.id \in Special THEN 1 ELSE 0)
             /\ \A w \in DOMAIN m_items' : w \in DOMAIN m_items \/ e = NewEvent(w)
             /\ e.name \in {"destroyworkspacev2", "moveworkspacev2"} => e.id \notin DOMAIN m_items'
<1> DEFINE e == Head(queue)
<1>0. e \in Events /\ phase = "ready" /\ UNCHANGED snapshot
  BY DEF Dispatch, TypeOK, ListenerTypeOK
<1>1. \/ e.name = "workspacev2"        /\ OnWorkspaceChange(e.id)
      \/ e.name = "createworkspacev2"  /\ OnNewWorkspace(e.id)
      \/ e.name = "createworkspacev2"  /\ OnNewWorkspaceFails(e.id)
      \/ e.name = "createworkspacev2"  /\ OnNewWorkspaceThrows
      \/ e.name = "destroyworkspacev2" /\ OnRemoveWorkspace(e.name, e.id)
      \/ e.name = "moveworkspacev2"    /\ OnRemoveWorkspace(e.name, e.id)
      \/ e.name = "activespecialv2"    /\ OnActiveSpecial(e.id)
      \/ e.name = "openwindow"         /\ OnOtherEvent
  BY Zenon DEF Dispatch
<1>2. e.name = "createworkspacev2" => e = NewEvent(e.id) /\ e.id \in Ids
  BY <1>0, EventIds, OtherLinesAssumption DEF Events, NewEvent, OtherLinesAssumption
<1> HIDE DEF e
<1>3. ASSUME DOMAIN m_items' = DOMAIN m_items, UNCHANGED <<extraRows, extraSpecial>>,
             e.name \notin {"destroyworkspacev2", "moveworkspacev2"}
      PROVE  /\ UNCHANGED <<extraRows, extraSpecial>>
             /\ \A w \in DOMAIN m_items' : w \in DOMAIN m_items \/ e = NewEvent(w)
             /\ e.name \in {"destroyworkspacev2", "moveworkspacev2"} => e.id \notin DOMAIN m_items'
  BY <1>3
<1>4. CASE e.name = "workspacev2" /\ OnWorkspaceChange(e.id)
  <2>1. DOMAIN m_items' = DOMAIN m_items /\ UNCHANGED <<extraRows, extraSpecial>>
    BY <1>4 DEF OnWorkspaceChange, SetIsActive
  <2>2. QED
    BY <1>0, <1>3, <1>4, <2>1 DEF e
<1>5. CASE e.name = "activespecialv2" /\ OnActiveSpecial(e.id)
  <2>1. DOMAIN m_items' = DOMAIN m_items /\ UNCHANGED <<extraRows, extraSpecial>>
    BY <1>5 DEF OnActiveSpecial, SetIsActive
  <2>2. QED
    BY <1>0, <1>3, <1>5, <2>1 DEF e
<1>6. CASE /\ e.name \in {"createworkspacev2", "openwindow"}
           /\ OnNewWorkspaceFails(e.id) \/ OnNewWorkspaceThrows \/ OnOtherEvent
  <2>1. UNCHANGED <<m_items, extraRows, extraSpecial>>
    BY <1>6 DEF OnNewWorkspaceFails, OnNewWorkspaceThrows, OnOtherEvent, memberVars
  <2>2. QED
    BY <1>0, <1>3, <1>6, <2>1 DEF e
<1>7. CASE e.name = "createworkspacev2" /\ OnNewWorkspace(e.id)
  <2>1. CASE e.id \notin exists
    <3>1. UNCHANGED <<m_items, extraRows, extraSpecial>>
      BY <1>7, <2>1 DEF OnNewWorkspace, memberVars
    <3>2. QED
      BY <1>0, <1>3, <1>7, <3>1 DEF e
  <2>2. CASE e.id \in exists
    <3>1. AddItem(e.id)
      BY <1>7, <2>2 DEF OnNewWorkspace
    <3>2. DOMAIN m_items' = DOMAIN m_items \cup {e.id}
      BY <3>1 DEF AddItem
    <3>3. \A w \in DOMAIN m_items' : w \in DOMAIN m_items \/ e = NewEvent(w)
      BY <1>2, <1>7, <3>2
    <3>4. CASE e.id \notin DOMAIN m_items
      <4>1. UNCHANGED <<extraRows, extraSpecial>>
        BY <3>1, <3>4 DEF AddItem
      <4>2. QED
        BY <1>0, <1>7, <3>3, <4>1 DEF e
    <3>5. CASE e.id \in DOMAIN m_items
      <4>1. /\ extraRows' \in {extraRows, extraRows + 1}
            /\ extraSpecial' = IF IsSpecial(e.id) THEN extraSpecial + 1 ELSE extraSpecial
        BY <3>1, <3>5 DEF AddItem
      <4>2. IsSpecial(e.id) <=> e.id \in Special
        BY <1>2, <1>7 DEF IsSpecial, Special
      <4>3. extraSpecial' = extraSpecial + (IF e.id \in Special THEN 1 ELSE 0)
        BY <4>1, <4>2 DEF TypeOK, ListTypeOK
      <4>4. QED
        BY <1>0, <1>7, <3>3, <3>5, <4>1, <4>3 DEF e
    <3>6. QED
      BY <3>4, <3>5
  <2>3. QED
    BY <2>1, <2>2
<1>8. CASE e.name \in {"destroyworkspacev2", "moveworkspacev2"} /\ OnRemoveWorkspace(e.name, e.id)
  <2>1. DOMAIN m_items' = DOMAIN m_items \ {e.id} /\ UNCHANGED <<extraRows, extraSpecial>>
    <3>1. CASE e.id \in DOMAIN m_items
      BY <1>8, <3>1 DEF OnRemoveWorkspace, EraseItem
    <3>2. CASE e.id \notin DOMAIN m_items
      BY <1>8, <3>2 DEF OnRemoveWorkspace
    <3>3. QED
      BY <3>1, <3>2
  <2>2. QED
    BY <1>0, <2>1 DEF e
<1>9. QED
  BY <1>1, <1>4, <1>5, <1>6, <1>7, <1>8

\* A handler takes away what was announced again.
LEMMA TwiceDispatch ==
  ASSUME TypeOK, Turns, Dispatch
  PROVE  /\ Twice' \subseteq Twice
         /\ Head(queue).name = "createworkspacev2" /\ Head(queue).id \in DOMAIN m_items
              => Head(queue).id \in Twice \ Twice'
<1> DEFINE e == Head(queue)
<1>1. /\ e \in Events
      /\ \A w \in DOMAIN m_items' : w \in DOMAIN m_items \/ e = NewEvent(w)
      /\ e.name \in {"destroyworkspacev2", "moveworkspacev2"} => e.id \notin DOMAIN m_items'
  BY HandlerCounts
<1>2. /\ Removed(Pending, Pending', 1) /\ Pending[1] = e
      /\ Pending' \in Seq(Events) /\ Pending \in Seq(Events)
  BY DispatchRemoves, PendingSeq
<1>3. /\ \A w : e \in MemberEvents(w) <=> e.name \in MembershipEvents /\ e.id = w
      /\ e.name = "createworkspacev2" => e = NewEvent(e.id) /\ e.id \in Ids
  BY <1>1, KindsOfEvents, EventIds, OtherLinesAssumption DEF Events, NewEvent, OtherLinesAssumption
<1> HIDE DEF e
<1>4. \A w : Twice' \subseteq DOMAIN m_items'
             /\ (w \in Twice' => FirstIn(Pending', MemberEvents(w), {NewEvent(w)}))
  BY DEF Twice, MemberEvents, MembershipEvents, NewEvent
<1>5. ASSUME e.name = "createworkspacev2"
      PROVE  /\ FirstIn(Pending, MemberEvents(e.id), {NewEvent(e.id)})
             /\ e.id \notin Twice'
  <2>1. Between(Pending, {NewEvent(e.id)}, {GoneEvent(e.id)}) /\ Pending[1] = NewEvent(e.id)
    BY <1>2, <1>3, <1>5 DEF Turns, Turn
  <2>2. /\ FirstIn(Pending, MemberEvents(e.id), {NewEvent(e.id)})
        /\ ~FirstIn(Pending', MemberEvents(e.id), {NewEvent(e.id)})
    <3> DEFINE E == MemberEvents(e.id)
               C == {NewEvent(e.id)}
               D == {GoneEvent(e.id)}
    <3>1. C \subseteq E /\ D \subseteq E /\ Pending[1] \in C /\ Between(Pending, C, D)
      BY <2>1, MemberKinds
    <3> HIDE DEF C, D, E
    <3>2. FirstIn(Pending, E, C) /\ ~FirstIn(Pending', E, C)
      BY <3>1, <1>2, RemoveBetween
    <3>3. QED
      BY <3>2 DEF C, E
  <2>3. QED
    BY <2>2, <1>4
<1>6. ASSUME NEW w \in Twice' PROVE w \in Twice
  <2>1. e \notin MemberEvents(w)
    <3>1. CASE e.name = "createworkspacev2"
      BY <3>1, <1>3, <1>5
    <3>2. CASE e.name # "createworkspacev2"
      BY <3>2, <1>1, <1>3, <1>4 DEF MembershipEvents
    <3>3. QED
      BY <3>1, <3>2
  <2>2. FirstIn(Pending, MemberEvents(w), {NewEvent(w)})
    <3>1. Pending[1] \notin MemberEvents(w) /\ FirstIn(Pending', MemberEvents(w), {NewEvent(w)})
      BY <2>1, <1>2, <1>4
    <3>2. QED
      BY <3>1, <1>2, MemberKinds, RemoveBetween
  <2>3. w \in DOMAIN m_items
    BY <2>1, <1>1, <1>4, MemberKinds
  <2>4. QED
    BY <2>2, <2>3 DEF Twice
<1>7. QED
  BY <1>5, <1>6 DEF Twice, e

\* A set that loses an element loses it from its number.
LEMMA Fewer ==
  ASSUME NEW S, NEW T, IsFiniteSet(S), T \subseteq S
  PROVE  /\ Cardinality(S) \in Nat /\ Cardinality(T) \in Nat
         /\ Cardinality(T) <= Cardinality(S)
         /\ \A x \in S \ T : Cardinality(T) + 1 <= Cardinality(S)
<1>1. IsFiniteSet(T) /\ Cardinality(S) \in Nat /\ Cardinality(T) \in Nat
      /\ Cardinality(T) <= Cardinality(S)
  BY FS_Subset, FS_CardinalityType
<1>2. ASSUME NEW x \in S \ T PROVE Cardinality(T) + 1 <= Cardinality(S)
  <2>1. T \subseteq S \ {x} /\ IsFiniteSet(S \ {x})
    BY FS_Subset
  <2>2. Cardinality(T) <= Cardinality(S \ {x}) /\ Cardinality(S \ {x}) \in Nat
    BY <2>1, FS_Subset, FS_CardinalityType
  <2>3. Cardinality(S \ {x}) = Cardinality(S) - 1
    BY FS_RemoveElement
  <2>4. QED
    BY <1>1, <2>2, <2>3
<1>3. QED
  BY <1>1, <1>2

LEMMA TwiceFinite ==
  ASSUME TypeOK
  PROVE  /\ IsFiniteSet(Twice) /\ IsFiniteSet(Twice \cap Special)
         /\ IsFiniteSet(snapshot) /\ IsFiniteSet(snapshot \cap Special)
<1>1. Twice \subseteq Ids /\ snapshot \subseteq Ids
  BY DEF Twice, TypeOK, ListTypeOK
<1>2. QED
  BY <1>1, IdsAssumption, FS_Subset DEF IdsAssumption

\* Every step keeps the bound.
LEMMA BoundedNext ==
  ASSUME IInv, IInv', Order, Caught, Turns, Bounded, [Next]_vars
  PROVE  Bounded'
<1>0. /\ TypeOK /\ TypeOK'
      /\ extraRows \in Nat /\ extraSpecial \in Nat
      /\ Special' = Special
  BY DEF IInv, TypeOK, ListTypeOK, Special
<1>1. ASSUME Twice' \subseteq Twice, UNCHANGED <<snapshot, extraRows, extraSpecial>>,
             phase' \in {"new", "connected", "listed"} => phase \in {"new", "connected", "listed"}
      PROVE  Bounded'
  <2>1. /\ Cardinality(Twice) \in Nat /\ Cardinality(Twice') \in Nat
        /\ Cardinality(Twice') <= Cardinality(Twice)
    BY <1>0, <1>1, TwiceFinite, Fewer
  <2>2. Twice' \cap Special \subseteq Twice \cap Special
    BY <1>1
  <2>3. /\ Cardinality(Twice \cap Special) \in Nat /\ Cardinality(Twice' \cap Special) \in Nat
        /\ Cardinality(Twice' \cap Special) <= Cardinality(Twice \cap Special)
    BY <1>0, <2>2, TwiceFinite, Fewer
  <2>4. Cardinality(snapshot) \in Nat /\ Cardinality(snapshot \cap Special) \in Nat
    BY <1>0, TwiceFinite, Fewer
  <2>5. extraRows' + Cardinality(Twice') <= Cardinality(snapshot')
    BY <1>0, <1>1, <2>1, <2>4 DEF Bounded
  <2>6. extraSpecial' + Cardinality(Twice' \cap Special') <= Cardinality(snapshot' \cap Special')
    BY <1>0, <1>1, <2>3, <2>4 DEF Bounded
  <2>7. QED
    BY <1>1, <2>5, <2>6 DEF Bounded
<1>2. CASE Compositor
  <2>1. UNCHANGED <<phase, snapshot, extraRows, extraSpecial>>
    BY <1>2 DEF Compositor, listVars, memberVars
  <2>2. QED
    BY <1>1, <1>2, <2>1, TwiceCompositor
<1>3. CASE Worker
  <2>1. UNCHANGED <<phase, snapshot, extraRows, extraSpecial>>
    BY <1>3 DEF Worker, listVars, memberVars
  <2>2. QED
    BY <1>0, <1>1, <1>3, <2>1, TwiceWorker
<1>4. CASE UNCHANGED vars
  <2>1. UNCHANGED <<phase, snapshot, m_items, extraRows, extraSpecial>> /\ Pending' = Pending
    BY <1>4 DEF vars, hyprlandVars, listenerVars, listVars, memberVars, Pending
  <2>2. Twice' \subseteq Twice
    BY <2>1 DEF Twice, MemberEvents, MembershipEvents, NewEvent
  <2>3. QED
    BY <1>1, <2>1, <2>2
<1>5. CASE ListInitStep
  <2>1. /\ phase \in {"new", "connected", "listed"}
        /\ UNCHANGED <<extraRows, extraSpecial>>
        /\ DOMAIN m_items' = {} \/ (DOMAIN m_items' = snapshot /\ UNCHANGED snapshot)
    <3>1. CASE FetchActiveWorkspace
      BY <3>1 DEF FetchActiveWorkspace
    <3>2. CASE CreateListener \/ FetchWorkspaces \/ InitFails \/ InitThrows
      <4>1. phase \in {"new", "connected", "listed"} /\ UNCHANGED memberVars
        BY <3>2 DEF CreateListener, FetchWorkspaces, InitFails, InitThrows
      <4>2. DOMAIN m_items = {}
        BY <4>1 DEF IInv, Untouched
      <4>3. QED
        BY <4>1, <4>2 DEF memberVars
    <3>3. QED
      BY <1>5, <3>1, <3>2 DEF ListInitStep
  <2>2. extraRows = 0 /\ extraSpecial = 0
    BY <2>1 DEF Bounded, IInv, Untouched
  <2>3. Twice' \subseteq snapshot'
    BY <2>1 DEF Twice
  <2>4. Twice' \cap Special \subseteq snapshot' \cap Special
    BY <2>3
  <2>0. IsFiniteSet(snapshot') /\ IsFiniteSet(snapshot' \cap Special)
    <3>1. snapshot' \subseteq Ids
      BY <1>0 DEF TypeOK, ListTypeOK
    <3>2. QED
      BY <3>1, IdsAssumption, FS_Subset DEF IdsAssumption
  <2>5. /\ Cardinality(Twice') \in Nat /\ Cardinality(snapshot') \in Nat
        /\ Cardinality(Twice') <= Cardinality(snapshot')
    BY <2>0, <2>3, Fewer
  <2>6. /\ Cardinality(Twice' \cap Special) \in Nat /\ Cardinality(snapshot' \cap Special) \in Nat
        /\ Cardinality(Twice' \cap Special) <= Cardinality(snapshot' \cap Special)
    BY <2>0, <2>4, Fewer
  <2>7. QED
    BY <1>0, <2>1, <2>2, <2>5, <2>6 DEF Bounded
<1>6. CASE Dispatch
  <2> DEFINE e == Head(queue)
  <2>1. /\ Twice' \subseteq Twice
        /\ e.name = "createworkspacev2" /\ e.id \in DOMAIN m_items => e.id \in Twice \ Twice'
    BY <1>0, <1>6, TwiceDispatch
  <2>2. /\ phase = "ready" /\ UNCHANGED snapshot
        /\ \/ UNCHANGED <<extraRows, extraSpecial>>
           \/ /\ e.name = "createworkspacev2" /\ e.id \in DOMAIN m_items
              /\ extraRows' \in {extraRows, extraRows + 1}
              /\ extraSpecial' = extraSpecial + (IF e.id \in Special THEN 1 ELSE 0)
    BY <1>0, <1>6, HandlerCounts
  <2> HIDE DEF e
  <2>3. phase' \notin {"new", "connected", "listed"}
    <3>1. phase' \in {"ready", "assert_failed", "terminated"}
      BY <1>6, <2>2 DEF Dispatch, OnWorkspaceChange, OnNewWorkspace, AddItem, OnNewWorkspaceFails,
                        OnNewWorkspaceThrows, OnRemoveWorkspace, OnActiveSpecial, OnOtherEvent
    <3>2. QED
      BY <3>1
  <2>4. CASE UNCHANGED <<extraRows, extraSpecial>>
    BY <1>1, <2>1, <2>2, <2>3, <2>4
  <2>5. CASE /\ e.name = "createworkspacev2" /\ e.id \in DOMAIN m_items
             /\ extraRows' \in {extraRows, extraRows + 1}
             /\ extraSpecial' = extraSpecial + (IF e.id \in Special THEN 1 ELSE 0)
    <3>1. e.id \in Twice \ Twice'
      BY <2>1, <2>5
    <3>2. /\ Cardinality(Twice) \in Nat /\ Cardinality(Twice') \in Nat
          /\ Cardinality(Twice') + 1 <= Cardinality(Twice)
      BY <1>0, <2>1, <3>1, TwiceFinite, Fewer
    <3>3. Twice' \cap Special \subseteq Twice \cap Special
      BY <2>1
    <3>4. /\ Cardinality(Twice \cap Special) \in Nat /\ Cardinality(Twice' \cap Special) \in Nat
          /\ Cardinality(Twice' \cap Special) <= Cardinality(Twice \cap Special)
      BY <1>0, <3>3, TwiceFinite, Fewer
    <3>5. e.id \in Special => Cardinality(Twice' \cap Special) + 1 <= Cardinality(Twice \cap Special)
      <4>1. e.id \in Special => e.id \in (Twice \cap Special) \ (Twice' \cap Special)
        BY <3>1
      <4>2. QED
        BY <4>1, <1>0, <3>3, TwiceFinite, Fewer
    <3>6. Cardinality(snapshot) \in Nat /\ Cardinality(snapshot \cap Special) \in Nat
      BY <1>0, TwiceFinite, Fewer
    <3>7. extraRows' + Cardinality(Twice') <= Cardinality(snapshot')
      BY <1>0, <2>2, <2>5, <3>2, <3>6 DEF Bounded
    <3>8. extraSpecial' + Cardinality(Twice' \cap Special') <= Cardinality(snapshot' \cap Special')
      BY <1>0, <2>2, <2>5, <3>4, <3>5, <3>6 DEF Bounded
    <3>9. QED
      BY <2>3, <3>7, <3>8 DEF Bounded
  <2>6. QED
    BY <2>2, <2>4, <2>5
<1>7. QED
  BY <1>2, <1>3, <1>4, <1>5, <1>6 DEF Next, Main

LEMMA BoundedInv == Spec => []Bounded
<1>1. Init => Bounded
  <2> SUFFICES ASSUME Init PROVE Bounded
    OBVIOUS
  <2>1. /\ extraRows = 0 /\ extraSpecial = 0 /\ m_items = [w \in {} |-> FALSE] /\ snapshot = {}
    BY DEF Init, ListInit
  <2>2. Twice = {} /\ Twice \cap Special = {} /\ snapshot \cap Special = {}
    BY <2>1 DEF Twice
  <2>3. QED
    BY <2>1, <2>2, FS_EmptySet DEF Bounded
<1>2. IInv /\ IInv' /\ Order /\ Caught /\ Turns /\ Bounded /\ [Next]_vars => Bounded'
  BY BoundedNext
<1>3. QED
  BY <1>1, <1>2, Inductive, EventsInOrder, CaughtUp, NewAndGoneTakeTurns, PTL DEF Spec

\* A workspace is announced or counted twice only if the snapshot had it, and
\* then once, whatever the number of events: the counter is never off by more
\* than the special workspaces of the snapshot.
THEOREM DuplicatesCorrect == Spec => []DuplicatesAreBounded
<1>1. IInv /\ Bounded => DuplicatesAreBounded
  <2> SUFFICES ASSUME IInv, Bounded PROVE DuplicatesAreBounded
    OBVIOUS
  <2>1. /\ Cardinality(Twice) \in Nat /\ Cardinality(Twice \cap Special) \in Nat
        /\ Cardinality(snapshot) \in Nat /\ Cardinality(snapshot \cap Special) \in Nat
    BY TwiceFinite, Fewer DEF IInv
  <2>2. extraRows \in Nat /\ extraSpecial \in Nat
    BY DEF IInv, TypeOK, ListTypeOK
  <2>3. QED
    BY <2>1, <2>2 DEF Bounded, DuplicatesAreBounded
<1>2. QED
  BY <1>1, Inductive, BoundedInv, PTL

-----------------------------------------------------------------------------
(* Coming to rest.                                                         *)
(*                                                                         *)
(* What ListConverges says but for fairness: every step of the program has *)
(* less left to do, so that between two of the compositor's there are only *)
(* finitely many, and the list is right when nothing is left.              *)

\* The statements of vfunc_init that are still to come.
Ahead == IF phase = "new" THEN 3 ELSE IF phase = "connected" THEN 2 ELSE IF phase = "listed" THEN 1 ELSE 0

\* A line is handled by both threads, a closure by one.
Work == 2 * Len(wire) + Len(queue) + Ahead

AtRest == Pending = <<>> /\ phase = "ready"

\* The list is that of the compositor: its workspaces, and of the normal ones
\* the focused is highlighted.  Of the special ones no other than the one on
\* display is.
ListIsCurrent ==
  /\ DOMAIN m_items = exists \ dropped
  /\ {w \in DOMAIN m_items \cap Normal : m_items[w]} = {focused} \cap DOMAIN m_items
  /\ {w \in DOMAIN m_items \cap Special : m_items[w]} \subseteq {shown}

\* When the compositor is silent and everything it said was handled, the list
\* has what the compositor has, but for what the handlers gave up.
THEOREM CurrentAtRest == Spec => [](AtRest => ListIsCurrent)
<1>1. /\ IInv /\ DecidedItemsAreRight /\ FocusIsHighlighted /\ SpecialIsHighlighted
      => (AtRest => ListIsCurrent)
  <2> SUFFICES ASSUME IInv, DecidedItemsAreRight, FocusIsHighlighted, SpecialIsHighlighted, AtRest
               PROVE  ListIsCurrent
    OBVIOUS
  <2>1. phase = "ready" /\ \A names : InFlight(names) = {}
    <3>1. DOMAIN Pending = {}
      BY DEF AtRest
    <3>2. QED
      BY <3>1 DEF AtRest, InFlight
  <2>2. /\ DOMAIN m_items \subseteq Ids /\ exists \subseteq Ids
        /\ focused \in Normal
    BY DEF IInv, TypeOK, ListTypeOK, HyprlandTypeOK
  <2>3. DOMAIN m_items = exists \ dropped
    BY <2>1, <2>2 DEF DecidedItemsAreRight, Undecided
  <2>4. m_active_id = focused /\ (focused \in DOMAIN m_items => m_items[focused])
    BY <2>1 DEF FocusIsHighlighted
  <2>5. \A w \in DOMAIN m_items \cap Normal : m_items[w] => w = focused
    <3>1. HighlightIsOwned
      BY DEF IInv
    <3>2. \A w \in Normal : ~IsSpecial(w)
      BY IdsAssumption DEF Normal, IsSpecial, IdsAssumption
    <3>3. QED
      BY <2>4, <3>1, <3>2 DEF HighlightIsOwned
  <2>6. \A w \in DOMAIN m_items \cap Special : m_items[w] => w = shown
    BY <2>1 DEF SpecialIsHighlighted
  <2>7. QED
    BY <2>2, <2>3, <2>4, <2>5, <2>6 DEF ListIsCurrent
<1>2. QED
  BY <1>1, Inductive, MembersCorrect, FocusCorrect, SpecialCorrect, PTL

\* Every step of the two threads leaves less to do, and when nothing is left to
\* do the list is at rest or the program is at its end.
THEOREM WorkShrinks ==
  Spec => /\ [][Worker \/ Main => Work' < Work]_vars
          /\ [](Work \in Nat /\ (Work = 0 => AtRest \/ Stopped))
<1>1. IInv => Work \in Nat /\ (Work = 0 => AtRest \/ Stopped)
  <2> SUFFICES ASSUME IInv PROVE Work \in Nat /\ (Work = 0 => AtRest \/ Stopped)
    OBVIOUS
  <2>1. /\ wire \in Seq(Events) /\ queue \in Seq(Events) /\ phase \in Phases
        /\ Len(wire) \in Nat /\ Len(queue) \in Nat
    BY LenProperties DEF IInv, TypeOK, HyprlandTypeOK, ListenerTypeOK, ListTypeOK
  <2>2. Ahead \in Nat /\ (Ahead = 0 => phase = "ready" \/ Stopped)
    BY <2>1 DEF Ahead, Phases, Stopped
  <2>3. Work \in Nat /\ (Work = 0 => Len(wire) = 0 /\ Len(queue) = 0 /\ Ahead = 0)
    BY <2>1, <2>2 DEF Work
  <2>4. Len(wire) = 0 /\ Len(queue) = 0 => Pending = <<>>
    BY <2>1, EmptySeq, ConcatEmptySeq DEF Pending
  <2>5. QED
    BY <2>2, <2>3, <2>4 DEF AtRest
<1>2. IInv /\ IInv' /\ [Next]_vars => [Worker \/ Main => Work' < Work]_vars
  <2> SUFFICES ASSUME IInv, IInv', Worker \/ Main PROVE Work' < Work
    OBVIOUS
  <2>1. /\ wire \in Seq(Events) /\ queue \in Seq(Events) /\ phase \in Phases /\ phase' \in Phases
        /\ Len(wire) \in Nat /\ Len(queue) \in Nat /\ Ahead \in Nat /\ Ahead' \in Nat
    BY LenProperties DEF IInv, TypeOK, HyprlandTypeOK, ListenerTypeOK, ListTypeOK, Ahead
  <2>2. CASE Worker
    <3>1. /\ Len(wire') = Len(wire) - 1 /\ Ahead' = Ahead
          /\ queue' = queue \/ queue' = Append(queue, Head(wire))
      BY <2>1, <2>2, HeadTailProperties DEF Worker, ReadLine, Ahead, listVars
    <3>2. Head(wire) \in Events
      BY <2>1, <2>2, HeadTailProperties DEF Worker, ReadLine
    <3>3. Len(queue') <= Len(queue) + 1 /\ Len(queue') \in Nat
      BY <2>1, <3>1, <3>2, AppendProperties
    <3>4. QED
      BY <2>1, <3>1, <3>3 DEF Work
  <2>3. CASE ListInitStep
    <3>1. UNCHANGED <<wire, queue>> /\ Ahead' < Ahead
      BY <2>3 DEF ListInitStep, CreateListener, FetchWorkspaces, FetchActiveWorkspace, InitFails,
                  InitThrows, Subscribe, Ahead, hyprlandVars, listenerVars
    <3>2. QED
      BY <2>1, <3>1 DEF Work
  <2>4. CASE Dispatch
    <3>1. UNCHANGED wire /\ Len(queue') = Len(queue) - 1 /\ Ahead = 0
      BY <2>1, <2>4, HeadTailProperties DEF Dispatch, hyprlandVars, Ahead
    <3>2. phase' \in {"ready", "assert_failed", "terminated"}
      BY <2>4 DEF Dispatch, OnWorkspaceChange, OnNewWorkspace, AddItem, OnNewWorkspaceFails,
                  OnNewWorkspaceThrows, OnRemoveWorkspace, OnActiveSpecial, OnOtherEvent
    <3>3. Ahead' = 0
      BY <3>2 DEF Ahead
    <3>4. QED
      BY <2>1, <3>1, <3>3 DEF Work
  <2>5. QED
    BY <2>2, <2>3, <2>4 DEF Main
<1>3. QED
  BY <1>1, <1>2, Inductive, PTL DEF Spec

=============================================================================
