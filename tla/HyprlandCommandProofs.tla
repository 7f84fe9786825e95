----------------------- MODULE HyprlandCommandProofs -----------------------
(***************************************************************************)
(* For requests and answers of every size, cut up in every way: the types, *)
(* the ownership of the descriptors, and that a call implements Exchange.  *)
(*                                                                         *)
(* What makes it inductive is that count and data say how much of the      *)
(* request the compositor has (`Sending'), and that each descriptor is in  *)
(* one place at a time (`Holding').                                        *)
(***************************************************************************)
EXTENDS HyprlandCommand, SequenceTheorems, TLAPS

\* The compositor has the first bytes of the request, and the rest begins at
\* data; the outcome is known when all is sent, or not all and no more.
Sending ==
  /\ Len(taken) = RequestSize - count
  /\ \A i \in 1..Len(taken) : taken[i] = i
  /\ count > 0 => data = Len(taken) + 1
  /\ pc \in {"create", "connect", "construct", "destroyTemporary", "assign", "destroyResult",
            "write"} =>
       count > 0 /\ outcome = "pending"
  /\ pc \in {"written", "read"} => count = 0 /\ outcome = "pending"
  /\ outcome \in {"sent", "answered", "thrown"} => count = 0
  /\ outcome = "failed" => count > 0

\* The descriptors that are the command's.
Owned == {d \in Descriptors : owner[d] = "command"}

\* The descriptors that the objects have.
InObjects ==
  {m_socket_fd["temporary"], m_socket_fd["result"], m_socket_fd["command"]} \ {NoFd}

\* Which objects have one is known at every place, no two have the same, and
\* the local's is no object's.
Holding ==
  /\ Owned = IF pc = "connect" THEN InObjects \cup {fd} ELSE InObjects
  /\ pc = "connect" => fd \in Descriptors /\ fd \notin InObjects
  /\ (m_socket_fd["temporary"] # NoFd) <=> (pc = "construct")
  /\ pc \in {"assign", "destroyResult"} => m_socket_fd["result"] # NoFd
  /\ m_socket_fd["result"] # NoFd =>
       /\ pc \in {"destroyTemporary", "assign", "destroyResult"}
       /\ m_socket_fd["command"] # NoFd
  /\ pc \in {"destroyTemporary", "assign", "destroyResult", "write", "written", "read",
              "destroy", "terminated"} => m_socket_fd["command"] # NoFd
  /\ pc = "gone" => m_socket_fd["command"] = NoFd
  /\ \A o, p \in Objects : o # p /\ m_socket_fd[o] # NoFd => m_socket_fd[o] # m_socket_fd[p]

IInv == TypeOK /\ Sending /\ Holding

-----------------------------------------------------------------------------
(* Sequences                                                               *)

\* The request is delivered when nothing is left to write, and not before.
LEMMA DeliveredWhenNoneLeft ==
  ASSUME TypeOK, Sending
  PROVE  taken = Request <=> count = 0
<1> USE RequestSizeAssumption DEF RequestSizeAssumption
<1>1. taken \in Seq(1..RequestSize) /\ count \in 0..RequestSize
  BY DEF TypeOK
<1>2. Request \in Seq(Nat) /\ Len(Request) = RequestSize
  BY DEF Request
<1>3. CASE count = 0
  <2>1. Len(taken) = RequestSize /\ \A i \in 1..RequestSize : taken[i] = Request[i]
    BY <1>3, <1>1 DEF Sending, Request
  <2>2. taken = Request
    BY <2>1, <1>1, <1>2
  <2>3. QED
    BY <2>2, <1>3
<1>4. CASE count # 0
  <2>1. Len(taken) # Len(Request)
    BY <1>4, <1>1, <1>2 DEF Sending
  <2>2. QED
    BY <2>1, <1>4
<1>5. QED
  BY <1>3, <1>4

\* A write that takes n bytes leaves the compositor with a longer prefix.
LEMMA WriteExtends ==
  ASSUME TypeOK, Sending, NEW n \in 1..count,
         taken' = taken \o SubSeq(Request, data, data + n - 1)
  PROVE  /\ taken' \in Seq(1..RequestSize)
         /\ Len(taken') = Len(taken) + n
         /\ \A i \in 1..Len(taken') : taken'[i] = i
<1> USE RequestSizeAssumption DEF RequestSizeAssumption
<1> DEFINE part == SubSeq(Request, data, data + n - 1)
<1>1. /\ taken \in Seq(1..RequestSize) /\ count \in 1..RequestSize
      /\ data = Len(taken) + 1 /\ Len(taken) = RequestSize - count
      /\ data \in 1..RequestSize
  BY DEF TypeOK, Sending
<1>2. Len(taken) \in Nat /\ data + n - 1 \in data..RequestSize
  BY <1>1
<1>3. Request \in Seq(1..RequestSize) /\ Len(Request) = RequestSize
  BY DEF Request
<1>4. /\ part \in Seq(1..RequestSize) /\ Len(part) = n
      /\ \A i \in 1..n : part[i] = data + i - 1
  <2>1. part \in Seq(1..RequestSize) /\ Len(part) = n
    BY <1>1, <1>2, <1>3
  <2>2. ASSUME NEW i \in 1..n PROVE part[i] = data + i - 1
    <3>1. part[i] = Request[data + i - 1]
      BY <1>1, <1>2, <1>3
    <3>2. data + i - 1 \in 1..RequestSize
      BY <1>1, <1>2
    <3>3. QED
      BY <3>1, <3>2 DEF Request
  <2>3. QED
    BY <2>1, <2>2
<1> HIDE DEF part
<1>5. taken' = taken \o part
  BY DEF part
<1>6. /\ taken' \in Seq(1..RequestSize)
      /\ Len(taken') = Len(taken) + Len(part)
      /\ \A i \in 1..Len(taken) + Len(part) :
           taken'[i] = IF i <= Len(taken) THEN taken[i] ELSE part[i - Len(taken)]
  <2>1. taken \in Seq(1..RequestSize) /\ part \in Seq(1..RequestSize)
    BY <1>1, <1>4
  <2>2. /\ taken \o part \in Seq(1..RequestSize)
        /\ Len(taken \o part) = Len(taken) + Len(part)
        /\ \A i \in 1..Len(taken) + Len(part) :
             (taken \o part)[i] = IF i <= Len(taken) THEN taken[i] ELSE part[i - Len(taken)]
    BY <2>1, ConcatProperties, Zenon
  <2>3. QED
    BY <2>2, <1>5, Zenon
<1>7. ASSUME NEW i \in 1..Len(taken') PROVE taken'[i] = i
  <2> DEFINE k == i - Len(taken)
  <2>1. i \in 1..Len(taken) + Len(part)
    BY <1>6
  <2>2. CASE i <= Len(taken)
    <3>1. taken[i] = i
      BY <2>1, <2>2, <1>2 DEF Sending
    <3>2. QED
      BY <3>1, <2>1, <2>2, <1>6
  <2>3. CASE ~(i <= Len(taken))
    <3>1. taken'[i] = part[k]
      BY <2>1, <2>3, <1>6
    <3>2. k \in 1..n
      BY <2>1, <2>3, <1>2, <1>4
    <3>3. part[k] = data + k - 1
      BY <3>2, <1>4
    <3>4. data + k - 1 = i
      BY <2>1, <1>1, <1>2
    <3>5. QED
      BY <3>1, <3>3, <3>4
  <2>4. QED
    BY <2>2, <2>3
<1>8. QED
  BY <1>4, <1>6, <1>7

-----------------------------------------------------------------------------
(* The invariant                                                           *)

LEMMA InitIInv == Init => IInv
<1> SUFFICES ASSUME Init PROVE IInv
  OBVIOUS
<1> USE RequestSizeAssumption, DescriptorsAssumption DEF Init
<1>1. TypeOK
  <2>1. <<>> \in Seq(1..RequestSize) /\ <<>> \in Seq(1..AnswerSize)
    OBVIOUS
  <2>2. /\ m_socket_fd \in [Objects -> Descriptors \cup {NoFd}]
        /\ owner \in [Descriptors -> {"nobody", "others", "command"}]
    OBVIOUS
  <2>3. data \in 1..RequestSize /\ count \in 0..RequestSize
    OBVIOUS
  <2>4. QED
    BY <2>1, <2>2, <2>3 DEF TypeOK
<1>2. Sending
  BY DEF Sending
<1>3. Holding
  <2>1. PICK old \in Descriptors \cup {NoFd} :
          /\ m_socket_fd = [o \in Objects |-> IF o = "command" THEN old ELSE NoFd]
          /\ owner = [d \in Descriptors |-> IF d = old THEN "command" ELSE "nobody"]
    OBVIOUS
  <2>2. /\ m_socket_fd["temporary"] = NoFd /\ m_socket_fd["result"] = NoFd
        /\ m_socket_fd["command"] = old
    BY <2>1 DEF Objects
  <2>3. NoFd \notin Descriptors
    BY DEF NoFd
  <2>4. Owned = InObjects
    BY <2>1, <2>2, <2>3 DEF Owned, InObjects
  <2>5. \A o, p \in Objects : o # p /\ m_socket_fd[o] # NoFd => m_socket_fd[o] # m_socket_fd[p]
    BY <2>2 DEF Objects
  <2>6. QED
    BY <2>2, <2>4, <2>5 DEF Holding
<1>4. QED
  BY <1>1, <1>2, <1>3 DEF IInv

LEMMA StepTypeOK ==
  ASSUME IInv, [Next]_vars
  PROVE  TypeOK'
<1> USE RequestSizeAssumption, AnswerSizeAssumption, ChunkAssumption DEF IInv, Go, Opens, Closes, locals, peer
<1>1. CASE CreateFails
  BY <1>1 DEF TypeOK, CreateFails, NoResult
<1>2. CASE Socket
  BY <1>2 DEF TypeOK, Socket, Free
<1>3. CASE ConnectFails
  BY <1>3 DEF TypeOK, ConnectFails, NoResult
<1>4. CASE Connect
  BY <1>4 DEF TypeOK, Connect, Objects
<1>5. CASE MoveConstruct
  BY <1>5 DEF TypeOK, MoveConstruct, Objects
<1>6. CASE DestroyTemporary
  BY <1>6 DEF TypeOK, DestroyTemporary, Destroys
<1>20. CASE MoveAssign
  BY <1>20 DEF TypeOK, MoveAssign, Objects
<1>21. CASE DestroyResult
  BY <1>21 DEF TypeOK, DestroyResult, Destroys
<1>7. CASE Write
  <2>1. PICK n \in 1..count :
          /\ taken' = taken \o SubSeq(Request, data, data + n - 1)
          /\ count' = count - n
          /\ data' = IF count' = 0 THEN data ELSE data + n
          /\ pc' = IF count' = 0 THEN "written" ELSE "write"
    BY <1>7 DEF Write
  <2>2. taken' \in Seq(1..RequestSize)
    BY <2>1, WriteExtends
  <2>3. count' \in 0..RequestSize /\ data' \in 1..RequestSize
    BY <2>1 DEF TypeOK, Sending
  <2>4. QED
    BY <1>7, <2>1, <2>2, <2>3 DEF TypeOK, Write
<1>8. CASE WriteFails
  BY <1>8 DEF TypeOK, WriteFails
<1>9. CASE Forget
  BY <1>9 DEF TypeOK, Forget
<1>10. CASE WaitForAnswer
  BY <1>10 DEF TypeOK, WaitForAnswer
<1>11. CASE Read
  <2>1. PICK n \in 1..Chunk :
          /\ Len(response) + n <= Len(said)
          /\ response' = response \o SubSeq(said, Len(response) + 1, Len(response) + n)
    BY <1>11 DEF Read
  <2>2. SubSeq(said, Len(response) + 1, Len(response) + n) \in Seq(1..AnswerSize)
    BY <2>1 DEF TypeOK
  <2>3. response' \in Seq(1..AnswerSize)
    BY <2>1, <2>2 DEF TypeOK
  <2>4. QED
    BY <1>11, <2>3 DEF TypeOK, Read
<1>12. CASE ReadEnds
  BY <1>12 DEF TypeOK, ReadEnds
<1>13. CASE ReadThrows
  BY <1>13 DEF TypeOK, ReadThrows
<1>14. CASE DestroyCommand
  BY <1>14 DEF TypeOK, DestroyCommand, Destroys
<1>15. CASE OthersOpen
  BY <1>15 DEF TypeOK, OthersOpen
<1>16. CASE OthersClose
  BY <1>16 DEF TypeOK, OthersClose
<1>17. CASE CompositorAnswers
  <2>1. Len(said) + 1 \in 1..AnswerSize
    BY <1>17 DEF TypeOK, CompositorAnswers
  <2>2. QED
    BY <1>17, <2>1 DEF TypeOK, CompositorAnswers
<1>18. CASE CompositorCloses
  BY <1>18 DEF TypeOK, CompositorCloses
<1>19. CASE UNCHANGED vars
  BY <1>19 DEF TypeOK, vars
<1>22. QED
  BY <1>1, <1>2, <1>3, <1>4, <1>5, <1>6, <1>7, <1>8, <1>9, <1>10, <1>11, <1>12, <1>13, <1>14, <1>15, <1>16, <1>17, <1>18, <1>19, <1>20, <1>21 DEF Next, Create, Assign, Send

LEMMA StepSending ==
  ASSUME IInv, [Next]_vars
  PROVE  Sending'
<1> USE RequestSizeAssumption DEF IInv, TypeOK, Go, locals, peer
<1>1. CASE CreateFails
  BY <1>1 DEF Sending, CreateFails, NoResult
<1>2. CASE Socket
  BY <1>2 DEF Sending, Socket
<1>3. CASE ConnectFails
  BY <1>3 DEF Sending, ConnectFails, NoResult
<1>4. CASE Connect
  BY <1>4 DEF Sending, Connect
<1>5. CASE MoveConstruct
  BY <1>5 DEF Sending, MoveConstruct
<1>6. CASE DestroyTemporary
  BY <1>6 DEF Sending, DestroyTemporary
<1>20. CASE MoveAssign
  BY <1>20 DEF Sending, MoveAssign
<1>21. CASE DestroyResult
  BY <1>21 DEF Sending, DestroyResult
<1>7. CASE Write
  <2>1. PICK n \in 1..count :
          /\ taken' = taken \o SubSeq(Request, data, data + n - 1)
          /\ count' = count - n
          /\ data' = IF count' = 0 THEN data ELSE data + n
          /\ pc' = IF count' = 0 THEN "written" ELSE "write"
    BY <1>7 DEF Write
  <2>2. Len(taken') = Len(taken) + n /\ \A i \in 1..Len(taken') : taken'[i] = i
    BY <2>1, WriteExtends
  <2>3. outcome' = "pending" /\ Len(taken) \in Nat
    BY <1>7 DEF Write, Sending
  <2>4. Len(taken) = RequestSize - count /\ data = Len(taken) + 1
    BY <2>1 DEF Sending
  <2>5. Len(taken') = RequestSize - count' /\ (count' > 0 => data' = Len(taken') + 1)
    BY <2>1, <2>2, <2>3, <2>4
  <2>6. /\ (pc' = "write" /\ count' > 0) \/ (pc' = "written" /\ count' = 0)
        /\ count' \in Nat
    BY <2>1
  <2> HIDE DEF IInv, TypeOK, Go
  <2>7. \A i \in 1..Len(taken') : taken'[i] = i
    BY <2>2
  <2>8. QED
    BY <2>3, <2>5, <2>6, <2>7 DEF Sending
<1>8. CASE WriteFails
  BY <1>8 DEF Sending, WriteFails
<1>9. CASE Forget
  BY <1>9 DEF Sending, Forget
<1>10. CASE WaitForAnswer
  BY <1>10 DEF Sending, WaitForAnswer
<1>11. CASE Read
  BY <1>11 DEF Sending, Read
<1>12. CASE ReadEnds
  BY <1>12 DEF Sending, ReadEnds
<1>13. CASE ReadThrows
  BY <1>13 DEF Sending, ReadThrows
<1>14. CASE DestroyCommand
  BY <1>14 DEF Sending, DestroyCommand
<1>15. CASE OthersOpen
  BY <1>15 DEF Sending, OthersOpen
<1>16. CASE OthersClose
  BY <1>16 DEF Sending, OthersClose
<1>17. CASE CompositorAnswers
  BY <1>17 DEF Sending, CompositorAnswers
<1>18. CASE CompositorCloses
  BY <1>18 DEF Sending, CompositorCloses
<1>19. CASE UNCHANGED vars
  BY <1>19 DEF Sending, vars
<1>22. QED
  BY <1>1, <1>2, <1>3, <1>4, <1>5, <1>6, <1>7, <1>8, <1>9, <1>10, <1>11, <1>12, <1>13, <1>14, <1>15, <1>16, <1>17, <1>18, <1>19, <1>20, <1>21 DEF Next, Create, Assign, Send

LEMMA StepHolding ==
  ASSUME IInv, [Next]_vars
  PROVE  Holding'
<1> USE DescriptorsAssumption DEF IInv, TypeOK, Go, Opens, Closes, Objects, NoFd, locals
<1>1. CASE CreateFails
  BY <1>1 DEF Holding, Owned, InObjects, CreateFails, NoResult
<1>2. CASE Socket
  BY <1>2 DEF Holding, Owned, InObjects, Socket, Free
<1>3. CASE ConnectFails
  BY <1>3 DEF Holding, Owned, InObjects, ConnectFails, NoResult
<1>4. CASE Connect
  BY <1>4 DEF Holding, Owned, InObjects, Connect
<1>5. CASE MoveConstruct
  BY <1>5 DEF Holding, Owned, InObjects, MoveConstruct
<1>6. CASE DestroyTemporary
  BY <1>6 DEF Holding, Owned, InObjects, DestroyTemporary, Destroys
<1>7. CASE Write
  BY <1>7 DEF Holding, Owned, InObjects, Write
<1>8. CASE WriteFails
  BY <1>8 DEF Holding, Owned, InObjects, WriteFails
<1>9. CASE Forget
  BY <1>9 DEF Holding, Owned, InObjects, Forget
<1>10. CASE WaitForAnswer
  BY <1>10 DEF Holding, Owned, InObjects, WaitForAnswer
<1>11. CASE Read
  BY <1>11 DEF Holding, Owned, InObjects, Read
<1>12. CASE ReadEnds
  BY <1>12 DEF Holding, Owned, InObjects, ReadEnds
<1>13. CASE ReadThrows
  BY <1>13 DEF Holding, Owned, InObjects, ReadThrows
<1>14. CASE DestroyCommand
  <2>1. /\ m_socket_fd["command"] # NoFd /\ m_socket_fd["command"] \in Descriptors
        /\ m_socket_fd["temporary"] = NoFd /\ m_socket_fd["result"] = NoFd
    BY <1>14 DEF Holding, DestroyCommand
  <2>2. /\ owner' = [owner EXCEPT ![m_socket_fd["command"]] = "nobody"]
        /\ m_socket_fd' = [m_socket_fd EXCEPT !["command"] = NoFd]
        /\ pc' = "gone"
    BY <1>14, <2>1 DEF DestroyCommand, Destroys
  <2>3. Owned' = {}
    <3>1. Owned = {} \cup {m_socket_fd["command"]}
      BY <1>14, <2>1 DEF Holding, InObjects, DestroyCommand
    <3>2. Owned' = Owned \ {m_socket_fd["command"]}
      BY <2>2 DEF Owned
    <3>3. QED
      BY <3>1, <3>2, <2>1
  <2>4. InObjects' = {}
    BY <2>1, <2>2 DEF InObjects
  <2>5. QED
    BY <2>1, <2>2, <2>3, <2>4 DEF Holding
<1>15. CASE OthersOpen
  BY <1>15 DEF Holding, Owned, InObjects, OthersOpen, Free
<1>16. CASE OthersClose
  BY <1>16 DEF Holding, Owned, InObjects, OthersClose
<1>17. CASE CompositorAnswers
  BY <1>17 DEF Holding, Owned, InObjects, CompositorAnswers
<1>18. CASE CompositorCloses
  BY <1>18 DEF Holding, Owned, InObjects, CompositorCloses
<1>19. CASE MoveAssign
  BY <1>19 DEF Holding, Owned, InObjects, MoveAssign
<1>20. CASE DestroyResult
  <2>1. /\ m_socket_fd["result"] # NoFd /\ m_socket_fd["result"] \in Descriptors
        /\ m_socket_fd["temporary"] = NoFd
        /\ m_socket_fd["command"] # NoFd /\ m_socket_fd["command"] # m_socket_fd["result"]
    BY <1>20 DEF Holding, DestroyResult
  <2>2. /\ owner' = [owner EXCEPT ![m_socket_fd["result"]] = "nobody"]
        /\ m_socket_fd' = [m_socket_fd EXCEPT !["result"] = NoFd]
        /\ pc' = "write"
    BY <1>20, <2>1 DEF DestroyResult, Destroys
  <2>3. Owned' = {m_socket_fd["command"]}
    <3>1. Owned = {m_socket_fd["command"]} \cup {m_socket_fd["result"]}
      BY <1>20, <2>1 DEF Holding, InObjects, DestroyResult
    <3>2. Owned' = Owned \ {m_socket_fd["result"]}
      BY <2>2 DEF Owned
    <3>3. QED
      BY <3>1, <3>2, <2>1
  <2>4. InObjects' = {m_socket_fd["command"]}
    BY <2>1, <2>2 DEF InObjects
  <2>5. QED
    BY <2>1, <2>2, <2>3, <2>4 DEF Holding
<1>21. CASE UNCHANGED vars
  BY <1>21 DEF Holding, Owned, InObjects, vars
<1>22. QED
  BY <1>1, <1>2, <1>3, <1>4, <1>5, <1>6, <1>7, <1>8, <1>9, <1>10, <1>11, <1>12, <1>13, <1>14, <1>15, <1>16, <1>17, <1>18, <1>19, <1>20, <1>21 DEF Next, Create, Assign, Send

LEMMA Invariance == Spec => []IInv
<1>1. IInv /\ [Next]_vars => IInv'
  BY StepTypeOK, StepSending, StepHolding DEF IInv
<1>2. QED
  BY InitIInv, <1>1, PTL DEF Spec

\* Every variable of the command keeps its type.
THEOREM TypeCorrect == Spec => []TypeOK
<1>1. IInv => TypeOK
  BY DEF IInv
<1>2. QED
  BY <1>1, Invariance, PTL

\* However many descriptors there are and whatever the rest of the process
\* opens and closes meanwhile, ~HyprlandCommand and connect_hyprland close the
\* descriptors that are the command's own, once, on every path, that of a
\* command that another one is assigned to included.
THEOREM DescriptorsCorrect == Spec => []DescriptorsAreOwned
<1>1. IInv => DescriptorsAreOwned
  <2> SUFFICES ASSUME IInv PROVE DescriptorsAreOwned
    OBVIOUS
  <2>1. {m_socket_fd[o] : o \in Objects} \ {NoFd} = InObjects
    BY DEF Objects, InObjects
  <2>2. pc = "gone" => InObjects = {}
    BY DEF IInv, Holding, InObjects
  <2>3. QED
    BY <2>1, <2>2 DEF IInv, Holding, Owned, DescriptorsAreOwned
<1>2. QED
  BY <1>1, Invariance, PTL

-----------------------------------------------------------------------------
(* A call implements Exchange                                              *)

LEMMA InitExchanged == Init => Exchanged!Init
<1> SUFFICES ASSUME Init PROVE Exchanged!Init
  OBVIOUS
<1>1. count # 0
  BY RequestSizeAssumption DEF Init
<1>2. ~(taken = Request)
  BY <1>1, InitIInv, DeliveredWhenNoneLeft DEF IInv
<1>3. QED
  BY <1>2 DEF Init, Exchanged!Init

LEMMA DeliveredInvariant == IInv => (taken = Request <=> count = 0)
BY DeliveredWhenNoneLeft DEF IInv

LEMMA StepExchanged ==
  ASSUME IInv, IInv', [Next]_vars
  PROVE  [Exchanged!Next]_(Exchanged!vars)
<1> USE DEF Go, locals, peer
<1>1. taken = Request <=> count = 0
  BY DeliveredWhenNoneLeft DEF IInv
<1>2. taken' = Request <=> count' = 0
  <2>1. (IInv => (taken = Request <=> count = 0))'
    BY DeliveredInvariant, PTL
  <2>2. QED
    BY <2>1
<1>3. CASE CreateFails
  <2>1. Exchanged!Fail
    BY <1>3, <1>1, <1>2 DEF CreateFails, Exchanged!Fail, IInv, TypeOK, Sending
  <2>2. QED
    BY <2>1 DEF Exchanged!Next
<1>4. CASE Socket
  BY <1>4 DEF Socket, Exchanged!vars, IInv, Sending
<1>5. CASE ConnectFails
  <2>1. Exchanged!Fail
    BY <1>5, <1>1, <1>2 DEF ConnectFails, Exchanged!Fail, IInv, TypeOK, Sending
  <2>2. QED
    BY <2>1 DEF Exchanged!Next
<1>6. CASE Connect
  BY <1>6 DEF Connect, Exchanged!vars, IInv, Sending
<1>7. CASE MoveConstruct
  BY <1>7 DEF MoveConstruct, Exchanged!vars, IInv, Sending
<1>8. CASE DestroyTemporary
  BY <1>8 DEF DestroyTemporary, Exchanged!vars, IInv, Sending
<1>22. CASE MoveAssign
  BY <1>22 DEF MoveAssign, Exchanged!vars, IInv, Sending
<1>23. CASE DestroyResult
  BY <1>23 DEF DestroyResult, Exchanged!vars, IInv, Sending
<1>9. CASE Write
  <2>1. UNCHANGED <<said, closed, outcome>> /\ outcome = "pending" /\ ~closed
    BY <1>9 DEF Write, IInv, Sending
  <2>2. CASE count' = 0
    <3>1. Exchanged!Deliver
      BY <2>1, <2>2, <1>2 DEF Exchanged!Deliver
    <3>2. QED
      BY <3>1 DEF Exchanged!Next
  <2>3. CASE count' # 0
    <3>1. count # 0
      BY <1>9, <2>3 DEF Write
    <3>2. UNCHANGED Exchanged!vars
      BY <2>1, <2>3, <3>1, <1>1, <1>2 DEF Exchanged!vars
    <3>3. QED
      BY <3>2
  <2>4. QED
    BY <2>2, <2>3
<1>10. CASE WriteFails
  <2>1. Exchanged!Fail
    BY <1>10, <1>1, <1>2 DEF WriteFails, Exchanged!Fail, IInv, TypeOK, Sending
  <2>2. QED
    BY <2>1 DEF Exchanged!Next
<1>11. CASE Forget
  <2>1. Exchanged!Forget
    BY <1>11, <1>1, <1>2 DEF Forget, Exchanged!Forget, IInv, TypeOK, Sending
  <2>2. QED
    BY <2>1 DEF Exchanged!Next
<1>12. CASE WaitForAnswer
  BY <1>12 DEF WaitForAnswer, Exchanged!vars, IInv, Sending
<1>13. CASE Read
  BY <1>13 DEF Read, Exchanged!vars, IInv, Sending
<1>14. CASE ReadEnds
  <2>1. Exchanged!Answer
    BY <1>14, <1>1, <1>2 DEF ReadEnds, Exchanged!Answer, IInv, TypeOK, Sending
  <2>2. QED
    BY <2>1 DEF Exchanged!Next
<1>15. CASE ReadThrows
  <2>1. Exchanged!Throw
    BY <1>15, <1>1, <1>2 DEF ReadThrows, Exchanged!Throw, IInv, TypeOK, Sending
  <2>2. QED
    BY <2>1 DEF Exchanged!Next
<1>16. CASE DestroyCommand
  BY <1>16 DEF DestroyCommand, Exchanged!vars, IInv, Sending
<1>17. CASE OthersOpen
  BY <1>17 DEF OthersOpen, Exchanged!vars, IInv, Sending
<1>18. CASE OthersClose
  BY <1>18 DEF OthersClose, Exchanged!vars, IInv, Sending
<1>19. CASE CompositorAnswers
  <2>1. Exchanged!Say
    BY <1>19, <1>1, <1>2 DEF CompositorAnswers, Exchanged!Say, IInv, TypeOK, Sending
  <2>2. QED
    BY <2>1 DEF Exchanged!Next
<1>20. CASE CompositorCloses
  <2>1. Exchanged!Close
    BY <1>20, <1>1, <1>2 DEF CompositorCloses, Exchanged!Close, IInv, TypeOK, Sending
  <2>2. QED
    BY <2>1 DEF Exchanged!Next
<1>21. CASE UNCHANGED vars
  BY <1>21 DEF vars, Exchanged!vars
<1>24. QED
  BY <1>3, <1>4, <1>5, <1>6, <1>7, <1>8, <1>9, <1>10, <1>11, <1>12, <1>13, <1>14, <1>15, <1>16, <1>17, <1>18, <1>19, <1>20, <1>21, <1>22, <1>23 DEF Next, Create, Assign, Send

\* For every size of request, answer and buffer: a call that returns TRUE has
\* sent the request whole and in order, one that fails has not, and the answer
\* that send returns is all that the compositor said before it closed.
THEOREM Implements == Spec => ImplementsExchange
<1>1. Init => Exchanged!Init
  BY InitExchanged
<1>2. IInv /\ IInv' /\ [Next]_vars => [Exchanged!Next]_(Exchanged!vars)
  BY StepExchanged
<1>3. QED
  BY <1>1, <1>2, Invariance, PTL DEF Spec, ImplementsExchange, Exchanged!Spec

=============================================================================
