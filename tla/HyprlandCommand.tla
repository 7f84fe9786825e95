-------------------------- MODULE HyprlandCommand --------------------------
(***************************************************************************)
(* One request to the compositor over .socket.sock, on the main thread:    *)
(* the list model and the row widgets create a command, call send or       *)
(* send_and_forget once, and let it go out of scope.  The list model's     *)
(* vfunc_init makes a second one and assigns it to the first, when that    *)
(* has had its answer.  Requests and answers are sequences of bytes; a     *)
(* byte of the request is its place.                                       *)
(*                                                                         *)
(* The kernel and the compositor are not part of the repository.  `owner'  *)
(* is the process's table of descriptors, in which others - the worker     *)
(* thread, GTK - open and close their own meanwhile.                       *)
(***************************************************************************)
EXTENDS Integers, Sequences

CONSTANTS
  RequestSize, \* bytes of the request
  AnswerSize,  \* bound: bytes of the answer
  Chunk,       \* bytes that one read takes at most: 4096 in the program
  Descriptors  \* bound: the descriptors that can be open

ASSUME RequestSizeAssumption == RequestSize \in Nat \ {0}
ASSUME AnswerSizeAssumption == AnswerSize \in Nat
ASSUME ChunkAssumption == Chunk \in Nat \ {0}
ASSUME DescriptorsAssumption == Descriptors \subseteq Nat

VARIABLES
  call,        \* "send" or "send_and_forget"
  pc,          \* where the call is
  m_socket_fd, \* of the temporary in create, of create's result where it is
               \* assigned, and of the command
  fd,          \* the local in connect_hyprland
  data,        \* write_all: the next byte
  count,       \* and how many are left
  response,    \* what read_all has appended
  outcome,     \* what the caller gets
  owner,       \* external: who has each descriptor
  taken,       \* external: the bytes the compositor was sent
  said,        \* external: the bytes it has answered
  closed       \* external: it has closed the connection

locals == <<fd, data, count, response>>
peer   == <<taken, said, closed>>
vars   == <<call, pc, m_socket_fd, locals, outcome, owner, peer>>

NoFd == -1

Objects == {"temporary", "result", "command"}

Request == [i \in 1..RequestSize |-> i]

TypeOK ==
  /\ call \in {"send", "send_and_forget"}
  /\ pc \in {"create", "connect", "construct", "destroyTemporary", "assign", "destroyResult",
             "write", "written", "read", "destroy", "gone", "terminated"}
  /\ m_socket_fd \in [Objects -> Descriptors \cup {NoFd}]
  /\ fd \in Descriptors \cup {NoFd}
  /\ data \in 1..RequestSize
  /\ count \in 0..RequestSize
  /\ response \in Seq(1..AnswerSize)
  /\ outcome \in {"pending", "failed", "sent", "answered", "thrown"}
  /\ owner \in [Descriptors -> {"nobody", "others", "command"}]
  /\ taken \in Seq(1..RequestSize)
  /\ said \in Seq(1..AnswerSize)
  /\ closed \in BOOLEAN

\* The command is the caller's first; or the optional that it is assigned to
\* still has the one that was answered.
Init ==
  /\ call \in {"send", "send_and_forget"}
  /\ pc = "create"
  /\ \E old \in {NoFd} \cup (IF call = "send" THEN Descriptors ELSE {}) :
       /\ m_socket_fd = [o \in Objects |-> IF o = "command" THEN old ELSE NoFd]
       /\ owner = [d \in Descriptors |-> IF d = old THEN "command" ELSE "nobody"]
  /\ fd = NoFd
  /\ data = 1 /\ count = RequestSize
  /\ response = <<>>
  /\ outcome = "pending"
  /\ taken = <<>> /\ said = <<>> /\ closed = FALSE

Go(from, to) == pc = from /\ pc' = to

-----------------------------------------------------------------------------
(* Descriptors                                                             *)

Free == {d \in Descriptors : owner[d] = "nobody"}

\* The kernel gives the lowest number that is free.
Opens(who, d) ==
  /\ d \in Free
  /\ \A e \in Free : d <= e
  /\ owner' = [owner EXCEPT ![d] = who]

\* Whoever has it: nothing stops a close of somebody else's descriptor.
Closes(d) == owner' = [owner EXCEPT ![d] = "nobody"]

OthersOpen ==
  /\ pc # "terminated"
  /\ \E d \in Descriptors : Opens("others", d)
  /\ UNCHANGED <<call, pc, m_socket_fd, locals, outcome, peer>>

OthersClose ==
  /\ pc # "terminated"
  /\ \E d \in Descriptors : owner[d] = "others" /\ Closes(d)
  /\ UNCHANGED <<call, pc, m_socket_fd, locals, outcome, peer>>

-----------------------------------------------------------------------------
(* create and connect_hyprland                                             *)

\* Without a result there is no command: the caller returns, after the
\* assignment has destroyed the one that the optional had.
NoResult == IF m_socket_fd["command"] = NoFd THEN "gone" ELSE "destroy"

\* No environment, a path that is too long, or no socket.
CreateFails ==
  /\ Go("create", NoResult)
  /\ outcome' = "failed"
  /\ UNCHANGED <<call, m_socket_fd, locals, owner, peer>>

Socket ==
  /\ Go("create", "connect")
  /\ \E d \in Descriptors : Opens("command", d) /\ fd' = d
  /\ UNCHANGED <<call, m_socket_fd, data, count, response, outcome, peer>>

ConnectFails ==
  /\ Go("connect", NoResult)
  /\ Closes(fd)
  /\ outcome' = "failed"
  /\ UNCHANGED <<call, m_socket_fd, locals, peer>>

Connect ==
  /\ Go("connect", "construct")
  /\ m_socket_fd' = [m_socket_fd EXCEPT !["temporary"] = fd]
  /\ UNCHANGED <<call, locals, outcome, owner, peer>>

\* The optional that create returns is constructed from the temporary, which
\* gets the -1 of the new object in exchange.  It is the caller's own, if that
\* is initialised with it.
MoveConstruct ==
  /\ Go("construct", "destroyTemporary")
  /\ LET made == IF m_socket_fd["command"] = NoFd THEN "command" ELSE "result"
     IN m_socket_fd' = [m_socket_fd EXCEPT !["temporary"] = NoFd,
                                           ![made] = m_socket_fd["temporary"]]
  /\ UNCHANGED <<call, locals, outcome, owner, peer>>

\* Mutant: the result keeps the descriptor that it gives away.
MoveAssignCopies ==
  /\ Go("assign", "destroyResult")
  /\ m_socket_fd' = [m_socket_fd EXCEPT !["command"] = m_socket_fd["result"]]
  /\ UNCHANGED <<call, locals, outcome, owner, peer>>

\* The caller's optional has a command and so has the result: they swap.
MoveAssign ==
  /\ Go("assign", "destroyResult")
  /\ m_socket_fd' = [m_socket_fd EXCEPT !["result"] = m_socket_fd["command"],
                                        !["command"] = m_socket_fd["result"]]
  /\ UNCHANGED <<call, locals, outcome, owner, peer>>

\* ~HyprlandCommand, and the object is no more.
Destroys(object) ==
  /\ IF m_socket_fd[object] # NoFd THEN Closes(m_socket_fd[object]) ELSE UNCHANGED owner
  /\ m_socket_fd' = [m_socket_fd EXCEPT ![object] = NoFd]

DestroyTemporary ==
  /\ Go("destroyTemporary", IF m_socket_fd["result"] = NoFd THEN "write" ELSE "assign")
  /\ Destroys("temporary")
  /\ UNCHANGED <<call, locals, outcome, peer>>

DestroyResult ==
  /\ Go("destroyResult", "write")
  /\ Destroys("result")
  /\ UNCHANGED <<call, locals, outcome, peer>>

DestroyCommand ==
  /\ Go("destroy", "gone")
  /\ Destroys("command")
  /\ UNCHANGED <<call, locals, outcome, peer>>

-----------------------------------------------------------------------------
(* send, send_and_forget, write_all and read_all                           *)

\* Mutant: the rest is written from the beginning of the buffer.
WriteWithoutAdvancing ==
  /\ pc = "write"
  /\ ~closed
  /\ \E n \in 1..count :
       /\ taken' = taken \o SubSeq(Request, data, data + n - 1)
       /\ count' = count - n
       /\ pc' = IF count' = 0 THEN "written" ELSE "write"
  /\ UNCHANGED <<call, m_socket_fd, fd, data, response, outcome, owner, said, closed>>

\* The kernel takes some of the bytes; count and data move together.
Write ==
  /\ pc = "write"
  /\ ~closed
  /\ \E n \in 1..count :
       /\ taken' = taken \o SubSeq(Request, data, data + n - 1)
       /\ count' = count - n
       /\ data' = IF count' = 0 THEN data ELSE data + n
       /\ pc' = IF count' = 0 THEN "written" ELSE "write"
  /\ UNCHANGED <<call, m_socket_fd, fd, response, outcome, owner, said, closed>>

WriteFails ==
  /\ Go("write", "destroy")
  /\ outcome' = "failed"
  /\ UNCHANGED <<call, m_socket_fd, locals, owner, peer>>

\* send_and_forget returns true: to the row widget, or to send.
Forget ==
  /\ call = "send_and_forget"
  /\ Go("written", "destroy")
  /\ outcome' = "sent"
  /\ UNCHANGED <<call, m_socket_fd, locals, owner, peer>>

WaitForAnswer ==
  /\ call = "send"
  /\ Go("written", "read")
  /\ UNCHANGED <<call, m_socket_fd, locals, outcome, owner, peer>>

\* A read takes what there is, up to the size of its buffer.
Read ==
  /\ pc = "read"
  /\ \E n \in 1..Chunk :
       /\ Len(response) + n <= Len(said)
       /\ response' = response \o SubSeq(said, Len(response) + 1, Len(response) + n)
  /\ UNCHANGED <<call, pc, m_socket_fd, fd, data, count, outcome, owner, peer>>

\* Nothing is left and the connection is closed: read returns zero.
ReadEnds ==
  /\ Go("read", "destroy")
  /\ closed
  /\ response = said
  /\ outcome' = "answered"
  /\ UNCHANGED <<call, m_socket_fd, locals, owner, peer>>

\* read returns -1 and read_all appends as many bytes before it looks: the
\* string throws, and nobody catches it.
ReadThrows ==
  /\ Go("read", "terminated")
  /\ outcome' = "thrown"
  /\ UNCHANGED <<call, m_socket_fd, locals, owner, peer>>

-----------------------------------------------------------------------------
(* The compositor                                                          *)

Connected == pc \notin {"create", "connect"} /\ outcome # "failed"

CompositorAnswers ==
  /\ taken = Request
  /\ ~closed
  /\ Len(said) < AnswerSize
  /\ said' = Append(said, Len(said) + 1)
  /\ UNCHANGED <<call, pc, m_socket_fd, locals, outcome, owner, taken, closed>>

\* After its answer, or before, when it ends.
CompositorCloses ==
  /\ Connected
  /\ ~closed
  /\ closed' = TRUE
  /\ UNCHANGED <<call, pc, m_socket_fd, locals, outcome, owner, taken, said>>

-----------------------------------------------------------------------------
Create == CreateFails \/ Socket \/ ConnectFails \/ Connect \/ MoveConstruct \/ DestroyTemporary

Assign == MoveAssign \/ DestroyResult

Send == Write \/ WriteFails \/ Forget \/ WaitForAnswer \/ Read \/ ReadEnds \/ ReadThrows

Next ==
  \/ Create
  \/ Assign
  \/ Send
  \/ DestroyCommand
  \/ OthersOpen
  \/ OthersClose
  \/ CompositorAnswers
  \/ CompositorCloses

Spec == Init /\ [][Next]_vars

-----------------------------------------------------------------------------
(* Properties                                                              *)

\* A descriptor is closed by whoever has it: each of the command's is in an
\* object or in the local, is the command's while it is there, also when
\* another command is assigned to it, and none is left when the call is over,
\* on every path.
DescriptorsAreOwned ==
  LET held == ({m_socket_fd[o] : o \in Objects} \ {NoFd})
              \cup (IF pc = "connect" THEN {fd} ELSE {})
  IN /\ {d \in Descriptors : owner[d] = "command"} = held
     /\ pc = "gone" => held = {}

\* However the request and the answer are cut up, a call that returns TRUE
\* has sent the whole request, one that fails has not, and an answer is all
\* that the compositor said; no answer is ended by a failed read.
Exchanged == INSTANCE Exchange WITH
  Byte <- 1..AnswerSize,
  delivered <- taken = Request,
  heard <- IF outcome = "answered" THEN response ELSE <<>>

ImplementsExchange == Exchanged!Spec

=============================================================================
