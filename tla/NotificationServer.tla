------------------------- MODULE NotificationServer -------------------------
(***************************************************************************)
(* The D-Bus object org.freedesktop.Notifications.  It is started and      *)
(* served on the worker thread; a valid Notify is passed on to the main    *)
(* thread, which also answers it.                                          *)
(*                                                                         *)
(* The clients and GDBus are not part of the repository.  A call is known  *)
(* by its place in `calls', and what the client got for it is at the same  *)
(* place in `reply'.                                                       *)
(***************************************************************************)
EXTENDS Integers, Sequences, FiniteSets

CONSTANTS
  ReplacesIds, \* the values of replaces_id in the clients' calls
  OtherCalls,  \* which calls besides a valid Notify the clients make
  MaxCalls     \* bound: how many calls the clients make

ASSUME ReplacesIdsAssumption == ReplacesIds \subseteq Nat
ASSUME OtherCallsAssumption ==
  OtherCalls \subseteq {"GetCapabilities", "GetServerInformation", "CloseNotification",
                        "InvalidNotify"}
ASSUME MaxCallsAssumption == MaxCalls \in Nat

VARIABLES
  name,         \* where g_bus_own_name stands
  m_bus_id,     \* the four members, but for what they identify
  m_object_id,
  m_connection,
  m_is_running,
  calls,        \* the clients' calls, in the order of their arrival
  received,     \* how many of them bus_method_call was given
  reply,        \* the answer to each call
  queue         \* closures for the main thread: calls to Notify

memberVars == <<m_bus_id, m_object_id, m_connection, m_is_running>>
serverVars == <<name, memberVars, calls, received, reply, queue>>

NameStates == {"idle", "requested", "bus", "owner", "lost"}

\* InvalidNotify is a Notify whose parameters have another type.
Calls == [method : OtherCalls, replaces : {0}]
           \cup [method : {"Notify"}, replaces : ReplacesIds]

\* Answers; an answer to Notify is an id.
NoReply    == -1
ErrorReply == -2
OtherReply == -3
Replies    == Nat \cup {NoReply, ErrorReply, OtherReply}

ServerTypeOK ==
  /\ name \in NameStates
  /\ m_bus_id \in BOOLEAN
  /\ m_object_id \in BOOLEAN
  /\ m_connection \in BOOLEAN
  /\ m_is_running \in BOOLEAN
  /\ calls \in Seq(Calls)
  /\ received \in 0..Len(calls)
  /\ reply \in Seq(Replies)
  /\ Len(reply) = Len(calls)
  /\ queue \in Seq(DOMAIN calls)

ServerInit ==
  /\ name = "idle"
  /\ m_bus_id = FALSE
  /\ m_object_id = FALSE
  /\ m_connection = FALSE
  /\ m_is_running = FALSE
  /\ calls = <<>>
  /\ received = 0
  /\ reply = <<>>
  /\ queue = <<>>

-----------------------------------------------------------------------------
(* Owning the name.  GDBus calls back on the worker thread's context.      *)

Start ==
  /\ name = "idle"
  /\ name' = "requested"
  /\ m_bus_id' = TRUE
  /\ UNCHANGED <<m_object_id, m_connection, m_is_running, calls, received, reply, queue>>

\* Registering the object may fail: the error is logged, and the server goes on.
OnBusAquire ==
  /\ name = "requested"
  /\ name' = "bus"
  /\ m_object_id' \in BOOLEAN
  /\ m_connection' = TRUE
  /\ UNCHANGED <<m_bus_id, m_is_running, calls, received, reply, queue>>

OnNameAquire ==
  /\ name = "bus"
  /\ name' = "owner"
  /\ m_is_running' = TRUE
  /\ UNCHANGED <<m_bus_id, m_object_id, m_connection, calls, received, reply, queue>>

Stop ==
  /\ m_bus_id' = FALSE
  /\ m_object_id' = FALSE
  /\ m_connection' = FALSE
  /\ m_is_running' = FALSE

\* No bus, another owner, or the connection is gone.
OnNameLost ==
  /\ name \in {"requested", "bus", "owner"}
  /\ name' = "lost"
  /\ Stop
  /\ UNCHANGED <<calls, received, reply, queue>>

-----------------------------------------------------------------------------

\* A client calls the owner of the name.
ClientCalls(call) ==
  /\ name = "owner"
  /\ Len(calls) < MaxCalls
  /\ calls' = Append(calls, call)
  /\ reply' = Append(reply, NoReply)
  /\ UNCHANGED <<name, memberVars, received, queue>>

Answer(c, value) == reply' = [reply EXCEPT ![c] = value]

CommandNotify(c) ==
  IF calls[c].method = "InvalidNotify"
  THEN Answer(c, ErrorReply) /\ UNCHANGED queue
  ELSE queue' = Append(queue, c) /\ UNCHANGED reply

\* command_close_notification has no body.
CommandCloseNotification == UNCHANGED <<reply, queue>>

\* Mutant: the worker thread answers a valid Notify at once.
BusMethodCallAnswersNotify ==
  LET c == received + 1
  IN  /\ m_object_id
      /\ received < Len(calls)
      /\ received' = c
      /\ reply' = [reply EXCEPT ![c] = OtherReply]
      /\ queue' = IF calls[c].method = "Notify" THEN Append(queue, c) ELSE queue
      /\ UNCHANGED <<name, memberVars, calls>>

\* Mutant: a Notify that finds another one waiting is not passed on.
BusMethodCallWhenIdle ==
  LET c == received + 1
  IN  /\ m_object_id
      /\ received < Len(calls)
      /\ received' = c
      /\ queue' = IF calls[c].method = "Notify" /\ queue = <<>> THEN Append(queue, c) ELSE queue
      /\ UNCHANGED <<name, memberVars, calls, reply>>

\* Mutant: the closure holds the invocation of the call before.
BusMethodCallKeepsLast ==
  LET c == received + 1
  IN  /\ m_object_id
      /\ received < Len(calls)
      /\ received' = c
      /\ queue' = IF calls[c].method = "Notify" THEN Append(queue, received) ELSE queue
      /\ UNCHANGED <<name, memberVars, calls, reply>>

\* GDBus gives the next call to bus_method_call while the object is registered.
BusMethodCall ==
  LET c == received + 1
  IN  /\ m_object_id
      /\ received < Len(calls)
      /\ received' = c
      /\ UNCHANGED <<name, memberVars, calls>>
      /\ \/ /\ calls[c].method \in {"GetCapabilities", "GetServerInformation"}
            /\ Answer(c, OtherReply)
            /\ UNCHANGED queue
         \/ /\ calls[c].method \in {"Notify", "InvalidNotify"}
            /\ CommandNotify(c)
         \/ /\ calls[c].method = "CloseNotification"
            /\ CommandCloseNotification

\* Without the object GDBus answers for itself.
BusRejectsCall ==
  /\ name = "owner"
  /\ ~m_object_id
  /\ received < Len(calls)
  /\ received' = received + 1
  /\ Answer(received + 1, ErrorReply)
  /\ UNCHANGED <<name, memberVars, calls, queue>>

WorkerStep ==
  \/ Start
  \/ OnBusAquire
  \/ OnNameAquire
  \/ OnNameLost
  \/ BusMethodCall
  \/ BusRejectsCall

=============================================================================
