------------------------ MODULE NotificationService ------------------------
(***************************************************************************)
(* What the clients of org.freedesktop.Notifications and the user may rely *)
(* on: no threads, no queue and no searching.                              *)
(*                                                                         *)
(* A call has at most one answer.  The calls to Notify that are served are *)
(* served one by one in the order in which they were made, and each has    *)
(* its whole effect at the moment of its answer: a new notification is     *)
(* listed under an id that is greater than every one before, and the       *)
(* notification with the id that a call replaces, if it is listed, makes   *)
(* way for the call's, and no other does.                                  *)
(***************************************************************************)
EXTENDS Integers, Sequences

CONSTANTS Calls, NoReply, ErrorReply, OtherReply

VARIABLES
  calls,  \* the clients' calls, in their order
  reply,  \* the answer to each
  listed, \* the notifications, each the call it came with and its id
  given   \* the id that was given last

vars == <<calls, reply, listed, given>>

Init ==
  /\ calls = <<>>
  /\ reply = <<>>
  /\ listed = {}
  /\ given = 0

Call ==
  /\ \E call \in Calls : calls' = Append(calls, call)
  /\ reply' = Append(reply, NoReply)
  /\ UNCHANGED <<listed, given>>

Open(c) == reply[c] = NoReply

Answer(c, value) ==
  /\ Open(c)
  /\ reply' = [reply EXCEPT ![c] = value]
  /\ UNCHANGED calls

Inform(c) ==
  /\ calls[c].method \in {"GetCapabilities", "GetServerInformation"}
  /\ Answer(c, OtherReply)
  /\ UNCHANGED <<listed, given>>

Refuse(c) == Answer(c, ErrorReply) /\ UNCHANGED <<listed, given>>

\* No call to Notify from before c still waits.
Turn(c) ==
  /\ calls[c].method = "Notify"
  /\ \A d \in 1..(c - 1) : calls[d].method = "Notify" => ~Open(d)

Post(c) ==
  /\ Turn(c)
  /\ calls[c].replaces = 0
  /\ given' \in Nat
  /\ given' > given
  /\ Answer(c, given')
  /\ listed' = listed \cup {[call |-> c, id |-> given']}

Replace(c) ==
  /\ Turn(c)
  /\ calls[c].replaces # 0
  /\ Answer(c, calls[c].replaces)
  /\ listed' = {IF n.id = calls[c].replaces THEN [n EXCEPT !.call = c] ELSE n : n \in listed}
  /\ UNCHANGED given

\* The user clicks the notification away.
Dismiss ==
  /\ \E n \in listed : listed' = listed \ {n}
  /\ UNCHANGED <<calls, reply, given>>

Next ==
  \/ Call
  \/ \E c \in DOMAIN calls : Inform(c) \/ Refuse(c) \/ Post(c) \/ Replace(c)
  \/ Dismiss

Spec == Init /\ [][Next]_vars

=============================================================================
