------------------------------ MODULE Exchange ------------------------------
(***************************************************************************)
(* What a caller of HyprlandCommand may rely on: one request, one outcome. *)
(*                                                                         *)
(*   failed     the compositor does not have the whole request             *)
(*   sent       it does; nobody waits for the answer                       *)
(*   answered   it does, and all that it answered until it closed the      *)
(*              connection was heard                                       *)
(*   thrown     the exception after a failed read                          *)
(***************************************************************************)
EXTENDS Sequences

CONSTANT Byte \* what answers are made of

VARIABLES
  delivered, \* the compositor has the request, whole and in order
  said,      \* what it has answered
  closed,    \* it has closed its end of the connection
  outcome,   \* of the call
  heard      \* the answer that the caller gets

vars == <<delivered, said, closed, outcome, heard>>

Init ==
  /\ delivered = FALSE
  /\ said = <<>>
  /\ closed = FALSE
  /\ outcome = "pending"
  /\ heard = <<>>

Deliver ==
  /\ outcome = "pending"
  /\ ~closed
  /\ delivered' = TRUE
  /\ UNCHANGED <<said, closed, outcome, heard>>

\* No answer comes before the request or after the end of the connection.
Say ==
  /\ delivered
  /\ ~closed
  /\ \E byte \in Byte : said' = Append(said, byte)
  /\ UNCHANGED <<delivered, closed, outcome, heard>>

Close ==
  /\ ~closed
  /\ closed' = TRUE
  /\ UNCHANGED <<delivered, said, outcome, heard>>

Fail ==
  /\ ~delivered
  /\ outcome = "pending"
  /\ outcome' = "failed"
  /\ UNCHANGED <<delivered, said, closed, heard>>

Forget ==
  /\ delivered
  /\ outcome = "pending"
  /\ outcome' = "sent"
  /\ UNCHANGED <<delivered, said, closed, heard>>

Answer ==
  /\ delivered
  /\ closed
  /\ outcome = "pending"
  /\ outcome' = "answered"
  /\ heard' = said
  /\ UNCHANGED <<delivered, said, closed>>

Throw ==
  /\ delivered
  /\ outcome = "pending"
  /\ outcome' = "thrown"
  /\ UNCHANGED <<delivered, said, closed, heard>>

Next == Deliver \/ Say \/ Close \/ Fail \/ Forget \/ Answer \/ Throw

Spec == Init /\ [][Next]_vars

=============================================================================
