---------------------------- MODULE MCTimeModule ----------------------------
(* Sixteen cells, four of them for the formats.  "c" fills what is left of *)
(* the buffer, "bad" and "worse" are malformed, "none" is empty.           *)
EXTENDS TimeModule

MCFormats == {"HM", "dmy", "c", "bad", "worse", "none"}

MCMalformed == {"bad", "worse"}

MCLength == [HM |-> 1, dmy |-> 2, c |-> 2, bad |-> 1, worse |-> 3, none |-> 0]

MCTexts == [HM |-> {2}, dmy |-> {2}, c |-> {16}, bad |-> {1}, worse |-> {1}, none |-> {0},
            nil |-> {0}]

MCCalls ==
  {[time |-> t, date |-> d] :
     <<t, d>> \in {<<"bad", "none">>, <<"none", "worse">>, <<"c", "nil">>}}
=============================================================================
