------------------------------ MODULE MCLayout ------------------------------
(* Lists for the window: sequences cannot be written in a cfg.             *)
EXTENDS Layout

\* 258 is cast to the notifications; 3 is Module::COUNT.
Values == {0, 1, 3, 258, NotInteger}

Short == UNION {[1..n -> Values] : n \in 0..2}

\* Lists of up to two elements in all, and each order of the three modules
\* over two boxes.
MCTables ==
  {t \in [Locations -> Short] : Len(t["start"]) + Len(t["center"]) + Len(t["end"]) <= 2}
  \cup {[l \in Locations |-> CASE l = "start"  -> SubSeq(order, 1, n)
                               [] l = "center" -> <<>>
                               [] l = "end"    -> SubSeq(order, n + 1, 3)] :
          order \in {o \in [1..3 -> Modules] : \A i, j \in 1..3 : o[i] = o[j] => i = j}, n \in 0..3}
=============================================================================
