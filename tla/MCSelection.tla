----------------------------- MODULE MCSelection -----------------------------
(***************************************************************************)
(* A small instance of Selection for TLC: two columns, a handful of rows   *)
(* and of statements of every kind the planner tells apart.                *)
(***************************************************************************)
EXTENDS Selection

Rows == {<<0, 1>>, <<1, 0>>, <<1, 2>>}

Whole(n) == [whole |-> n, fraction |-> FALSE]
Where(c, cmp, n) == [col |-> c, cmp |-> cmp, value |-> Whole(n), or |-> FALSE]
Or(k) == [k EXCEPT !.or = TRUE]
Point(k) == [k EXCEPT !.value.fraction = TRUE] \* 1.5 for 1

One == {<<Where(c, cmp, 1)>> : c \in Column, cmp \in Comparator}

Two ==
  {<<Where(1, ">", 0), Where(2, "<", 2)>>,
   <<Where(2, "=", 1), Where(1, "<", 1)>>,
   <<Where(2, ">", 0), Where(2, "<", 2)>>,   \* one column twice
   <<Where(1, "<", 1), Where(2, "!=", 1)>>}  \* its value is lost in the parser

Odd == {<<[Where(1, "=", 0) EXCEPT !.value = NotANumber]>>, <<Where(Unknown, "=", 1)>>}

Fractions ==
  {<<Point(Where(2, cmp, 1))>> : cmp \in {">", "<", "="}}
    \cup {<<Point(Where(2, ">", 0)), Where(1, "<", 1)>>}

Alternatives == {<<Where(1, "=", 0), Or(Where(2, "=", 0))>>}

Queries ==
  [select : {Star, <<1>>, <<2, 1>>},
   where : {<<>>} \cup One \cup Two \cup Odd \cup Fractions \cup Alternatives]
    \cup {[select |-> <<1, Unknown>>, where |-> <<>>]}
=============================================================================
