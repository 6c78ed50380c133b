---------------------------- MODULE MCColumnStore ----------------------------
(***************************************************************************)
(* Small instances of ColumnStore for TLC: how long the values are.        *)
(***************************************************************************)
EXTENDS ColumnStore

(* Columns of numbers: every value has the same length.                    *)
Numbers == [c \in Column |-> [r \in Row |-> 1]]

(* The second column is of strings, some of them longer.                   *)
Strings == [c \in Column |-> [r \in Row |-> IF c = 2 /\ r % 2 = 0 THEN 2 ELSE 1]]

(* The second column's values are twice as long.                           *)
Wide == [c \in Column |-> [r \in Row |-> c]]
=============================================================================
