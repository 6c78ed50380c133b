-------------------------------- MODULE Table --------------------------------
(***************************************************************************)
(* What a table promises its clients, whatever lies below it: an INSERT    *)
(* adds one record, and a SELECT answers with every record of the table,   *)
(* each once.                                                              *)
(***************************************************************************)
EXTENDS Sequences, FiniteSets, Naturals

CONSTANTS
  Client,   \* sessions that send statements
  Record    \* records a table may hold

VARIABLES
  records,  \* the records of the table
  answer    \* the records each client was last given

vars == <<records, answer>>

Init ==
  /\ records = {}
  /\ answer = [k \in Client |-> <<>>]

(* A statement begins: the previous answer is gone.                        *)
Ask(k) ==
  /\ answer' = [answer EXCEPT ![k] = <<>>]
  /\ UNCHANGED records

Insert ==
  /\ \E r \in Record \ records : records' = records \cup {r}
  /\ UNCHANGED answer

(* In which order the records come is left open.                           *)
Select(k) ==
  /\ answer[k] = <<>>
  /\ Len(answer'[k]) = Cardinality(records)
  /\ {answer'[k][i] : i \in DOMAIN answer'[k]} = records
  /\ answer' = [answer EXCEPT ![k] = answer'[k]]
  /\ UNCHANGED records

Next == Insert \/ \E k \in Client : Ask(k) \/ Select(k)

Spec == Init /\ [][Next]_vars
=============================================================================
