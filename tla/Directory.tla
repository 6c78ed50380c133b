------------------------------ MODULE Directory ------------------------------
(***************************************************************************)
(* What the tables of a database promise the sessions that use them: a     *)
(* name, once defined, means the same for everybody for good; and a        *)
(* session, when it comes to know the tables, knows all there are.         *)
(***************************************************************************)
EXTENDS Naturals

CONSTANTS
  Session,      \* sessions of one database
  Definition,   \* what a table may be: records with a name
  Default       \* the table every database has

VARIABLES
  tables,       \* the tables of the database
  known         \* the tables each session that is at rest can use

vars == <<tables, known>>

Init ==
  /\ tables = {Default}
  /\ known = [k \in Session |-> {}]

Create ==
  /\ \E d \in Definition :
       /\ \A e \in tables : e.name # d.name
       /\ tables' = tables \cup {d}
  /\ UNCHANGED known

Learn(k) ==
  /\ known' = [known EXCEPT ![k] = tables]
  /\ UNCHANGED tables

(* A session that is busy, or all of them when the server ends.            *)
Forget(ks) ==
  /\ known' = [k \in Session |-> IF k \in ks THEN {} ELSE known[k]]
  /\ UNCHANGED tables

Next == Create \/ (\E k \in Session : Learn(k) \/ Forget({k})) \/ Forget(Session)

Spec == Init /\ [][Next]_vars
=============================================================================
