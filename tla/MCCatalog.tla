------------------------------ MODULE MCCatalog ------------------------------
(***************************************************************************)
(* Small instances of Catalog for TLC: what tables are created.            *)
(***************************************************************************)
EXTENDS Catalog

Define(name, columns, length) == [name |-> name, columns |-> columns, length |-> length]

DefaultDefinition == Define("default_table", 1, 3)

(* One name with two definitions, and a table too big for a block.         *)
Definitions == {Define("a", 1, 3), Define("a", 2, 5), Define("b", 1, 9)}
=============================================================================
