------------------------------ MODULE MCParser ------------------------------
(***************************************************************************)
(* A small instance of Parser for TLC: statements of each kind, with and   *)
(* without what the patterns make optional, and what users get wrong.      *)
(***************************************************************************)
EXTENDS Parser, TLC

CONSTANTS w1, w2

TheTable == [name |-> "t", columns |-> <<[col_name |-> "a", value_type |-> "INT"],
                                         [col_name |-> "b", value_type |-> "VCHAR"]>>]

(* One text is longer than any INT.                                        *)
Ints == "1" :> "1" @@ "1.5" :> "1"
Floats == "1" :> "1" @@ "1.5" :> "1.5" @@ "99999999999" :> "99999999999"

Creates(columns) == [node |-> "CREATE_TABLE_NODE", table_name |-> "u", columns |-> columns]
Typed(name, type) == [col_name |-> name, value_type |-> type]

Inserts(columns, values) ==
  [node |-> "INSERT_INTO_TABLE_NODE", table_name |-> "t", columns |-> columns, values |-> values]

Selects(columns, where, operators) ==
  [node |-> "SELECT_FROM_ONE_TABLE_NODE", table_name |-> "t", columns |-> columns,
   compare_vector |-> where, operators |-> operators]
Where(c, cmp, v) == [col |-> c, condition |-> cmp, compare_value |-> v]

TheTrees ==
  {[node |-> "CREATE_DATABASE_NODE", db_name |-> "d"],
   Creates(<<Typed("a", "INT"), Typed("b", "VCHAR")>>),
   Creates(<<Typed("a", "VECTOR")>>),
   Inserts(<<"b", "a", "b">>, <<"'x'", "1.5", "1">>),
   Inserts(<<"b", "a">>, <<"1", "99999999999">>),
   Inserts(<<"a", "b">>, <<"1">>),
   Selects(<<"a", "b">>, <<Where("b", "=", "'x'"), Where("a", ">", "1")>>, <<"OR">>),
   Selects(<<"a">>, <<Where("a", "!=", "1")>>, <<>>),
   Selects(<<"*">>, <<Where("a", "<", "1"), Where("a", "!=", "1")>>, <<"AND">>),
   Selects(<<"c", "a">>, <<>>, <<>>),
   Selects(<<"*">>, <<Where("a", "=", "'x'")>>, <<>>)}

(* Statements that are none: a column, the semicolon or WHERE is missing; a *)
(* quote stays open; a keyword is no type; a * is not alone; a condition   *)
(* is said twice.                                                          *)
Select(rest) == Words(<<"SELECT", "a", "FROM", "t">>) \o rest
IsOne(k) == Words(<<k, "a">>) \o Marked("=") \o Literal("1")

Slips ==
  {Words(<<"SELECT", "FROM", "t">>) \o Marked(";"),
   Select(<<>>),
   Select(Words(<<"WHERE", "a">>) \o Marked("=") \o <<Text("unclosed", "'x;")>>),
   Select(IsOne("OR") \o Marked(";")),
   Select(IsOne("WHERE") \o IsOne("WHERE") \o Marked(";")),
   Words(<<"SELECT">>) \o Marked("*") \o Marked(",") \o Words(<<"a", "FROM", "t">>) \o Marked(";"),
   Words(<<"CREATE", "TABLE", "u">>) \o Marked("(") \o Words(<<"a", "SELECT">>)
     \o Marked(")") \o Marked(";")}

(* Nothing, a word, a quote.                                               *)
Remains == {<<>>, Words(<<"x">>), <<Text("unclosed", "'")>>}
=============================================================================
