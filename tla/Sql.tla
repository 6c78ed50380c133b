-------------------------------- MODULE Sql ---------------------------------
(***************************************************************************)
(* Statements: the words a client types, the tokens the server makes of    *)
(* them (sql/parser/word_separater.h), and the trees it builds from tokens *)
(* (sql/parser/ast.h).                                                     *)
(*                                                                         *)
(* A word is what a scan of the text cuts out at once: a run of letters    *)
(* ("word"), a run of digits ("digits"), a quoted string, a punctuation    *)
(* mark; or a quote that is never closed ("unclosed").                     *)
(***************************************************************************)
EXTENDS Lists, SequencesExt

KEY_WORDS ==
  {"SELECT", "FROM", "WHERE", "INSERT", "INTO", "VALUES", "CREATE", "TABLE", "DROP",
   "UPDATE", "SET", "DELETE", "ALTER", "ADD", "COLUMN", "AND", "OR", "NOT",
   "IN", "LIKE", "JOIN", "ON", "ORDER", "BY", "GROUP", "HAVING",
   "INT", "FLOAT", "VCHAR", "VECTOR", "DATABASE"}

Empty == ""

Token(type, value) == [type |-> type, value |-> value]

Keyword(k) == Token("KEYWORD_T", k)
Identifier(i) == Token("IDENTIFIER_T", i)
Mark(m) == Token("OPERATOR_T", m)
AnyIdentifier == Identifier(Empty)
AnyValue == Token("STRING_T", Empty)

TokenOf(word) ==
  CASE word.class = "word" -> IF word.text \in KEY_WORDS THEN Keyword(word.text)
                              ELSE Identifier(word.text)
    [] word.class = "digits" -> Token("NUMBER_T", word.text)
    [] word.class = "quoted" -> Token("STRING_T", word.text)
    [] word.class = "mark" -> Mark(word.text)

(* A quote that is never closed leaves no token at all.                    *)
Tokenize(words) ==
  IF \E i \in DOMAIN words : words[i].class = "unclosed" THEN <<>>
  ELSE [i \in DOMAIN words |-> TokenOf(words[i])]

IsValue(token) == token.type \in {"NUMBER_T", "STRING_T"}

NoToken == Token("UNKNOWN_T", Empty)
At(tokens, i) == IF i \in DOMAIN tokens THEN tokens[i] ELSE NoToken

-----------------------------------------------------------------------------
(* The trees. A constructor that throws, in a thread that catches nothing, *)
(* ends the server: its result is Thrown.                                  *)
Thrown == [node |-> "THROWN"]

First(tokens, from, token) ==
  CHOOSE i \in from .. Len(tokens) + 1 :
    /\ i <= Len(tokens) => tokens[i] = token
    /\ \A j \in from .. i - 1 : tokens[j] # token

(* What stands between two places of a list, without the commas.           *)
Items(tokens, from, to) ==
  Sifted(SubSeq(tokens, from, to - 1), Range(tokens) \ {Mark(",")})

ValuesOf(tokens) == [i \in DOMAIN tokens |-> tokens[i].value]

CreateDatabaseSql(tokens) == [node |-> "CREATE_DATABASE_NODE", db_name |-> tokens[3].value]

(* GetValueTypeFromStr: VECTOR is a keyword, but no value type.            *)
ValueTypes == {"INT", "FLOAT", "VCHAR"}

CreateTableSql(tokens) ==
  LET items == ValuesOf(Items(tokens, 5, First(tokens, 5, Mark(")"))))
      columns == [i \in 1 .. Len(items) \div 2 |->
                    [col_name |-> items[2 * i - 1], value_type |-> items[2 * i]]]
  IN  IF \A i \in DOMAIN columns : columns[i].value_type \in ValueTypes
      THEN [node |-> "CREATE_TABLE_NODE", table_name |-> tokens[3].value, columns |-> columns]
      ELSE Thrown

(* The second list starts three tokens behind the end of the first one.    *)
InsertIntoTableSql_OneToken(tokens) ==
  LET columns_end == First(tokens, 5, Mark(")"))
      values_end == First(tokens, columns_end + 2, Mark(")"))
  IN  [node |-> "INSERT_INTO_TABLE_NODE",
       table_name |-> tokens[3].value,
       columns |-> ValuesOf(Items(tokens, 5, columns_end)),
       values |-> ValuesOf(Items(tokens, columns_end + 2, values_end))]
InsertIntoTableSql(tokens) ==
  LET columns_end == First(tokens, 5, Mark(")"))
      values_end == First(tokens, columns_end + 3, Mark(")"))
  IN  [node |-> "INSERT_INTO_TABLE_NODE",
       table_name |-> tokens[3].value,
       columns |-> ValuesOf(Items(tokens, 5, columns_end)),
       values |-> ValuesOf(Items(tokens, columns_end + 3, values_end))]

-----------------------------------------------------------------------------
(* Conditions of a SELECT. A comparison is a column, an operator of one or *)
(* two tokens, and a value; behind a two-token operator its second token   *)
(* is taken for the value. SwitchComparator throws on other operators.     *)
Comparators == {">", "<", "=", "!="}

ShortComparison(tokens, i) ==
  /\ At(tokens, i).type = "IDENTIFIER_T"
  /\ At(tokens, i + 1).type = "OPERATOR_T"
  /\ IsValue(At(tokens, i + 2))

LongComparison(tokens, i) ==
  /\ At(tokens, i).type = "IDENTIFIER_T"
  /\ At(tokens, i + 1).type = "OPERATOR_T"
  /\ At(tokens, i + 2).type = "OPERATOR_T"
  /\ IsValue(At(tokens, i + 3))

Compare(tokens, i) ==
  [col |-> tokens[i].value, condition |-> tokens[i + 1].value,
   compare_value |-> tokens[i + 2].value]

Connective(token) == token \in {Keyword("AND"), Keyword("OR")}

(* The loop over the conditions, from token i on. "pre" says whether a     *)
(* condition has been read. Its result is where it stopped, and with what; *)
(* place 0 stands for an exception. WHERE is followed by a short           *)
(* comparison only.                                                        *)
Stop(i) == [at |-> i, compares |-> <<>>, operators |-> <<>>]
Throw == Stop(0)

Read(compare, operators, rest) ==
  IF compare.condition \notin Comparators THEN Throw
  ELSE [rest EXCEPT !.compares = <<compare>> \o @, !.operators = operators \o @]

Conditions(tokens, first) ==
  LET loop[place \in (1 .. Len(tokens) + 5) \X BOOLEAN] ==
        LET i == place[1]
            pre == place[2]
            token == At(tokens, i)
            pair == <<At(tokens, i + 2).value, At(tokens, i + 3).value>>
        IN  IF i > Len(tokens) \/ token = Mark(";") THEN Stop(i)
            ELSE IF Connective(token)
            THEN CASE pre /\ ShortComparison(tokens, i + 1) ->
                        Read(Compare(tokens, i + 1), <<token.value>>, loop[<<i + 4, TRUE>>])
                   [] pre /\ LongComparison(tokens, i + 1) /\ pair = <<"!", "=">> ->
                        Read([Compare(tokens, i + 1) EXCEPT !.condition = "!="],
                             <<token.value>>, loop[<<i + 5, TRUE>>])
                   [] OTHER -> Throw
            ELSE IF token.value = "WHERE" /\ ShortComparison(tokens, i + 1)
            THEN Read(Compare(tokens, i + 1), <<>>, loop[<<i + 4, TRUE>>])
            ELSE Stop(i)
  IN  loop[<<first, FALSE>>]

(* Two things throw: a selected column followed by a *, and conditions     *)
(* that do not end with the ; that ends the statement.                     *)
SelectFromOneTableSql(tokens) ==
  LET from == First(tokens, 2, Keyword("FROM"))
      where == Conditions(tokens, from + 2)
  IN  IF \/ \E i \in 2 .. from - 1 : tokens[i] # Mark(",") /\ At(tokens, i + 1).value = "*"
         \/ where.at # Len(tokens)
         \/ At(tokens, where.at) # Mark(";")
      THEN Thrown
      ELSE [node |-> "SELECT_FROM_ONE_TABLE_NODE",
            table_name |-> tokens[from + 1].value,
            columns |-> ValuesOf(Items(tokens, 2, from)),
            compare_vector |-> where.compares,
            operators |-> where.operators]

(* NodeBuilder. No pattern matched: there is no tree.                      *)
NoTree == [node |-> "UNSUPPORT_NODE"]

BuildNode(tokens, node) ==
  CASE node = "CREATE_DATABASE_NODE" -> CreateDatabaseSql(tokens)
    [] node = "CREATE_TABLE_NODE" -> CreateTableSql(tokens)
    [] node = "INSERT_INTO_TABLE_NODE" -> InsertIntoTableSql(tokens)
    [] node = "SELECT_FROM_ONE_TABLE_NODE" -> SelectFromOneTableSql(tokens)
    [] node = "UNSUPPORT_NODE" -> NoTree
=============================================================================
