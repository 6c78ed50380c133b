------------------------------- MODULE Parser -------------------------------
(***************************************************************************)
(* Parsing and dispatch in the worker threads: sql/parser/sql_pattern.h    *)
(* matches a statement's tokens against one pattern after another,         *)
(* sql/parser/parser.h builds the tree of the first that fits, and         *)
(* bench/worker.h hands the tree to who executes it.                       *)
(*                                                                         *)
(* The patterns are global: all workers match against the same objects, at *)
(* once. A pattern that stands for a choice (a "range") remembers in       *)
(* match_length how many tokens its last match took; its user reads that   *)
(* later, once or twice, from wherever the last match of anybody left it.  *)
(*                                                                         *)
(* A step is a check of one part of a pattern, or one read of a            *)
(* match_length; all else is the worker's own. The pattern of DELETE is    *)
(* left out, as it does not compile.                                       *)
(***************************************************************************)
EXTENDS Sql, FiniteSets

CONSTANTS
  Worker,        \* worker threads
  Root,          \* those of them that serve root users
  Legal,         \* trees whose statements users may send
  Garbage,       \* other sequences of words users may send
  Behind,        \* sequences of words that may lie behind a statement in memory
  Table,         \* the one table there is: its name and columns
  StoI, StoF,    \* std::stoi, std::stof: numbers of the texts that have one
  MaxStatements  \* bound: statements of a worker

(* What cannot be a value: see InitValue and JoinedCell.                   *)
NoValue == "cannot be converted"
OutOfRange == "out of range"

(* The trees users may mean: of columns and tables with names of letters,  *)
(* in lists that are not empty, and of conditions joined by connectives.   *)
Name == STRING \ (KEY_WORDS \cup {"*"})
ValueText == STRING \ {NoValue, OutOfRange}
Filled(S) == Seq(S) \ {<<>>}

Trees ==
  [node : {"CREATE_DATABASE_NODE"}, db_name : Name]
    \cup [node : {"CREATE_TABLE_NODE"}, table_name : Name,
          columns : Filled([col_name : Name, value_type : ValueTypes \cup {"VECTOR"}])]
    \cup [node : {"INSERT_INTO_TABLE_NODE"}, table_name : Name,
          columns : Filled(Name), values : Filled(ValueText)]
    \cup {tree \in [node : {"SELECT_FROM_ONE_TABLE_NODE"}, table_name : Name,
                    columns : Filled(Name) \cup {<<"*">>},
                    compare_vector : Seq([col : Name, condition : Comparators,
                                          compare_value : ValueText]),
                    operators : Seq({"AND", "OR"})] :
            \/ tree.compare_vector = <<>> /\ tree.operators = <<>>
            \/ Len(tree.compare_vector) = Len(tree.operators) + 1}

Word == [class : {"word", "digits", "quoted", "mark", "unclosed"}, text : STRING]

ASSUME ParserAssumption ==
  /\ Root \subseteq Worker
  /\ MaxStatements \in Nat
  /\ \A tree \in Legal : tree \in Trees
  /\ \A words \in Garbage \cup Behind : words \in Seq(Word)
  /\ Table.columns \in Seq([col_name : STRING, value_type : ValueTypes])
  /\ StoI \in [DOMAIN StoI -> ValueText]
  /\ StoF \in [DOMAIN StoF -> ValueText]

-----------------------------------------------------------------------------
(* Patterns. A pattern is a sequence of elements; an optional one may be   *)
(* there any number of times. An element is a sequence of parts: certain   *)
(* tokens, or a range. Certain elements of the source that stand one       *)
(* behind the other are one element here: all match, or none.              *)
Certain(templates) == [range |-> Empty, templates |-> templates, next |-> <<>>]

(* One of the templates, or else the next pattern.                         *)
OneOf(range, templates, next) == [range |-> range, templates |-> templates, next |-> next]

Needed(parts) == [parts |-> parts, necessary |-> TRUE]
Optional(parts) == [parts |-> parts, necessary |-> FALSE]

NEXT_ID == Optional(<<Certain(<<Mark(","), AnyIdentifier>>)>>)
NEXT_VALUE == Optional(<<Certain(<<Mark(","), AnyValue>>)>>)

TypeKeywords == <<Keyword("INT"), Keyword("FLOAT"), Keyword("VCHAR"), Keyword("VECTOR")>>
VALUE_TYPE == Needed(<<OneOf("VALUE_TYPE", TypeKeywords, <<>>)>>)
NEXT_COLUMN ==
  Optional(<<Certain(<<Mark(","), AnyIdentifier>>),
             OneOf("NEXT_VALUE_TYPE", TypeKeywords, <<>>)>>)

FIRST_COL == Needed(<<OneOf("FIRST_COL", <<Mark("*")>>, <<AnyIdentifier>>)>>)

COMPARER(range) == OneOf(range, <<Mark(">"), Mark("<"), Mark("=")>>, <<Mark("!"), Mark("=")>>)
CONDITION ==
  Optional(<<Certain(<<Keyword("WHERE"), AnyIdentifier>>), COMPARER("COMPARER"),
             Certain(<<AnyValue>>)>>)
NEXT_CONDITION ==
  Optional(<<OneOf("OPERATOR", <<Keyword("AND"), Keyword("OR")>>, <<>>),
             Certain(<<AnyIdentifier>>), COMPARER("NEXT_COMPARER"), Certain(<<AnyValue>>)>>)

Tokens(templates) == Needed(<<Certain(templates)>>)

CREATE_DATABASE_SQL_PATTERN ==
  <<Tokens(<<Keyword("CREATE"), Keyword("DATABASE"), AnyIdentifier, Mark(";")>>)>>

CREATE_TABLE_SQL_PATTERN ==
  <<Tokens(<<Keyword("CREATE"), Keyword("TABLE"), AnyIdentifier, Mark("("), AnyIdentifier>>),
    VALUE_TYPE, NEXT_COLUMN, Tokens(<<Mark(")"), Mark(";")>>)>>

INSERT_INTO_SQL_PATTERN ==
  <<Tokens(<<Keyword("INSERT"), Keyword("INTO"), AnyIdentifier, Mark("("), AnyIdentifier>>),
    NEXT_ID, Tokens(<<Mark(")"), Keyword("VALUES"), Mark("("), AnyValue>>),
    NEXT_VALUE, Tokens(<<Mark(")"), Mark(";")>>)>>

SELECT_FROM_ONE_TABLE_SQL_PATTERN ==
  <<Tokens(<<Keyword("SELECT")>>), FIRST_COL, NEXT_ID,
    Tokens(<<Keyword("FROM"), AnyIdentifier>>), CONDITION, NEXT_CONDITION, Tokens(<<Mark(";")>>)>>

ALL_PATTERNS ==
  <<CREATE_DATABASE_SQL_PATTERN, CREATE_TABLE_SQL_PATTERN, INSERT_INTO_SQL_PATTERN,
    SELECT_FROM_ONE_TABLE_SQL_PATTERN>>

ALL_PATTERNS_NODE_TYPE ==
  <<"CREATE_DATABASE_NODE", "CREATE_TABLE_NODE", "INSERT_INTO_TABLE_NODE",
    "SELECT_FROM_ONE_TABLE_NODE">>

RangeName ==
  {"VALUE_TYPE", "NEXT_VALUE_TYPE", "FIRST_COL", "COMPARER", "OPERATOR", "NEXT_COMPARER"}

(* Whether a token fits a template, by the type of the template.           *)
Fits(template, token) ==
  CASE template.type = "IDENTIFIER_T" -> token.type = "IDENTIFIER_T"
    [] template.type = "STRING_T" -> IsValue(token)
    [] OTHER -> token = template

CertainCheck(templates, tokens, offset) ==
  \A i \in DOMAIN templates : Fits(templates[i], At(tokens, offset + i))

(* In a range, any keyword passes for a keyword: type or value will do.    *)
FitsInRange(template, token) ==
  IF template.type = "KEYWORD_T"
  THEN token.type = "KEYWORD_T" \/ token.value = template.value
  ELSE Fits(template, token)

(* The length that RangeCheck remembers; 0 is no match.                    *)
RangeLength_OwnToo(part, tokens, offset) ==
  IF \E i \in DOMAIN part.templates : FitsInRange(part.templates[i], tokens[offset + 1]) THEN 1
  ELSE IF part.next # <<>> /\ CertainCheck(part.next, tokens, offset) THEN 1 + Len(part.next)
  ELSE 0
RangeLength(part, tokens, offset) ==
  IF \E i \in DOMAIN part.templates : FitsInRange(part.templates[i], tokens[offset + 1]) THEN 1
  ELSE IF part.next # <<>> /\ CertainCheck(part.next, tokens, offset) THEN Len(part.next)
  ELSE 0

-----------------------------------------------------------------------------
VARIABLES
  server,       \* "up"; "ended" by an exception; "undefined" after a wild read
  match_length, \* of each range, shared by all workers
  tokens,       \* tokens[w]: of the statement w parses
  at,           \* at[w]: where w stands
  ast,          \* ast[w]: the tree w built last
  response,     \* response[w]: how w's statement went
  rows,         \* the rows inserted into Table, each with the statement it is from
  sent,         \* history: statements w was sent
  said,         \* history: the tree a user meant by the statement
  disturbed     \* history: a length w had yet to read was changed under it

parse == <<tokens, at, ast>>
history == <<sent, said, disturbed>>
vars == <<server, match_length, parse, response, rows, history>>

(* Where a worker stands in its matching: at part "part" of element        *)
(* "element" of pattern "pattern"; "offset" tokens taken by the elements   *)
(* before, "total" by the parts before.                                    *)
Place(phase, pattern, element, part, offset, total) ==
  [phase |-> phase, pattern |-> pattern, element |-> element, part |-> part,
   offset |-> offset, total |-> total]

Idle == Place("idle", 1, 1, 1, 0, 0)

Init ==
  /\ server = "up"
  /\ match_length = [r \in RangeName |-> 0]
  /\ tokens = [w \in Worker |-> <<>>]
  /\ at = [w \in Worker |-> Idle]
  /\ ast = [w \in Worker |-> NoTree]
  /\ response = [w \in Worker |-> Empty]
  /\ rows = <<>>
  /\ sent = [w \in Worker |-> 0]
  /\ said = [w \in Worker |-> NoTree]
  /\ disturbed = [w \in Worker |-> FALSE]

-----------------------------------------------------------------------------
(* Users' statements, word by word.                                        *)
Text(class, text) == [class |-> class, text |-> text]
Words(texts) == [i \in DOMAIN texts |-> Text("word", texts[i])]
Marked(m) == <<Text("mark", m)>>
Literal(text) == <<Text(IF text \in DOMAIN StoF THEN "digits" ELSE "quoted", text)>>

Separated(list) ==
  FlattenSeq([i \in DOMAIN list |-> IF i = 1 THEN list[i] ELSE Marked(",") \o list[i]])

Names(names) == Separated([i \in DOMAIN names |-> <<Text(IF names[i] = "*" THEN "mark" ELSE "word",
                                                         names[i])>>])

ConditionWords(tree, i) ==
  LET k == tree.compare_vector[i]
  IN  Words(<<IF i = 1 THEN "WHERE" ELSE tree.operators[i - 1], k.col>>)
        \o (IF k.condition = "!=" THEN Marked("!") \o Marked("=") ELSE Marked(k.condition))
        \o Literal(k.compare_value)

Statement(tree) ==
  CASE tree.node = "CREATE_DATABASE_NODE" ->
         Words(<<"CREATE", "DATABASE", tree.db_name>>) \o Marked(";")
    [] tree.node = "CREATE_TABLE_NODE" ->
         Words(<<"CREATE", "TABLE", tree.table_name>>) \o Marked("(")
           \o Separated([i \in DOMAIN tree.columns |->
                           Words(<<tree.columns[i].col_name, tree.columns[i].value_type>>)])
           \o Marked(")") \o Marked(";")
    [] tree.node = "INSERT_INTO_TABLE_NODE" ->
         Words(<<"INSERT", "INTO", tree.table_name>>) \o Marked("(") \o Names(tree.columns)
           \o Marked(")") \o Words(<<"VALUES">>) \o Marked("(")
           \o Separated([i \in DOMAIN tree.values |-> Literal(tree.values[i])])
           \o Marked(")") \o Marked(";")
    [] tree.node = "SELECT_FROM_ONE_TABLE_NODE" ->
         Words(<<"SELECT">>) \o Names(tree.columns) \o Words(<<"FROM", tree.table_name>>)
           \o FlattenSeq([i \in DOMAIN tree.compare_vector |-> ConditionWords(tree, i)])
           \o Marked(";")

(* ListenThread: the worker takes a statement from its queue, and cuts it  *)
(* into tokens. The statement was copied into a buffer without an end      *)
(* mark: what lies behind the buffer, up to a 0, is read with it.          *)
ReadStatement(words, behind) == Tokenize(words \o behind)

Receive(w, tree, words) ==
  /\ server = "up"
  /\ at[w].phase = "idle"
  /\ sent[w] < MaxStatements \* bound MaxStatements
  /\ sent' = [sent EXCEPT ![w] = @ + 1]
  /\ said' = [said EXCEPT ![w] = tree]
  /\ disturbed' = [disturbed EXCEPT ![w] = FALSE]
  /\ \E behind \in Behind : tokens' = [tokens EXCEPT ![w] = ReadStatement(words, behind)]
  /\ at' = [at EXCEPT ![w] = Place("match", 1, 1, 1, 0, 0)]
  /\ ast' = [ast EXCEPT ![w] = NoTree]
  /\ response' = [response EXCEPT ![w] = Empty]
  /\ UNCHANGED <<server, match_length, rows>>

-----------------------------------------------------------------------------
(* Matching.                                                               *)
Parts(p) == ALL_PATTERNS[p.pattern][p.element].parts
Part(p) == Parts(p)[p.part]

EnterElement(pattern, element, offset) ==
  IF element > Len(ALL_PATTERNS[pattern])
  THEN Place("build", pattern, 1, 1, 0, 0)
  ELSE Place("match", pattern, element, 1, offset, 0)

(* ParseSql: the next pattern, or none is left.                            *)
EnterPattern(pattern) ==
  IF pattern > Len(ALL_PATTERNS)
  THEN Place("build", pattern, 1, 1, 0, 0)
  ELSE EnterElement(pattern, 1, 0)

(* An element that is optional need not match.                             *)
Fail(p) ==
  IF ALL_PATTERNS[p.pattern][p.element].necessary
  THEN EnterPattern(p.pattern + 1)
  ELSE EnterElement(p.pattern, p.element + 1, p.offset)

(* An element that is optional is tried again behind its match.            *)
Taken_Once(p, total) == EnterElement(p.pattern, p.element + 1, p.offset + total)
Taken_Again(p, total) ==
  IF ALL_PATTERNS[p.pattern][p.element].necessary
  THEN EnterElement(p.pattern, p.element + 1, p.offset + total)
  ELSE EnterElement(p.pattern, p.element, p.offset)
Taken(p, total) ==
  EnterElement(p.pattern,
               IF ALL_PATTERNS[p.pattern][p.element].necessary THEN p.element + 1 ELSE p.element,
               p.offset + total)

(* GetMatchLength of the element, from part k on: the ranges' lengths are  *)
(* read, one by one; the other parts have their lengths.                   *)
CertainLength(parts) ==
  LET length[i \in 0 .. Len(parts)] ==
        IF i = 0 THEN 0
        ELSE IF parts[i].range = Empty THEN length[i - 1] + Len(parts[i].templates)
        ELSE length[i - 1]
  IN  length[Len(parts)]

GetMatchLength(p, k, total) ==
  LET ranges == {i \in k .. Len(Parts(p)) : Parts(p)[i].range # Empty}
  IN  IF ranges = {} THEN Taken(p, total)
      ELSE Place("sum", p.pattern, p.element,
                 CHOOSE i \in ranges : \A j \in ranges : i <= j, p.offset, total)

(* A part has matched "length" tokens: on to the next one.                 *)
Advance(p, length) ==
  IF p.part = Len(Parts(p)) THEN GetMatchLength(p, 1, CertainLength(Parts(p)))
  ELSE Place("match", p.pattern, p.element, p.part + 1, p.offset, p.total + length)

MatchCertain(w) ==
  LET p == at[w]
  IN  /\ server = "up"
      /\ p.phase = "match"
      /\ Part(p).range = Empty
      /\ at' = [at EXCEPT ![w] =
                  IF CertainCheck(Part(p).templates, tokens[w], p.offset + p.total)
                  THEN Advance(p, Len(Part(p).templates)) ELSE Fail(p)]
      /\ UNCHANGED <<server, match_length, tokens, ast, response, rows, history>>

(* The ranges whose lengths a worker has found in this element, and has    *)
(* still to read.                                                          *)
Unread(p) ==
  LET found == CASE p.phase = "match" -> 1 .. p.part - 1
                 [] p.phase = "length" -> 1 .. p.part
                 [] p.phase = "sum" -> p.part .. Len(Parts(p))
                 [] OTHER -> {}
  IN  {Parts(p)[i].range : i \in found} \ {Empty}

(* The length behind the last part is not used within the element.         *)
RangeCheck(w) ==
  LET p == at[w]
      range == Part(p).range
      length == RangeLength(Part(p), tokens[w], p.offset + p.total)
  IN  /\ server = "up"
      /\ p.phase = "match"
      /\ Part(p).range # Empty
      /\ p.offset + p.total < Len(tokens[w])
      /\ match_length' = [match_length EXCEPT ![range] = length]
      /\ disturbed' = [v \in Worker |->
                         \/ disturbed[v]
                         \/ v # w /\ length # match_length[range] /\ range \in Unread(at[v])]
      /\ at' = [at EXCEPT ![w] =
                  IF length = 0 THEN Fail(p)
                  ELSE IF p.part = Len(Parts(p)) THEN Advance(p, 0)
                  ELSE [p EXCEPT !.phase = "length"]]
      /\ UNCHANGED <<server, tokens, ast, response, rows, sent, said>>

(* A range looks at a token without asking whether there is one.           *)
ReadBeyondEnd(w) ==
  LET p == at[w]
  IN  /\ server = "up"
      /\ p.phase = "match"
      /\ Part(p).range # Empty
      /\ p.offset + p.total >= Len(tokens[w])
      /\ server' = "undefined"
      /\ at' = [at EXCEPT ![w].phase = "failed"]
      /\ UNCHANGED <<match_length, tokens, ast, response, rows, history>>

ReadLength(w) ==
  LET p == at[w]
  IN  /\ server = "up"
      /\ p.phase = "length"
      /\ at' = [at EXCEPT ![w] = Advance(p, match_length[Part(p).range])]
      /\ UNCHANGED <<server, match_length, tokens, ast, response, rows, history>>

ReadSum(w) ==
  LET p == at[w]
  IN  /\ server = "up"
      /\ p.phase = "sum"
      /\ at' = [at EXCEPT ![w] =
                  GetMatchLength(p, p.part + 1, p.total + match_length[Part(p).range])]
      /\ UNCHANGED <<server, match_length, tokens, ast, response, rows, history>>

-----------------------------------------------------------------------------
(* The tree, and what becomes of it.                                       *)
NodeType(p) ==
  IF p.pattern <= Len(ALL_PATTERNS) THEN ALL_PATTERNS_NODE_TYPE[p.pattern]
  ELSE "UNSUPPORT_NODE"

BuildAST(w) ==
  /\ server = "up"
  /\ at[w].phase = "build"
  /\ \E tree \in {BuildNode(tokens[w], NodeType(at[w]))} :
       \/ /\ tree = Thrown
          /\ server' = "ended"
          /\ at' = [at EXCEPT ![w].phase = "failed"]
          /\ UNCHANGED ast
       \/ /\ tree # Thrown
          /\ ast' = [ast EXCEPT ![w] = tree]
          /\ at' = [at EXCEPT ![w].phase = "execute"]
          /\ UNCHANGED server
  /\ UNCHANGED <<match_length, tokens, response, rows, history>>

Respond(w, information) ==
  /\ server = "up"
  /\ at[w].phase = "execute"
  /\ response' = [response EXCEPT ![w] = information]
  /\ at' = [at EXCEPT ![w] = Idle]
  /\ UNCHANGED <<server, match_length, tokens, ast, history>>

-----------------------------------------------------------------------------
(* INSERT. A value is typed when its column is known. A column that the    *)
(* statement leaves out gets its type's default; one that it names twice   *)
(* gets the first of the two.                                              *)
Positions(name, columns) == {i \in DOMAIN columns : columns[i] = name}
Leftmost(positions) == CHOOSE i \in positions : \A j \in positions : i <= j

FindValue_Last(name, columns) ==
  IF Positions(name, columns) = {} THEN 0
  ELSE CHOOSE i \in Positions(name, columns) : \A j \in Positions(name, columns) : j <= i
FindValue(name, columns) ==
  IF Positions(name, columns) = {} THEN 0 ELSE Leftmost(Positions(name, columns))

BuildDefaultValue(type) == IF type = "VCHAR" THEN " " ELSE "0"

(* stoi takes the digits before a point; neither it nor stof takes a text  *)
(* in quotes, or a number too large. A VCHAR keeps its quotes.             *)
InitValue(text, type) ==
  CASE type = "VCHAR" -> text
    [] type = "INT" -> IF text \in DOMAIN StoI THEN StoI[text] ELSE NoValue
    [] type = "FLOAT" -> IF text \in DOMAIN StoF THEN StoF[text] ELSE NoValue

(* values->at throws where there are fewer values than columns.            *)
JoinedCell_OffByOne(column, tree) ==
  LET position == FindValue(column.col_name, tree.columns)
  IN  CASE position = 0 -> BuildDefaultValue(column.value_type)
        [] position >= Len(tree.values) -> OutOfRange
        [] OTHER -> InitValue(tree.values[position], column.value_type)
JoinedCell(column, tree) ==
  LET position == FindValue(column.col_name, tree.columns)
  IN  CASE position = 0 -> BuildDefaultValue(column.value_type)
        [] position > Len(tree.values) -> OutOfRange
        [] OTHER -> InitValue(tree.values[position], column.value_type)

JointParamRow(tree) ==
  [i \in DOMAIN Table.columns |-> JoinedCell(Table.columns[i], tree)]

(* The cells are made in the table's order: the first bad one decides.     *)
BadCells(tree) == {i \in DOMAIN Table.columns : JointParamRow(tree)[i] \in {NoValue, OutOfRange}}
FirstBad(tree) == IF BadCells(tree) = {} THEN Empty ELSE JointParamRow(tree)[Leftmost(BadCells(tree))]

TableName == Table.name
TableColumns == {Table.columns[i].col_name : i \in DOMAIN Table.columns}
CheckColumns(tree) == Range(tree.columns) \subseteq TableColumns

Inserting(w) == ast[w].node = "INSERT_INTO_TABLE_NODE" /\ w \notin Root
Found(w) == ast[w].table_name = TableName /\ CheckColumns(ast[w])

InsertRow(w) ==
  /\ Inserting(w)
  /\ Found(w)
  /\ FirstBad(ast[w]) = Empty
  /\ rows' = Append(rows, [by |-> w, nth |-> sent[w], said |-> said[w],
                         cells |-> JointParamRow(ast[w])])
  /\ Respond(w, "inserted")

InsertNothing(w) ==
  /\ Inserting(w)
  /\ ~Found(w) \/ FirstBad(ast[w]) = NoValue
  /\ Respond(w, "not inserted")
  /\ UNCHANGED rows

ThrowInJointParamRow(w) ==
  /\ server = "up"
  /\ at[w].phase = "execute"
  /\ Inserting(w)
  /\ Found(w)
  /\ FirstBad(ast[w]) = OutOfRange
  /\ server' = "ended"
  /\ at' = [at EXCEPT ![w].phase = "failed"]
  /\ UNCHANGED <<match_length, tokens, ast, response, rows, history>>

-----------------------------------------------------------------------------
(* SELECT, as far as it may end the server; Selection has its answers. The *)
(* message that a column is missing is written through a pointer that was  *)
(* never set. Of the conditions on a column the first is used.             *)
Selecting(w) ==
  /\ ast[w].node = "SELECT_FROM_ONE_TABLE_NODE"
  /\ w \notin Root
  /\ ast[w].table_name = TableName

CheckColsExists(tree) ==
  /\ tree.columns = <<"*">> \/ CheckColumns(tree)
  /\ \A k \in Range(tree.compare_vector) : k.col \in TableColumns

UsedConditions(tree) ==
  LET where == tree.compare_vector
  IN  {where[i] : i \in {i \in DOMAIN where : \A j \in 1 .. i - 1 : where[j].col # where[i].col}}

Converts(k) ==
  \A column \in Range(Table.columns) :
    column.col_name = k.col => InitValue(k.compare_value, column.value_type) # NoValue

MissColumn(w) ==
  /\ server = "up"
  /\ at[w].phase = "execute"
  /\ Selecting(w)
  /\ ~CheckColsExists(ast[w])
  /\ server' = "undefined"
  /\ at' = [at EXCEPT ![w].phase = "failed"]
  /\ UNCHANGED <<match_length, tokens, ast, response, rows, history>>

(* Compare throws on a value that was not converted, where a column has a  *)
(* value to compare it with. Table may hold rows from before, or none.     *)
ThrowInCompare(w) ==
  /\ server = "up"
  /\ at[w].phase = "execute"
  /\ Selecting(w)
  /\ CheckColsExists(ast[w])
  /\ \E k \in UsedConditions(ast[w]) : ~Converts(k)
  /\ server' = "ended"
  /\ at' = [at EXCEPT ![w].phase = "failed"]
  /\ UNCHANGED <<match_length, tokens, ast, response, rows, history>>

(* Work, RootIdentityWork: who may do what. CREATE TABLE and SELECT go on  *)
(* to Catalog and Selection, a root's CREATE DATABASE to Sessions.         *)
Work(w, node) ==
  IF node = "UNSUPPORT_NODE" THEN "can not be parsed"
  ELSE IF (node = "CREATE_DATABASE_NODE") # (w \in Root) THEN "no power"
  ELSE "executed"

Dispatch(w) ==
  /\ ast[w].node # "INSERT_INTO_TABLE_NODE" \/ w \in Root
  /\ Selecting(w) => CheckColsExists(ast[w])
  /\ Respond(w, Work(w, ast[w].node))
  /\ UNCHANGED rows

-----------------------------------------------------------------------------
WorkerStep(w) ==
  \/ MatchCertain(w)
  \/ RangeCheck(w)
  \/ ReadBeyondEnd(w)
  \/ ReadLength(w)
  \/ ReadSum(w)
  \/ BuildAST(w)
  \/ InsertRow(w)
  \/ InsertNothing(w)
  \/ ThrowInJointParamRow(w)
  \/ MissColumn(w)
  \/ ThrowInCompare(w)
  \/ Dispatch(w)

Next ==
  \E w \in Worker :
    \/ \E tree \in Legal : Receive(w, tree, Statement(tree))
    \/ \E words \in Garbage : Receive(w, NoTree, words)
    \/ WorkerStep(w)

Spec == Init /\ [][Next]_vars

(* Workers go on with their statements; users need not send any.           *)
FairSpec == Spec /\ \A w \in Worker : WF_vars(WorkerStep(w))

-----------------------------------------------------------------------------
Phases == {"idle", "match", "length", "sum", "build", "execute", "failed"}

(* The type invariant: lengths are of the ranges, places lie within the    *)
(* patterns, and only a server that is down has a worker that failed.      *)
TypeOK ==
  /\ server \in {"up", "ended", "undefined"}
  /\ match_length \in [RangeName -> 0 .. 2]
  /\ \A w \in Worker :
       /\ at[w].phase \in Phases
       /\ at[w].phase \in {"match", "length", "sum"} =>
            /\ at[w].element \in DOMAIN ALL_PATTERNS[at[w].pattern]
            /\ at[w].part \in DOMAIN Parts(at[w])
            /\ at[w].offset \in 0 .. Len(tokens[w]) + 1
       /\ at[w].phase = "length" => Part(at[w]).range # Empty
       /\ at[w].phase = "failed" => server # "up"
       /\ sent[w] \in 0 .. MaxStatements

(* The language of a pattern, by what it is to stand for: the optional     *)
(* elements repeated any number of times, each part taking its tokens      *)
(* right behind the part before, and whatever may follow. Keywords are     *)
(* told apart where they are certain, and not in a range.                  *)
Takes(part, input, offset) ==
  IF part.range = Empty
  THEN {n \in {Len(part.templates)} : CertainCheck(part.templates, input, offset)}
  ELSE {1 : t \in {t \in Range(part.templates) : FitsInRange(t, At(input, offset + 1))}}
         \cup {n \in {Len(part.next)} \ {0} : CertainCheck(part.next, input, offset)}

(* Where a match of parts may end, and where a sentence may: the part of   *)
(* it from an element on, that begins at an offset.                        *)
EndsBehind(ends, part, input) ==
  UNION {{offset + n : n \in Takes(part, input, offset)} : offset \in ends}

Ends(parts, input, offset) ==
  LET ends[i \in 0 .. Len(parts)] ==
        IF i = 0 THEN {offset} ELSE EndsBehind(ends[i - 1], parts[i], input)
  IN  ends[Len(parts)]

SentenceEnds(pattern, input) ==
  LET ends[place \in (1 .. Len(pattern) + 1) \X (0 .. Len(input))] ==
        LET e == place[1]
            offset == place[2]
            behind == Ends(pattern[e].parts, input, offset)
        IN  IF e > Len(pattern) THEN {offset}
            ELSE IF pattern[e].necessary THEN UNION {ends[<<e + 1, end>>] : end \in behind}
            ELSE ends[<<e + 1, offset>>] \cup UNION {ends[<<e, end>>] : end \in behind}
  IN  ends[<<1, 0>>]

Derives(pattern, input) == SentenceEnds(pattern, input) # {}

Received ==
  {ReadStatement(words, behind) :
     words \in {Statement(tree) : tree \in Legal} \cup Garbage, behind \in Behind}

Patterns ==
  [input \in Received |-> {i \in DOMAIN ALL_PATTERNS : Derives(ALL_PATTERNS[i], input)}]

(* A worker finds the pattern whose language the statement begins with a   *)
(* sentence of, and none if there is none, as long as no other worker      *)
(* changes a length between the match that found it and its last use.      *)
VerdictIsGrammar ==
  \A w \in Worker :
    at[w].phase = "build" /\ ~disturbed[w] =>
      {at[w].pattern} \cap DOMAIN ALL_PATTERNS = Patterns[tokens[w]]

(* The parser tells no != from its parts everywhere.                       *)
Readable(tree) ==
  /\ tree # NoTree
  /\ tree.node = "SELECT_FROM_ONE_TABLE_NODE" =>
       \A k \in Range(tree.compare_vector) : k.condition # "!="

(* What a user wrote is what is executed: the tree of a legal statement is *)
(* the one the user meant, whatever lies behind it in memory. Other        *)
(* workers, and a quote in what lies behind, can make the parser refuse    *)
(* the statement, never take it for another one.                           *)
TreeIsStatement ==
  \A w \in Worker :
    at[w].phase = "execute" /\ Readable(said[w]) =>
      ast[w] = said[w] \/ (ast[w] = NoTree /\ (disturbed[w] \/ tokens[w] = <<>>))

(* A statement is careful if it names no type VECTOR, gives as many values *)
(* as columns at least, and selects and compares columns that are there,   *)
(* with values of their types, and not by !=.                              *)
Careful(tree) ==
  CASE tree.node = "CREATE_DATABASE_NODE" -> TRUE
    [] tree.node = "CREATE_TABLE_NODE" -> \A c \in Range(tree.columns) : c.value_type \in ValueTypes
    [] tree.node = "INSERT_INTO_TABLE_NODE" -> Len(tree.columns) <= Len(tree.values)
    [] tree.node = "SELECT_FROM_ONE_TABLE_NODE" ->
         /\ \A k \in Range(tree.compare_vector) : k.condition # "!="
         /\ tree.table_name = TableName =>
              CheckColsExists(tree) /\ \A k \in Range(tree.compare_vector) : Converts(k)

Alone(w) == Len(tokens[w]) = Len(Statement(said[w]))

(* From its text to its tree, the row of an INSERT, and the columns and    *)
(* comparisons of a SELECT, no careful statement ends the server by        *)
(* itself. An exception comes from a statement that is no legal one or not *)
(* careful, or from a SELECT with something behind it; undefined behaviour *)
(* from a text without a semicolon or another worker's change of a length, *)
(* which make the matcher read beyond the tokens, or from the execution of *)
(* a SELECT that is no legal statement or not careful.                     *)
CarefulIsSafe ==
  \A w \in Worker :
    at[w].phase = "failed" =>
      /\ server = "ended" =>
           \/ said[w] = NoTree \/ ~Careful(said[w])
           \/ said[w].node = "SELECT_FROM_ONE_TABLE_NODE" /\ ~Alone(w)
      /\ server = "undefined" =>
           \/ disturbed[w] \/ Mark(";") \notin Range(tokens[w])
           \/ /\ ast[w].node = "SELECT_FROM_ONE_TABLE_NODE"
              /\ said[w] = NoTree \/ ~Careful(said[w])

(* A row that an INSERT stores holds what the statement says: in each      *)
(* column the value that stands at the column's place in its lists,        *)
(* converted, or the default, and no value that could not be converted;    *)
(* and a statement that fails stores none.                                 *)
RowMeant(tree) ==
  [i \in DOMAIN Table.columns |->
     LET column == Table.columns[i]
         places == {j \in DOMAIN tree.columns : tree.columns[j] = column.col_name}
     IN  IF places = {} THEN BuildDefaultValue(column.value_type)
         ELSE InitValue(tree.values[Leftmost(places)], column.value_type)]

RowIsStatement ==
  /\ \A i \in DOMAIN rows :
       /\ rows[i].said # NoTree => rows[i].cells = RowMeant(rows[i].said)
       /\ NoValue \notin Range(rows[i].cells)
  /\ \A w \in Worker :
       response[w] = "not inserted" =>
         \A i \in DOMAIN rows : rows[i].by # w \/ rows[i].nth # sent[w]

(* Every statement's parse ends, however the workers disturb one another:  *)
(* a match of an optional element always takes a token.                    *)
Parsing(w) == at[w].phase \in {"match", "length", "sum", "build", "execute"}

ParseEnds == \A w \in Worker : Parsing(w) ~> ~Parsing(w) \/ server # "up"
=============================================================================
