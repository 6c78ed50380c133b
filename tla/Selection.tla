----------------------------- MODULE Selection ------------------------------
(***************************************************************************)
(* SELECT ... FROM one table WHERE ...: the Optimizer (sql/executer/       *)
(* optimizer.h) loads the columns a statement selects or compares one      *)
(* after the other, keeps of each the values that meet a condition, and    *)
(* joins what is left by position.                                         *)
(*                                                                         *)
(* Statements come one at a time, on columns whose values are equally      *)
(* long: there the store is a table (ColumnStore shows it, and that it is  *)
(* none elsewhere). What remains of the store is the order of a scan: from *)
(* block to block, and in each block the newest value first. All columns   *)
(* hold INTs. SQL text has no sign (a '-' is a token no pattern takes), so *)
(* stored and compared numbers are not negative, and the subtraction in    *)
(* Compare cannot overflow. A compare value may have a point: what stands  *)
(* behind it is cut off before it is compared. The connectives between     *)
(* conditions are parsed and then used by nobody.                          *)
(***************************************************************************)
EXTENDS Lists, SequencesExt

CONSTANTS
  Columns,     \* number of columns of the table
  Statements,  \* SELECTs that may come
  NewRows,     \* rows an INSERT may bring
  BlockRows,   \* values that fit into a block
  MaxRows      \* bound: rows inserted

Column == 1 .. Columns

(* SELECT *, and what a statement calls a column the table does not have.  *)
Star == <<0>>
Unknown == Columns + 1

(* A compare value as it is written: the number before the point, and      *)
(* whether there is more behind it. Of a quoted string, or a number that   *)
(* no int holds, stoi makes nothing.                                       *)
NoDigits == -1
Written == [whole : Nat \cup {NoDigits}, fraction : BOOLEAN]
NotANumber == [whole |-> NoDigits, fraction |-> FALSE]

(* A condition is joined to those before it by OR, or else by AND.         *)
Comparator == {">", "<", "=", "!="}
Condition == [col : Column \cup {Unknown}, cmp : Comparator, value : Written, or : BOOLEAN]

ASSUME SelectionAssumption ==
  /\ Columns \in Nat \ {0}
  /\ BlockRows \in Nat \ {0}
  /\ MaxRows \in Nat
  /\ NewRows \subseteq [Column -> Nat]
  /\ Statements \subseteq [select : {Star} \cup (Seq(Column \cup {Unknown}) \ {<<>>}),
                         where : Seq(Condition)]

VARIABLES
  server,   \* "up"; "ended" by an exception; "undefined" after a wild access
  cells,    \* cells[c]: the values of column c, as a scan finds them
  worker,   \* the SELECT: "idle", "loading" or "answered"
  stmt,     \* the statement, as parsed
  columns,  \* the columns to load: selected ones, then compared ones
  cols,     \* the columns loaded so far, as (position, value) pairs
  answer    \* the rows returned

select == <<worker, stmt, columns, cols, answer>>
vars == <<server, cells, select>>

Tagged == [tag : Nat, value : Nat]

TypeOK ==
  /\ server \in {"up", "ended", "undefined"}
  /\ cells \in [Column -> Seq(Nat)]
  /\ worker \in {"idle", "loading", "answered"}
  /\ columns \in Seq(Column)
  /\ cols \in Seq(Seq(Tagged))
  /\ answer \in Seq([tag : Nat, values : Seq(Nat)])

Init ==
  /\ server = "up"
  /\ cells = [c \in Column |-> <<>>]
  /\ worker = "idle"
  /\ stmt = [select |-> Star, where |-> <<>>]
  /\ columns = <<>>
  /\ cols = <<>>
  /\ answer = <<>>

-----------------------------------------------------------------------------
(* INSERT puts each value in front of the last block of its column.        *)
LastBlockStart(c) == (Len(cells[c]) \div BlockRows) * BlockRows + 1

Insert(row) ==
  /\ server = "up"
  /\ worker # "loading"
  /\ Len(cells[1]) < MaxRows \* bound MaxRows
  /\ cells' = [c \in Column |-> InsertAt(cells[c], LastBlockStart(c), row[c])]
  /\ worker' = "idle"
  /\ UNCHANGED <<server, stmt, columns, cols, answer>>

-----------------------------------------------------------------------------
(* Parsing. In "AND c != v" the value is taken from the token before it,   *)
(* the '='; "WHERE c != v" is not recognised, and the constructor throws.  *)
ParseCondition(k) == IF k.cmp = "!=" THEN [k EXCEPT !.value = NotANumber] ELSE k

Parse(s) == [s EXCEPT !.where = [i \in DOMAIN s.where |-> ParseCondition(s.where[i])]]

Unparsable(s) == s.where # <<>> /\ s.where[1].cmp = "!="

ThrowInParser(s) ==
  /\ server = "up"
  /\ worker # "loading"
  /\ Unparsable(s)
  /\ server' = "ended"
  /\ UNCHANGED <<cells, select>>

-----------------------------------------------------------------------------
(* Planning.                                                               *)
BuildAllCols == [c \in Column |-> c]

SelectedColumns(s) == IF s.select = Star THEN BuildAllCols ELSE s.select

ComparedColumns(s) == [i \in DOMAIN s.where |-> s.where[i].col]

CheckColsExists_Any(cs) == TRUE
CheckColsExists(cs) == Range(cs) \subseteq Column

(* Compared columns that are not selected come after the selected ones,    *)
(* once per condition.                                                     *)
MergeUsedCols_SelectedOnly(s) == SelectedColumns(s)
MergeUsedCols(s) ==
  SelectedColumns(s)
    \o Sifted(ComparedColumns(s), Range(ComparedColumns(s)) \ Range(SelectedColumns(s)))

(* A column that does not exist: the response that should say so was never *)
(* allocated; under * the search for its type runs below the first column. *)
MissColumn(s) ==
  /\ server = "up"
  /\ worker # "loading"
  /\ ~Unparsable(s)
  /\ ~CheckColsExists(SelectedColumns(s) \o ComparedColumns(s))
  /\ server' = "undefined"
  /\ UNCHANGED <<cells, select>>

ExecuteSelect(s) ==
  /\ server = "up"
  /\ worker # "loading"
  /\ ~Unparsable(s)
  /\ CheckColsExists(SelectedColumns(s) \o ComparedColumns(s))
  /\ worker' = "loading"
  /\ stmt' = Parse(s)
  /\ columns' = MergeUsedCols(s)
  /\ cols' = <<>>
  /\ answer' = <<>>
  /\ UNCHANGED <<server, cells>>

-----------------------------------------------------------------------------
(* Loading a column.                                                       *)
InitValue(value) == value.whole

Compare(a, b) == a - b

Meets(k, v) ==
  LET com_result == Compare(v, InitValue(k.value))
  IN  \/ k.cmp = ">" /\ com_result > 0
      \/ k.cmp = "<" /\ com_result < 0
      \/ k.cmp = "=" /\ com_result = 0
      \/ k.cmp = "!=" /\ com_result # 0

ConditionsOn(c) == Sifted(stmt.where, {k \in Range(stmt.where) : k.col = c})

(* Of several conditions on a column the first one is used.                *)
GetConditionOnCol(c) == Head(ConditionsOn(c))

(* Every value, with its position in the column.                           *)
SerializeOp(values) == [i \in DOMAIN values |-> [tag |-> i - 1, value |-> values[i]]]

(* The values that meet the condition, with their positions.               *)
FilterOp(k, values) ==
  LET all == SerializeOp(values)
  IN  Sifted(all, {e \in Range(all) : Meets(k, e.value)})

Loading == server = "up" /\ worker = "loading" /\ Len(cols) < Len(columns)

FilterLoad ==
  LET c == columns[Len(cols) + 1]
  IN  /\ Loading
      /\ \/ /\ ConditionsOn(c) = <<>>
            /\ cols' = Append(cols, SerializeOp(cells[c]))
         \/ /\ ConditionsOn(c) # <<>>
            /\ InitValue(GetConditionOnCol(c).value) # NoDigits \/ cells[c] = <<>>
            /\ cols' = Append(cols, FilterOp(GetConditionOnCol(c), cells[c]))
      /\ UNCHANGED <<server, cells, worker, stmt, columns, answer>>

(* InitValue fails unnoticed on a compare value that is no number; Compare *)
(* throws on the untyped value, in a thread that catches nothing.          *)
ThrowInCompare ==
  LET c == columns[Len(cols) + 1]
  IN  /\ Loading
      /\ ConditionsOn(c) # <<>>
      /\ InitValue(GetConditionOnCol(c).value) = NoDigits
      /\ cells[c] # <<>>
      /\ server' = "ended"
      /\ UNCHANGED <<cells, select>>

-----------------------------------------------------------------------------
(* Joining columns.                                                        *)
ConverValuesToRow(col) == [i \in DOMAIN col |-> [tag |-> col[i].tag, values |-> <<col[i].value>>]]

(* The rows that have a partner of their position in the next column.      *)
DifferentColAndOP_ByIndex(rows, col) ==
  [i \in 1 .. IF Len(rows) < Len(col) THEN Len(rows) ELSE Len(col) |->
     [tag |-> col[i].tag, values |-> Append(rows[i].values, col[i].value)]]
DifferentColAndOP(rows, col) ==
  LET RowAt(tag) == CHOOSE r \in Range(rows) : r.tag = tag
      paired == Sifted(col, {e \in Range(col) : \E r \in Range(rows) : r.tag = e.tag})
  IN  [i \in DOMAIN paired |->
         [tag |-> paired[i].tag,
          values |-> Append(RowAt(paired[i].tag).values, paired[i].value)]]

Join ==
  LET joined[i \in 0 .. Len(Tail(cols))] ==
        IF i = 0 THEN ConverValuesToRow(Head(cols))
        ELSE DifferentColAndOP(joined[i - 1], Tail(cols)[i])
  IN  joined[Len(Tail(cols))]

(* Rows are printed up to the number of selected columns.                  *)
PrintRows(rows, amount) ==
  [i \in DOMAIN rows |-> [rows[i] EXCEPT !.values = SubSeq(@, 1, amount)]]

InnerJoinColumns ==
  /\ server = "up"
  /\ worker = "loading"
  /\ Len(cols) = Len(columns)
  /\ worker' = "answered"
  /\ answer' = PrintRows(Join, Len(SelectedColumns(stmt)))
  /\ UNCHANGED <<server, cells, stmt, columns, cols>>

-----------------------------------------------------------------------------
Next ==
  \/ \E row \in NewRows : Insert(row)
  \/ \E s \in Statements : \/ ThrowInParser(s)
                           \/ MissColumn(s)
                           \/ ExecuteSelect(s)
  \/ FilterLoad
  \/ ThrowInCompare
  \/ InnerJoinColumns

Spec == Init /\ [][Next]_vars

-----------------------------------------------------------------------------
(* No column is compared twice: beyond that, conditions are dropped.       *)
OneConditionPerColumn ==
  \A i, j \in DOMAIN stmt.where : stmt.where[i].col = stmt.where[j].col => i = j

(* A value with a fraction is compared only by ">": there v > 1.5 is the   *)
(* v > 1 that it is cut to.                                                *)
FractionsBehindGreater ==
  \A k \in Range(stmt.where) : k.value.fraction => k.cmp = ">"

OnlyAnd == \A k \in Range(stmt.where) : ~k.or

(* A condition by SQL's reading, of the number that is written.            *)
Holds(k, v) ==
  LET whole == k.value.whole
      more == k.value.fraction
  IN  \/ k.cmp = ">" /\ v > whole
      \/ k.cmp = "<" /\ (v < whole \/ (v = whole /\ more))
      \/ k.cmp = "=" /\ v = whole /\ ~more
      \/ k.cmp = "!=" /\ (v # whole \/ more)

(* AND binds closer than OR: some conditions that AND joins all hold.      *)
IsSelected(i) ==
  LET where == stmt.where
      Joined(first, last) == first <= last /\ \A h \in first + 1 .. last : ~where[h].or
  IN  \/ where = <<>>
      \/ \E first \in DOMAIN where :
           /\ first = 1 \/ where[first].or
           /\ \A j \in DOMAIN where : Joined(first, j) => Holds(where[j], cells[where[j].col][i])

(* The statement's rows by SQL's reading, in the order of a scan.          *)
Selected ==
  LET all == [i \in DOMAIN cells[1] |-> i]
      kept == Sifted(all, {i \in Range(all) : IsSelected(i)})
      Project(i) == [j \in DOMAIN SelectedColumns(stmt) |-> cells[SelectedColumns(stmt)[j]][i]]
  IN  [j \in DOMAIN kept |-> [tag |-> kept[j] - 1, values |-> Project(kept[j])]]

(* A SELECT that compares no column twice, joins its conditions by AND and *)
(* compares fractions by ">" only answers with the rows that meet all its  *)
(* conditions, and no others: though columns are filtered each on its own, *)
(* compared ones may not be selected and selected ones not be compared,    *)
(* and rows are put together again by position alone. Of OR this does not  *)
(* hold, as the optimizer never looks at what joins two conditions.        *)
AnswerIsSelection ==
  worker = "answered" /\ OneConditionPerColumn /\ OnlyAnd /\ FractionsBehindGreater =>
    answer = Selected

(* Whatever the conditions, even when some are dropped, an answer's rows   *)
(* are rows of the table, each at most once and in the order of a scan: no *)
(* value is joined to a value of another record.                           *)
RowsOfTheTable ==
  worker = "answered" =>
    \A i \in DOMAIN answer :
      /\ \A j \in DOMAIN answer : i < j => answer[i].tag < answer[j].tag
      /\ answer[i].values = [j \in DOMAIN SelectedColumns(stmt) |->
                               cells[SelectedColumns(stmt)[j]][answer[i].tag + 1]]
=============================================================================
