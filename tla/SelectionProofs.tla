--------------------------- MODULE SelectionProofs ---------------------------
(***************************************************************************)
(* Proofs about Selection: types, and that an answer is what SQL says.     *)
(* The argument follows the code. Of each column that a SELECT loads, the  *)
(* positions that pass the column's condition are kept, in the order of    *)
(* the column (IsLoaded). The join of the first n columns has the          *)
(* positions that pass in all of them, again in order, with the values     *)
(* that stand there (IsJoin). Two lists of positions in order that have    *)
(* the same members are equal, and that is the selection.                  *)
(***************************************************************************)
EXTENDS Selection, Induction

JoinedRow == [tag : Nat, values : Seq(Nat)]

(* Statements as they are executed.                                        *)
Parsed == [col : Column, cmp : Comparator, value : Written, or : BOOLEAN]

Executed ==
  [select : {Star} \cup (Seq(Column) \ {<<>>}),
   where : Seq(Parsed)]

(* Whether the value of column c at a position passes.                     *)
Passes(c, position) ==
  ConditionsOn(c) = <<>> \/ Meets(GetConditionOnCol(c), cells[c][position + 1])

IsPosition(c, t) == t \in Nat /\ t < Len(cells[c])

TagsRise(s) == \A i, j \in DOMAIN s : i < j => s[i].tag < s[j].tag

(* What is loaded of column c.                                             *)
IsLoaded(col, c) ==
  /\ col \in Seq(Tagged)
  /\ TagsRise(col)
  /\ \A i \in DOMAIN col : /\ IsPosition(c, col[i].tag) /\ Passes(c, col[i].tag)
                           /\ col[i].value = cells[c][col[i].tag + 1]
  /\ \A t \in Nat : IsPosition(c, t) /\ Passes(c, t) => \E i \in DOMAIN col : col[i].tag = t

(* What the first n columns make together.                                 *)
IsJoin(rows, n) ==
  /\ rows \in Seq(JoinedRow)
  /\ TagsRise(rows)
  /\ \A i \in DOMAIN rows :
       /\ IsPosition(1, rows[i].tag)
       /\ Len(rows[i].values) = n
       /\ \A j \in 1 .. n : /\ Passes(columns[j], rows[i].tag)
                            /\ rows[i].values[j] = cells[columns[j]][rows[i].tag + 1]
  /\ \A t \in Nat :
       IsPosition(1, t) /\ (\A j \in 1 .. n : Passes(columns[j], t)) =>
         \E i \in DOMAIN rows : rows[i].tag = t

(* Columns are equally long.                                               *)
Even == \A c, d \in Column : Len(cells[c]) = Len(cells[d])

(* A SELECT under way, or answered, has what it has loaded so far.         *)
Loaded ==
  worker # "idle" =>
    /\ columns = MergeUsedCols(stmt)
    /\ Len(cols) <= Len(columns)
    /\ \A i \in DOMAIN cols : IsLoaded(cols[i], columns[i])

Answered ==
  worker = "answered" =>
    /\ Len(cols) = Len(columns)
    /\ answer = PrintRows(Join, Len(SelectedColumns(stmt)))

SelectionInv == TypeOK /\ stmt \in Executed /\ Even /\ Loaded /\ Answered

-----------------------------------------------------------------------------
LEMMA ColumnFacts ==
  /\ 1 \in Column
  /\ \A c \in Column : c \in Nat
BY SelectionAssumption DEF Column

LEMMA CellsFacts ==
  ASSUME TypeOK, NEW c \in Column
  PROVE  /\ cells[c] \in Seq(Nat) /\ Len(cells[c]) \in Nat /\ DOMAIN cells[c] = 1 .. Len(cells[c])
         /\ \A i \in 1 .. Len(cells[c]) : cells[c][i] \in Nat
<1>1. cells[c] \in Seq(Nat)
  BY DEF TypeOK
<1> QED
  BY <1>1, LenProperties

-----------------------------------------------------------------------------
(* Loading a column.                                                       *)
LEMMA Serialized ==
  ASSUME TypeOK, NEW c \in Column
  PROVE  /\ SerializeOp(cells[c]) \in Seq(Tagged)
         /\ Len(SerializeOp(cells[c])) = Len(cells[c])
         /\ \A i \in 1 .. Len(cells[c]) :
              /\ SerializeOp(cells[c])[i].tag = i - 1
              /\ SerializeOp(cells[c])[i].value = cells[c][i]
<1> DEFINE n == Len(cells[c])
           f == [i \in 1 .. n |-> [tag |-> i - 1, value |-> cells[c][i]]]
<1>1. n \in Nat /\ DOMAIN cells[c] = 1 .. n /\ \A i \in 1 .. n : cells[c][i] \in Nat
  BY CellsFacts
<1>2. f \in [1 .. n -> Tagged]
  BY <1>1 DEF Tagged
<1>3. SerializeOp(cells[c]) = f
  BY <1>1 DEF SerializeOp
<1>4. \A i \in 1 .. n : f[i].tag = i - 1 /\ f[i].value = cells[c][i]
  OBVIOUS
<1> HIDE DEF f, n
<1>5. f \in Seq(Tagged) /\ Len(f) = n
  BY <1>1, <1>2, FunctionIsSeq
<1> QED
  BY <1>3, <1>4, <1>5 DEF n

LEMMA LoadedWhole ==
  ASSUME TypeOK, NEW c \in Column, ConditionsOn(c) = <<>>
  PROVE  IsLoaded(SerializeOp(cells[c]), c)
<1> DEFINE n == Len(cells[c])
           col == SerializeOp(cells[c])
<1>1. n \in Nat
  BY CellsFacts
<1>2. /\ col \in Seq(Tagged) /\ Len(col) = n
      /\ \A i \in 1 .. n : col[i].tag = i - 1 /\ col[i].value = cells[c][i]
  BY Serialized
<1>3. DOMAIN col = 1 .. n
  BY <1>2, LenProperties
<1> HIDE DEF col
<1>4. TagsRise(col)
  BY <1>1, <1>2, <1>3 DEF TagsRise
<1>5. \A i \in 1 .. n : col[i].tag = i - 1 /\ i - 1 \in Nat /\ i - 1 < n /\ (i - 1) + 1 = i
  BY <1>1, <1>2
<1>6. \A i \in 1 .. n : /\ IsPosition(c, col[i].tag) /\ Passes(c, col[i].tag)
                       /\ col[i].value = cells[c][col[i].tag + 1]
  BY <1>2, <1>5 DEF IsPosition, Passes
<1>7. ASSUME NEW t \in Nat, IsPosition(c, t) PROVE \E i \in DOMAIN col : col[i].tag = t
  <2>1. t + 1 \in 1 .. n /\ (t + 1) - 1 = t
    BY <1>1, <1>7 DEF IsPosition
  <2> QED
    BY <1>3, <1>5, <2>1
<1> QED
  BY <1>2, <1>3, <1>4, <1>6, <1>7 DEF IsLoaded, col

LEMMA LoadedFiltered ==
  ASSUME TypeOK, NEW c \in Column, ConditionsOn(c) # <<>>
  PROVE  IsLoaded(FilterOp(GetConditionOnCol(c), cells[c]), c)
<1> DEFINE n == Len(cells[c])
           k == GetConditionOnCol(c)
           all == SerializeOp(cells[c])
           S == {e \in Range(all) : Meets(k, e.value)}
           col == FilterOp(k, cells[c])
           m == Len(col)
<1>1. n \in Nat
  BY CellsFacts
<1>2. /\ all \in Seq(Tagged) /\ Len(all) = n
      /\ \A i \in 1 .. n : all[i].tag = i - 1 /\ all[i].value = cells[c][i]
  BY Serialized
<1>3. \A i \in 1 .. n : all[i] \in Range(all)
  BY <1>2, LenProperties DEF Range
<1>4. col = Sifted(all, S)
  BY DEF FilterOp
<1> HIDE DEF col, all, S, k
<1>5. col \in Seq(Tagged) /\ \E place : IsPlaces(place, all, S, n, col)
  BY <1>2, <1>4, SiftedPlaces
<1>6. PICK place : IsPlaces(place, all, S, n, col)
  BY <1>5
<1>7. m \in Nat /\ DOMAIN col = 1 .. m
  BY <1>5, LenProperties
<1>8. \A i \in 1 .. n : all[i] \in S <=> Passes(c, i - 1)
  <2> TAKE i \in 1 .. n
  <2>1. all[i] \in S <=> Meets(k, cells[c][i])
    BY <1>2, <1>3 DEF S
  <2>2. (i - 1) + 1 = i
    BY <1>1
  <2> QED
    BY <2>1, <2>2 DEF Passes, k
<1>9. \A i \in 1 .. m :
        /\ place[i] \in 1 .. n /\ all[place[i]] \in S
        /\ col[i].tag = place[i] - 1 /\ col[i].value = cells[c][place[i]]
  BY <1>2, <1>6 DEF IsPlaces
<1>10. \A i \in 1 .. m : /\ IsPosition(c, col[i].tag) /\ Passes(c, col[i].tag)
                        /\ col[i].value = cells[c][col[i].tag + 1]
  <2> TAKE i \in 1 .. m
  <2>1. place[i] \in 1 .. n /\ col[i].tag = place[i] - 1 /\ col[i].value = cells[c][place[i]]
    BY <1>9
  <2>2. place[i] - 1 \in Nat /\ place[i] - 1 < n /\ (place[i] - 1) + 1 = place[i]
    BY <1>1, <2>1
  <2> QED
    BY <1>8, <1>9, <2>1, <2>2 DEF IsPosition
<1>11. TagsRise(col)
  <2> SUFFICES ASSUME NEW i \in 1 .. m, NEW j \in 1 .. m, i < j
               PROVE  col[i].tag < col[j].tag
    BY <1>7 DEF TagsRise
  <2>1. place[i] < place[j] /\ place[i] \in Int /\ place[j] \in Int
    BY <1>6, <1>9 DEF IsPlaces
  <2>2. col[i].tag = place[i] - 1 /\ col[j].tag = place[j] - 1
    BY <1>9
  <2> QED
    BY <2>1, <2>2
<1>12. ASSUME NEW t \in Nat, IsPosition(c, t), Passes(c, t)
       PROVE  \E i \in DOMAIN col : col[i].tag = t
  <2>1. t + 1 \in 1 .. n /\ (t + 1) - 1 = t
    BY <1>1, <1>12 DEF IsPosition
  <2>2. all[t + 1] \in S
    BY <1>8, <1>12, <2>1
  <2>3. PICK i \in 1 .. m : place[i] = t + 1
    BY <1>6, <2>1, <2>2 DEF IsPlaces
  <2> QED
    BY <1>7, <1>9, <2>1, <2>3
<1> QED
  BY <1>5, <1>7, <1>10, <1>11, <1>12 DEF IsLoaded, col, k

-----------------------------------------------------------------------------
(* Joining columns.                                                        *)
LEMMA JoinFirst ==
  ASSUME TypeOK, Even, NEW col, columns[1] \in Column, IsLoaded(col, columns[1])
  PROVE  IsJoin(ConverValuesToRow(col), 1)
<1> DEFINE c == columns[1]
           m == Len(col)
           rows == ConverValuesToRow(col)
<1>1. col \in Seq(Tagged) /\ m \in Nat /\ DOMAIN col = 1 .. m /\ \A i \in 1 .. m : col[i] \in Tagged
  BY LenProperties DEF IsLoaded
<1>2. /\ \A i \in 1 .. m : rows[i].tag = col[i].tag /\ rows[i].values = <<col[i].value>>
      /\ rows \in [1 .. m -> JoinedRow]
  BY <1>1 DEF ConverValuesToRow, Tagged, JoinedRow
<1> HIDE DEF rows, c, m
<1>3. rows \in Seq(JoinedRow) /\ Len(rows) = m /\ DOMAIN rows = 1 .. m
  BY <1>1, <1>2, FunctionIsSeq
<1>4. Len(cells[c]) = Len(cells[1])
  BY ColumnFacts DEF Even, c
<1>5. \A t \in Nat : IsPosition(1, t) <=> IsPosition(c, t)
  BY <1>4 DEF IsPosition
<1>6. TagsRise(rows)
  BY <1>1, <1>2, <1>3 DEF TagsRise, IsLoaded
<1>7. ASSUME NEW i \in 1 .. m
      PROVE  /\ IsPosition(1, rows[i].tag)
             /\ Len(rows[i].values) = 1
             /\ \A j \in 1 .. 1 : /\ Passes(columns[j], rows[i].tag)
                                  /\ rows[i].values[j] = cells[columns[j]][rows[i].tag + 1]
  <2>1. /\ IsPosition(c, col[i].tag) /\ Passes(c, col[i].tag)
        /\ col[i].value = cells[c][col[i].tag + 1]
    BY <1>1 DEF IsLoaded, c
  <2>2. col[i].tag \in Nat
    BY <1>1 DEF Tagged
  <2>3. rows[i].values = <<col[i].value>>
    BY <1>2
  <2>4. Len(rows[i].values) = 1 /\ rows[i].values[1] = col[i].value
    BY <2>3
  <2> QED
    BY <1>2, <1>5, <2>1, <2>2, <2>4 DEF c
<1>8. ASSUME NEW t \in Nat, IsPosition(1, t), \A j \in 1 .. 1 : Passes(columns[j], t)
      PROVE  \E i \in DOMAIN rows : rows[i].tag = t
  <2>1. IsPosition(c, t) /\ Passes(c, t)
    BY <1>5, <1>8 DEF c
  <2>2. PICK i \in DOMAIN col : col[i].tag = t
    BY <2>1 DEF IsLoaded, c
  <2> QED
    BY <1>1, <1>2, <1>3, <2>2
<1> QED
  BY <1>3, <1>6, <1>7, <1>8 DEF IsJoin, rows

LEMMA JoinNext ==
  ASSUME TypeOK, Even, NEW n \in Nat, NEW rows, IsJoin(rows, n),
         NEW col, columns[n + 1] \in Column, IsLoaded(col, columns[n + 1])
  PROVE  IsJoin(DifferentColAndOP(rows, col), n + 1)
<1> DEFINE c == columns[n + 1]
           S == {e \in Range(col) : \E r \in Range(rows) : r.tag = e.tag}
           paired == Sifted(col, S)
           RowAt(tag) == CHOOSE r \in Range(rows) : r.tag = tag
           joined == DifferentColAndOP(rows, col)
           m == Len(col)
           k == Len(paired)
<1>1. col \in Seq(Tagged) /\ m \in Nat /\ DOMAIN col = 1 .. m /\ \A i \in 1 .. m : col[i] \in Tagged
  BY LenProperties DEF IsLoaded
<1>2. /\ rows \in Seq(JoinedRow) /\ Len(rows) \in Nat /\ DOMAIN rows = 1 .. Len(rows)
      /\ \A i \in DOMAIN rows : rows[i] \in JoinedRow
  BY LenProperties DEF IsJoin
<1>3. paired \in Seq(Tagged) /\ \E place : IsPlaces(place, col, S, m, paired)
  BY <1>1, SiftedPlaces
<1>4. PICK place : IsPlaces(place, col, S, m, paired)
  BY <1>3
<1>5. k \in Nat /\ DOMAIN paired = 1 .. k /\ \A i \in 1 .. k : paired[i] \in Tagged
  BY <1>3, LenProperties
<1>6. joined = [i \in 1 .. k |->
                  [tag |-> paired[i].tag,
                   values |-> Append(RowAt(paired[i].tag).values, paired[i].value)]]
  BY <1>5 DEF DifferentColAndOP
<1>7. Len(cells[c]) = Len(cells[1])
  BY ColumnFacts DEF Even
<1>8. \A t \in Nat : IsPosition(1, t) <=> IsPosition(c, t)
  BY <1>7 DEF IsPosition
<1>9. \A i \in 1 .. m : col[i] \in S <=> \E r \in Range(rows) : r.tag = col[i].tag
  BY <1>1 DEF Range
<1>10. /\ \A r \in Range(rows) : \E i \in DOMAIN rows : r = rows[i]
       /\ \A i \in DOMAIN rows : rows[i] \in Range(rows)
  BY DEF Range
<1> HIDE DEF S, paired, joined, c, m, k
<1>11. ASSUME NEW i \in 1 .. k
       PROVE  /\ place[i] \in 1 .. m /\ paired[i] = col[place[i]]
              /\ paired[i].tag \in Nat /\ paired[i].value \in Nat
              /\ \E h \in DOMAIN rows : /\ rows[h].tag = paired[i].tag
                                       /\ joined[i].values = Append(rows[h].values, paired[i].value)
              /\ joined[i].tag = paired[i].tag
              /\ joined[i] \in JoinedRow
  <2>1. place[i] \in 1 .. m /\ paired[i] = col[place[i]]
    BY <1>4 DEF IsPlaces, k
  <2>2. paired[i].tag \in Nat /\ paired[i].value \in Nat
    BY <1>5 DEF Tagged
  <2>3. col[place[i]] \in S
    BY <1>4, <2>1 DEF IsPlaces, k
  <2>4. \E r \in Range(rows) : r.tag = paired[i].tag
    BY <1>9, <2>1, <2>3
  <2>5. RowAt(paired[i].tag) \in Range(rows) /\ RowAt(paired[i].tag).tag = paired[i].tag
    BY <2>4
  <2>6. PICK h \in DOMAIN rows : RowAt(paired[i].tag) = rows[h]
    BY <1>10, <2>5
  <2> HIDE DEF RowAt
  <2>7. joined[i].values = Append(rows[h].values, paired[i].value) /\ joined[i].tag = paired[i].tag
    BY <1>6, <2>6
  <2>8. rows[h].values \in Seq(Nat)
    BY <1>2 DEF JoinedRow
  <2>9. Append(rows[h].values, paired[i].value) \in Seq(Nat)
    BY <2>2, <2>8, AppendProperties
  <2>10. joined[i] \in JoinedRow
    BY <1>6, <2>2, <2>6, <2>9 DEF JoinedRow
  <2> QED
    BY <2>1, <2>2, <2>5, <2>6, <2>7, <2>10
<1>12. joined \in [1 .. k -> JoinedRow]
  BY <1>6, <1>11
<1>13. joined \in Seq(JoinedRow) /\ Len(joined) = k /\ DOMAIN joined = 1 .. k
  BY <1>5, <1>12, FunctionIsSeq
<1>14. TagsRise(joined)
  <2> SUFFICES ASSUME NEW i \in 1 .. k, NEW j \in 1 .. k, i < j
               PROVE  joined[i].tag < joined[j].tag
    BY <1>13 DEF TagsRise
  <2>1. place[i] < place[j]
    BY <1>4 DEF IsPlaces, k
  <2>2. col[place[i]].tag < col[place[j]].tag
    BY <1>1, <1>11, <2>1 DEF IsLoaded, TagsRise
  <2> QED
    BY <1>11, <2>2
<1>15. ASSUME NEW i \in 1 .. k
       PROVE  /\ IsPosition(1, joined[i].tag)
              /\ Len(joined[i].values) = n + 1
              /\ \A j \in 1 .. n + 1 :
                   /\ Passes(columns[j], joined[i].tag)
                   /\ joined[i].values[j] = cells[columns[j]][joined[i].tag + 1]
  <2>1. PICK h \in DOMAIN rows : /\ rows[h].tag = paired[i].tag
                                /\ joined[i].values = Append(rows[h].values, paired[i].value)
    BY <1>11
  <2>2. /\ IsPosition(1, rows[h].tag)
        /\ Len(rows[h].values) = n
        /\ \A j \in 1 .. n : /\ Passes(columns[j], rows[h].tag)
                             /\ rows[h].values[j] = cells[columns[j]][rows[h].tag + 1]
    BY DEF IsJoin
  <2>3. rows[h].values \in Seq(Nat)
    BY <1>2 DEF JoinedRow
  <2>4. /\ Len(joined[i].values) = n + 1
        /\ \A j \in 1 .. n : joined[i].values[j] = rows[h].values[j]
        /\ joined[i].values[n + 1] = paired[i].value
    BY <1>11, <2>1, <2>2, <2>3, AppendProperties
  <2>5. place[i] \in DOMAIN col
    BY <1>1, <1>11
  <2>6. /\ Passes(c, paired[i].tag)
        /\ paired[i].value = cells[c][paired[i].tag + 1]
    BY <1>11, <2>5 DEF IsLoaded, c
  <2>7. joined[i].tag = paired[i].tag
    BY <1>11
  <2>8. \A j \in 1 .. n + 1 : j \in 1 .. n \/ j = n + 1
    OBVIOUS
  <2> QED
    BY <2>1, <2>2, <2>4, <2>6, <2>7, <2>8 DEF c
<1>16. ASSUME NEW t \in Nat, IsPosition(1, t), \A j \in 1 .. n + 1 : Passes(columns[j], t)
       PROVE  \E i \in DOMAIN joined : joined[i].tag = t
  <2>1. n + 1 \in 1 .. n + 1 /\ \A j \in 1 .. n : j \in 1 .. n + 1
    OBVIOUS
  <2>2. PICK h \in DOMAIN rows : rows[h].tag = t
    BY <1>16, <2>1 DEF IsJoin
  <2>3. IsPosition(c, t) /\ Passes(c, t)
    BY <1>8, <1>16, <2>1 DEF c
  <2>4. PICK i \in DOMAIN col : col[i].tag = t
    BY <2>3 DEF IsLoaded, c
  <2>5. col[i] \in S
    BY <1>1, <1>9, <1>10, <2>2, <2>4
  <2>6. PICK j \in 1 .. k : place[j] = i
    BY <1>1, <1>4, <2>5 DEF IsPlaces, k
  <2>7. joined[j].tag = paired[j].tag /\ paired[j] = col[place[j]]
    BY <1>11
  <2>8. joined[j].tag = t
    BY <2>4, <2>6, <2>7
  <2> QED
    BY <1>13, <2>8
<1> QED
  BY <1>13, <1>14, <1>15, <1>16 DEF IsJoin, joined

(* The columns of a statement.                                             *)
LEMMA ColumnsUsed ==
  ASSUME NEW s \in Executed
  PROVE  /\ SelectedColumns(s) \in Seq(Column) /\ Len(SelectedColumns(s)) \in Nat \ {0}
         /\ ComparedColumns(s) \in Seq(Column)
         /\ MergeUsedCols(s) \in Seq(Column)
         /\ Len(SelectedColumns(s)) <= Len(MergeUsedCols(s))
         /\ \A j \in 1 .. Len(SelectedColumns(s)) : MergeUsedCols(s)[j] = SelectedColumns(s)[j]
         /\ \A i \in DOMAIN s.where :
              \E j \in 1 .. Len(MergeUsedCols(s)) : MergeUsedCols(s)[j] = s.where[i].col
<1> DEFINE sel == SelectedColumns(s)
           cmp == ComparedColumns(s)
           S == Range(cmp) \ Range(sel)
           rest == Sifted(cmp, S)
<1>1. sel \in Seq(Column) /\ sel # <<>>
  <2>1. CASE s.select = Star
    <3>1. Columns \in Nat /\ Columns # 0
      BY SelectionAssumption
    <3>2. BuildAllCols \in [1 .. Columns -> Column]
      BY DEF BuildAllCols, Column
    <3>3. BuildAllCols \in Seq(Column) /\ Len(BuildAllCols) = Columns
      BY <3>1, <3>2, FunctionIsSeq
    <3> QED
      BY <2>1, <3>1, <3>3, EmptySeq DEF SelectedColumns
  <2>2. CASE s.select # Star
    BY <2>2 DEF SelectedColumns, Executed
  <2> QED
    BY <2>1, <2>2
<1>2. Len(sel) \in Nat \ {0} /\ DOMAIN sel = 1 .. Len(sel)
  BY <1>1, EmptySeq, LenProperties
<1>3. s.where \in Seq(Parsed)
  BY DEF Executed
<1>4. /\ Len(s.where) \in Nat /\ DOMAIN s.where = 1 .. Len(s.where)
      /\ \A i \in DOMAIN s.where : s.where[i].col \in Column
  <2>1. Len(s.where) \in Nat /\ DOMAIN s.where = 1 .. Len(s.where)
    BY <1>3, LenProperties
  <2>2. \A i \in 1 .. Len(s.where) :
          s.where[i] \in Parsed
    BY <1>3, LenProperties
  <2>3. \A i \in 1 .. Len(s.where) : s.where[i].col \in Column
    BY <2>2 DEF Parsed
  <2> QED
    BY <2>1, <2>3
<1>5. cmp \in [1 .. Len(s.where) -> Column]
  BY <1>4 DEF ComparedColumns
<1>6. cmp \in Seq(Column) /\ DOMAIN cmp = DOMAIN s.where /\ Len(cmp) = Len(s.where)
  BY <1>4, <1>5, FunctionIsSeq, Zenon
<1>7. \A i \in DOMAIN s.where : cmp[i] = s.where[i].col
  BY DEF ComparedColumns
<1>8. rest \in Seq(Column) /\ \E place : IsPlaces(place, cmp, S, Len(cmp), rest)
  BY <1>6, SiftedPlaces
<1>9. MergeUsedCols(s) = sel \o rest
  BY DEF MergeUsedCols
<1> HIDE DEF S, rest, sel, cmp
<1>10. /\ sel \o rest \in Seq(Column) /\ Len(sel \o rest) = Len(sel) + Len(rest)
       /\ Len(rest) \in Nat
       /\ \A i \in 1 .. Len(sel) + Len(rest) :
             (sel \o rest)[i] = IF i <= Len(sel) THEN sel[i] ELSE rest[i - Len(sel)]
  BY <1>1, <1>8, ConcatProperties, LenProperties
<1>11. \A j \in 1 .. Len(sel) : (sel \o rest)[j] = sel[j]
  BY <1>2, <1>10
<1>12. ASSUME NEW i \in DOMAIN s.where
       PROVE  \E j \in 1 .. Len(sel \o rest) : (sel \o rest)[j] = s.where[i].col
  <2>1. CASE cmp[i] \in S
    <3>1. PICK place : IsPlaces(place, cmp, S, Len(cmp), rest)
      BY <1>8
    <3>2. PICK h \in 1 .. Len(rest) : place[h] = i
      BY <1>4, <1>6, <2>1, <3>1 DEF IsPlaces
    <3>3. rest[h] = cmp[i]
      BY <3>1, <3>2 DEF IsPlaces
    <3>4. /\ Len(sel) + h \in 1 .. Len(sel) + Len(rest)
          /\ ~(Len(sel) + h <= Len(sel)) /\ (Len(sel) + h) - Len(sel) = h
      BY <1>2, <1>10
    <3>5. (sel \o rest)[Len(sel) + h] = rest[h]
      BY <1>10, <3>4
    <3> QED
      BY <1>7, <1>10, <3>3, <3>4, <3>5
  <2>2. CASE cmp[i] \notin S
    <3>1. cmp[i] \in Range(cmp)
      BY <1>6 DEF Range
    <3>2. PICK j \in 1 .. Len(sel) : sel[j] = cmp[i]
      BY <1>2, <2>2, <3>1 DEF S, Range
    <3>3. j \in 1 .. Len(sel \o rest)
      BY <1>2, <1>10
    <3> QED
      BY <1>7, <1>11, <3>2, <3>3
  <2> QED
    BY <2>1, <2>2
<1>13. Len(sel) <= Len(sel \o rest)
  BY <1>2, <1>10
<1> QED
  BY <1>1, <1>2, <1>6, <1>9, <1>10, <1>11, <1>12, <1>13 DEF sel, cmp

(* All columns of a statement joined, one by one.                          *)
IsJoined(f, n) ==
  f = [i \in 0 .. n |-> IF i = 0 THEN ConverValuesToRow(Head(cols))
                        ELSE DifferentColAndOP(f[i - 1], Tail(cols)[i])]

LEMMA JoinedExists ==
  ASSUME NEW m \in Nat
  PROVE  \E f : IsJoined(f, m)
<1> DEFINE T == {n \in Nat : \E f : IsJoined(f, n)}
<1>1. 0 \in T
  <2>1. IsJoined([n \in 0 .. 0 |-> ConverValuesToRow(Head(cols))], 0)
    BY DEF IsJoined
  <2> QED
    BY <2>1
<1>2. ASSUME NEW n \in Nat, n \in T PROVE n + 1 \in T
  <2>1. PICK f : IsJoined(f, n)
    BY <1>2
  <2> DEFINE last == DifferentColAndOP(f[n], Tail(cols)[n + 1])
             g == [i \in 0 .. n + 1 |-> IF i = n + 1 THEN last ELSE f[i]]
  <2>2. \A i \in 0 .. n : f[i] = IF i = 0 THEN ConverValuesToRow(Head(cols))
                                 ELSE DifferentColAndOP(f[i - 1], Tail(cols)[i])
    BY <2>1 DEF IsJoined
  <2>3. /\ g = [i \in 0 .. n + 1 |-> g[i]]
        /\ g[n + 1] = last
        /\ \A i \in 0 .. n : g[i] = f[i]
    OBVIOUS
  <2> HIDE DEF g
  <2>4. \A i \in 0 .. n + 1 : g[i] = IF i = 0 THEN ConverValuesToRow(Head(cols))
                                     ELSE DifferentColAndOP(g[i - 1], Tail(cols)[i])
    <3> TAKE i \in 0 .. n + 1
    <3>1. CASE i \in 0 .. n
      <4>1. i # 0 => i - 1 \in 0 .. n
        BY <3>1
      <4> QED
        BY <2>2, <2>3, <3>1, <4>1
    <3>2. CASE i = n + 1
      <4>1. i - 1 = n /\ n \in 0 .. n /\ i # 0
        BY <3>2
      <4> QED
        BY <2>3, <3>2, <4>1
    <3>3. i \in 0 .. n \/ i = n + 1
      OBVIOUS
    <3> QED
      BY <3>1, <3>2, <3>3
  <2>5. IsJoined(g, n + 1)
    BY <2>3, <2>4, Zenon DEF IsJoined
  <2> QED
    BY <2>5
<1> HIDE DEF T
<1>3. m \in T
  BY <1>1, <1>2, NatInd
<1> QED
  BY <1>3 DEF T

LEMMA JoinAll ==
  ASSUME SelectionInv, worker # "idle", Len(cols) = Len(columns)
  PROVE  IsJoin(Join, Len(columns))
<1> DEFINE n == Len(Tail(cols))
           f == CHOOSE g : IsJoined(g, n)
<1>1. TypeOK /\ Even /\ columns \in Seq(Column) /\ cols \in Seq(Seq(Tagged))
  BY DEF SelectionInv, TypeOK
<1>2. Len(columns) \in Nat \ {0} /\ \A i \in 1 .. Len(columns) : columns[i] \in Column
  <2>1. columns = MergeUsedCols(stmt) /\ stmt \in Executed
    BY DEF SelectionInv, Loaded
  <2> QED
    BY <1>1, <2>1, ColumnsUsed, LenProperties
<1>3. DOMAIN cols = 1 .. Len(columns) /\ \A i \in 1 .. Len(columns) : IsLoaded(cols[i], columns[i])
  BY <1>1, LenProperties DEF SelectionInv, Loaded
<1>4. /\ cols # <<>> /\ Head(cols) = cols[1] /\ n = Len(columns) - 1 /\ n \in Nat
      /\ \A i \in 1 .. n : Tail(cols)[i] = cols[i + 1]
  BY <1>1, <1>2, HeadTailProperties, EmptySeq
<1>5. \E g : IsJoined(g, n)
  BY <1>4, JoinedExists
<1>6. IsJoined(f, n)
  BY <1>5
<1>7. Join = f[n]
  BY DEF Join, IsJoined
<1> HIDE DEF f, n
<1>8. \A i \in 0 .. n : f[i] = IF i = 0 THEN ConverValuesToRow(Head(cols))
                               ELSE DifferentColAndOP(f[i - 1], Tail(cols)[i])
  BY <1>6 DEF IsJoined
<1> DEFINE T == {i \in Nat : i <= n => IsJoin(f[i], i + 1)}
<1>9. 0 \in T
  <2>1. f[0] = ConverValuesToRow(cols[1])
    BY <1>4, <1>8
  <2>2. 1 \in 1 .. Len(columns)
    BY <1>2
  <2>3. IsJoin(f[0], 1)
    BY <1>1, <1>2, <1>3, <2>1, <2>2, JoinFirst
  <2> QED
    BY <2>3
<1>10. ASSUME NEW i \in Nat, i \in T PROVE i + 1 \in T
  <2> SUFFICES ASSUME i + 1 <= n PROVE IsJoin(f[i + 1], (i + 1) + 1)
    OBVIOUS
  <2>1. /\ i + 1 \in 0 .. n /\ i + 1 # 0 /\ (i + 1) - 1 = i /\ i + 1 \in 1 .. n
        /\ (i + 1) + 1 \in 1 .. Len(columns) /\ i + 1 \in Nat
    BY <1>4
  <2>2. IsJoin(f[i], i + 1)
    BY <1>4, <1>10
  <2>3. f[i + 1] = DifferentColAndOP(f[i], cols[(i + 1) + 1])
    BY <1>4, <1>8, <2>1
  <2> QED
    BY <1>1, <1>2, <1>3, <2>1, <2>2, <2>3, JoinNext
<1> HIDE DEF T
<1>11. n \in T
  BY <1>4, <1>9, <1>10, NatInd
<1>12. IsJoin(f[n], n + 1) /\ n + 1 = Len(columns)
  BY <1>2, <1>4, <1>11 DEF T
<1> QED
  BY <1>7, <1>12

-----------------------------------------------------------------------------
(* The rows that are printed.                                              *)
LEMMA Printed ==
  ASSUME SelectionInv, worker # "idle", Len(cols) = Len(columns),
         NEW rows, rows = PrintRows(Join, Len(SelectedColumns(stmt)))
  PROVE  /\ rows \in Seq(JoinedRow)
         /\ DOMAIN rows = DOMAIN Join
         /\ \A i \in DOMAIN rows :
              /\ rows[i].tag = Join[i].tag
              /\ rows[i].values = [j \in DOMAIN SelectedColumns(stmt) |->
                                     cells[SelectedColumns(stmt)[j]][rows[i].tag + 1]]
<1> DEFINE n == Len(columns)
           sel == SelectedColumns(stmt)
           k == Len(sel)
<1>1. IsJoin(Join, n) /\ columns = MergeUsedCols(stmt) /\ stmt \in Executed
  BY JoinAll DEF SelectionInv, Loaded
<1>2. /\ k \in Nat /\ n \in Nat /\ k <= n /\ sel \in Seq(Column) /\ DOMAIN sel = 1 .. k
      /\ \A j \in 1 .. k : columns[j] = sel[j]
  BY <1>1, ColumnsUsed, LenProperties
<1>3. Join \in Seq(JoinedRow) /\ Len(Join) \in Nat /\ DOMAIN Join = 1 .. Len(Join)
  BY <1>1, LenProperties DEF IsJoin
<1> HIDE DEF n, k, sel
<1>4. rows = [i \in DOMAIN Join |-> [Join[i] EXCEPT !.values = SubSeq(@, 1, k)]]
  BY DEF PrintRows, k, sel
<1>5. ASSUME NEW i \in DOMAIN Join
      PROVE  /\ rows[i].tag = Join[i].tag
             /\ rows[i].values = [j \in DOMAIN sel |-> cells[sel[j]][rows[i].tag + 1]]
             /\ rows[i] \in JoinedRow
  <2>1. Join[i] \in JoinedRow
    BY <1>3, LenProperties
  <2>2. /\ Join[i].values \in Seq(Nat) /\ Len(Join[i].values) = n
        /\ \A j \in 1 .. n : Join[i].values[j] = cells[columns[j]][Join[i].tag + 1]
    BY <1>1, <2>1 DEF IsJoin, JoinedRow
  <2>3. \A j \in 1 .. n : Join[i].values[j] \in Nat
    BY <2>2, LenProperties
  <2> DEFINE cut == SubSeq(Join[i].values, 1, k)
  <2>4. \A j \in 1 .. k : Join[i].values[j] \in Nat /\ j \in 1 .. n
    BY <1>2, <2>3
  <2>5. 1 \in Int /\ k \in Int
    BY <1>2
  <2>6. /\ cut \in Seq(Nat) /\ Len(cut) = (IF 1 <= k THEN k - 1 + 1 ELSE 0)
        /\ \A j \in 1 .. k - 1 + 1 : cut[j] = Join[i].values[1 + j - 1]
    BY <2>4, <2>5, SubSeqProperties
  <2>7. Len(cut) = k
    BY <1>2, <2>6
  <2>8. \A j \in 1 .. k : cut[j] = Join[i].values[j]
    <3> TAKE j \in 1 .. k
    <3>1. j \in 1 .. k - 1 + 1 /\ 1 + j - 1 = j
      BY <1>2
    <3> QED
      BY <2>6, <3>1
  <2>9. DOMAIN cut = 1 .. k
    BY <2>6, <2>7, LenProperties
  <2> HIDE DEF cut
  <2>10. rows[i].tag = Join[i].tag /\ rows[i].values = cut /\ rows[i] \in JoinedRow
    BY <1>4, <2>1, <2>6 DEF JoinedRow, cut
  <2>11. \A j \in 1 .. k : cut[j] = cells[sel[j]][rows[i].tag + 1]
    BY <1>2, <2>2, <2>4, <2>8, <2>10
  <2>12. cut = [j \in 1 .. k |-> cut[j]]
    BY <2>6, <2>7, LenProperties
  <2>13. cut = [j \in 1 .. k |-> cells[sel[j]][rows[i].tag + 1]]
    BY <2>11, <2>12, Zenon
  <2> QED
    BY <1>2, <2>10, <2>13
<1>6. rows \in [1 .. Len(Join) -> JoinedRow]
  BY <1>3, <1>4, <1>5
<1>7. rows \in Seq(JoinedRow) /\ DOMAIN rows = DOMAIN Join
  BY <1>3, <1>6, FunctionIsSeq
<1> QED
  BY <1>5, <1>7 DEF sel

(* Positions pass in all the columns of a statement that compares no       *)
(* column twice if they meet all its conditions.                           *)
LEMMA FirstCondition ==
  ASSUME stmt \in Executed, NEW c, ConditionsOn(c) # <<>>
  PROVE  \E i \in DOMAIN stmt.where : GetConditionOnCol(c) = stmt.where[i] /\ stmt.where[i].col = c
<1> DEFINE S == {k \in Range(stmt.where) : k.col = c}
           X == Parsed
           on == ConditionsOn(c)
<1>1. stmt.where \in Seq(X)
  BY DEF Executed
<1> HIDE DEF X
<1>2. Len(stmt.where) \in Nat /\ DOMAIN stmt.where = 1 .. Len(stmt.where)
  BY <1>1, LenProperties
<1>3. on = Sifted(stmt.where, S)
  BY DEF ConditionsOn
<1> HIDE DEF S, on
<1>4. on \in Seq(X) /\ \E place : IsPlaces(place, stmt.where, S, Len(stmt.where), on)
  BY <1>1, <1>3, SiftedPlaces
<1>5. PICK place : IsPlaces(place, stmt.where, S, Len(stmt.where), on)
  BY <1>4
<1>6. Len(on) \in Nat \ {0} /\ Head(on) = on[1]
  BY <1>4, EmptySeq, HeadTailProperties DEF on
<1>7. 1 \in 1 .. Len(on)
  BY <1>6
<1>8. place[1] \in 1 .. Len(stmt.where) /\ on[1] = stmt.where[place[1]]
  BY <1>5, <1>7 DEF IsPlaces
<1>9. stmt.where[place[1]] \in S
  BY <1>5, <1>7, <1>8 DEF IsPlaces
<1> QED
  BY <1>2, <1>6, <1>8, <1>9 DEF S, on, GetConditionOnCol

LEMMA HasCondition ==
  ASSUME stmt \in Executed, NEW i \in DOMAIN stmt.where
  PROVE  ConditionsOn(stmt.where[i].col) # <<>>
<1> DEFINE c == stmt.where[i].col
           S == {k \in Range(stmt.where) : k.col = c}
           X == Parsed
           on == ConditionsOn(c)
<1>1. stmt.where \in Seq(X)
  BY DEF Executed
<1> HIDE DEF X
<1>2. Len(stmt.where) \in Nat /\ DOMAIN stmt.where = 1 .. Len(stmt.where)
  BY <1>1, LenProperties
<1>3. on = Sifted(stmt.where, S)
  BY DEF ConditionsOn
<1>4. stmt.where[i] \in S
  BY DEF Range
<1> HIDE DEF S, on
<1>5. PICK place : IsPlaces(place, stmt.where, S, Len(stmt.where), on)
  BY <1>1, <1>3, SiftedPlaces
<1>6. PICK j \in 1 .. Len(on) : place[j] = i
  BY <1>2, <1>4, <1>5 DEF IsPlaces
<1>7. Len(on) # 0
  BY <1>6
<1> QED
  BY <1>7, EmptySeq DEF on

LEMMA AllPass ==
  ASSUME SelectionInv, worker # "idle", OneConditionPerColumn, NEW t
  PROVE  (\A j \in 1 .. Len(columns) : Passes(columns[j], t))
           <=> (\A k \in Range(stmt.where) : Meets(k, cells[k.col][t + 1]))
<1>1. stmt \in Executed /\ columns = MergeUsedCols(stmt)
  BY DEF SelectionInv, Loaded
<1>2. /\ \A k \in Range(stmt.where) : \E i \in DOMAIN stmt.where : k = stmt.where[i]
      /\ \A i \in DOMAIN stmt.where : stmt.where[i] \in Range(stmt.where)
  BY DEF Range
<1>3. ASSUME \A j \in 1 .. Len(columns) : Passes(columns[j], t),
             NEW i \in DOMAIN stmt.where
      PROVE  Meets(stmt.where[i], cells[stmt.where[i].col][t + 1])
  <2>1. PICK j \in 1 .. Len(columns) : columns[j] = stmt.where[i].col
    BY <1>1, ColumnsUsed
  <2>2. ConditionsOn(columns[j]) # <<>>
    BY <1>1, <2>1, HasCondition
  <2>3. Meets(GetConditionOnCol(columns[j]), cells[columns[j]][t + 1])
    BY <1>3, <2>2 DEF Passes
  <2>4. PICK h \in DOMAIN stmt.where :
           GetConditionOnCol(columns[j]) = stmt.where[h] /\ stmt.where[h].col = columns[j]
    BY <1>1, <2>2, FirstCondition
  <2>5. h = i
    BY <2>1, <2>4 DEF OneConditionPerColumn
  <2> QED
    BY <2>1, <2>3, <2>4, <2>5
<1>4. ASSUME \A k \in Range(stmt.where) : Meets(k, cells[k.col][t + 1]),
             NEW j \in 1 .. Len(columns)
      PROVE  Passes(columns[j], t)
  <2> SUFFICES ASSUME ConditionsOn(columns[j]) # <<>>
               PROVE  Meets(GetConditionOnCol(columns[j]), cells[columns[j]][t + 1])
    BY DEF Passes
  <2>1. PICK h \in DOMAIN stmt.where :
           GetConditionOnCol(columns[j]) = stmt.where[h] /\ stmt.where[h].col = columns[j]
    BY <1>1, FirstCondition
  <2> QED
    BY <1>2, <1>4, <2>1
<1> QED
  BY <1>2, <1>3, <1>4

-----------------------------------------------------------------------------
(* The answer is the selection.                                            *)
(* What is left of a number after stoi decides as the number does.         *)
LEMMA MeetsHolds ==
  ASSUME NEW k \in Parsed, NEW v \in Nat, k.value.fraction => k.cmp = ">"
  PROVE  Meets(k, v) <=> Holds(k, v)
<1>1. k.value \in Written /\ k.cmp \in Comparator
  BY DEF Parsed
<1>2. PICK whole \in Int : whole = k.value.whole
  BY <1>1 DEF Written, NoDigits
<1>3. InitValue(k.value) = whole
  BY <1>2 DEF InitValue
<1>4. /\ (v - whole > 0) <=> (v > whole)
      /\ (v - whole < 0) <=> (v < whole)
      /\ (v - whole = 0) <=> (v = whole)
  OBVIOUS
<1>5. CASE k.cmp = ">"
  BY <1>2, <1>3, <1>4, <1>5 DEF Meets, Holds, Compare
<1>6. CASE k.cmp # ">"
  <2>1. ~k.value.fraction
    BY <1>6
  <2> QED
    BY <1>2, <1>3, <1>4, <1>6, <2>1 DEF Meets, Holds, Compare
<1> QED
  BY <1>5, <1>6

LEMMA SelectedMeets ==
  ASSUME SelectionInv, OnlyAnd, FractionsBehindGreater, NEW i \in 1 .. Len(cells[1])
  PROVE  IsSelected(i) <=> \A k \in Range(stmt.where) : Meets(k, cells[k.col][i])
<1> DEFINE where == stmt.where
<1>1. where \in Seq(Parsed) /\ TypeOK /\ Even
  BY DEF SelectionInv, Executed
<1>2. Len(where) \in Nat /\ DOMAIN where = 1 .. Len(where) /\ \A j \in DOMAIN where : where[j] \in Parsed
  BY <1>1, LenProperties
<1>3. \A j \in DOMAIN where : where[j] \in Range(where)
  BY DEF Range
<1>4. ASSUME NEW j \in DOMAIN where
      PROVE  Meets(where[j], cells[where[j].col][i]) <=> Holds(where[j], cells[where[j].col][i])
  <2>1. where[j].col \in Column
    BY <1>2 DEF Parsed
  <2>2. Len(cells[where[j].col]) = Len(cells[1])
    BY <1>1, <2>1, ColumnFacts DEF Even
  <2>3. cells[where[j].col][i] \in Nat
    BY <1>1, <2>1, <2>2, CellsFacts
  <2>4. where[j].value.fraction => where[j].cmp = ">"
    BY <1>3 DEF FractionsBehindGreater
  <2> QED
    BY <1>2, <2>3, <2>4, MeetsHolds
<1>5. \A j \in DOMAIN where : ~where[j].or
  BY <1>3 DEF OnlyAnd
<1>6. (\A k \in Range(where) : Meets(k, cells[k.col][i]))
        <=> \A j \in DOMAIN where : Holds(where[j], cells[where[j].col][i])
  <2>1. \A k \in Range(where) : \E j \in DOMAIN where : k = where[j]
    BY DEF Range
  <2> QED
    BY <1>3, <1>4, <2>1
<1>7. IsSelected(i) <=> \A j \in DOMAIN where : Holds(where[j], cells[where[j].col][i])
  <2>1. CASE where = <<>>
    BY <2>1, <1>2, EmptySeq DEF IsSelected
  <2>2. CASE where # <<>>
    <3>1. 1 \in DOMAIN where
      BY <1>1, <1>2, <2>2, EmptySeq
    <3>2. \A j \in DOMAIN where : 1 <= j /\ \A h \in 1 + 1 .. j : ~where[h].or
      BY <1>2, <1>5
    <3>3. \A first \in DOMAIN where : first = 1 \/ where[first].or => first = 1
      BY <1>5
    <3> QED
      BY <2>2, <3>1, <3>2, <3>3 DEF IsSelected
  <2> QED
    BY <2>1, <2>2
<1> QED
  BY <1>6, <1>7

LEMMA AnswerSelected ==
  ASSUME SelectionInv, worker = "answered", OneConditionPerColumn, OnlyAnd, FractionsBehindGreater
  PROVE  answer = Selected
<1> DEFINE n == Len(cells[1])
           all == [i \in DOMAIN cells[1] |-> i]
           S == {i \in Range(all) : IsSelected(i)}
           kept == Sifted(all, S)
           sel == SelectedColumns(stmt)
           Project(i) == [j \in DOMAIN sel |-> cells[sel[j]][i]]
           m == Len(kept)
           a == Len(answer)
           p == [i \in 1 .. a |-> answer[i].tag]
           q == [j \in 1 .. m |-> kept[j] - 1]
<1>1. /\ TypeOK /\ Len(cols) = Len(columns)
      /\ answer = PrintRows(Join, Len(SelectedColumns(stmt)))
  BY DEF SelectionInv, Answered
<1>2. /\ answer \in Seq(JoinedRow)
      /\ DOMAIN answer = DOMAIN Join
      /\ \A i \in DOMAIN answer :
           /\ answer[i].tag = Join[i].tag
           /\ answer[i].values = [j \in DOMAIN sel |-> cells[sel[j]][answer[i].tag + 1]]
  BY <1>1, Printed
<1>3. IsJoin(Join, Len(columns))
  BY <1>1, JoinAll
<1>4. n \in Nat /\ DOMAIN cells[1] = 1 .. n
  BY <1>1, CellsFacts, ColumnFacts
<1>5. all \in [1 .. n -> Nat] /\ \A i \in 1 .. n : all[i] = i
  BY <1>4
<1> HIDE DEF all
<1>6. all \in Seq(Nat) /\ Len(all) = n /\ DOMAIN all = 1 .. n
  BY <1>4, <1>5, FunctionIsSeq
<1>7. \A i \in 1 .. n : all[i] \in S <=> \A k \in Range(stmt.where) : Meets(k, cells[k.col][i])
  <2>1. \A i \in 1 .. n : all[i] \in S <=> IsSelected(i)
    BY <1>5, <1>6 DEF Range
  <2> QED
    BY <2>1, SelectedMeets
<1>8. Selected = [j \in DOMAIN kept |-> [tag |-> kept[j] - 1, values |-> Project(kept[j])]]
  BY DEF Selected, all
<1> HIDE DEF S, kept
<1>9. kept \in Seq(Nat) /\ \E place : IsPlaces(place, all, S, n, kept)
  BY <1>6, SiftedPlaces DEF kept
<1>10. PICK place : IsPlaces(place, all, S, n, kept)
  BY <1>9
<1>11. m \in Nat /\ DOMAIN kept = 1 .. m
  BY <1>9, LenProperties
<1>12. a \in Nat /\ DOMAIN answer = 1 .. a /\ \A i \in 1 .. a : answer[i] \in JoinedRow
  BY <1>2, LenProperties
<1>13. \A j \in 1 .. m : place[j] = kept[j] /\ kept[j] \in 1 .. n
  BY <1>5, <1>10 DEF IsPlaces
<1>14. /\ p \in [1 .. a -> Nat] /\ q \in [1 .. m -> Nat]
       /\ \A i \in 1 .. a : p[i] = answer[i].tag
       /\ \A j \in 1 .. m : q[j] = kept[j] - 1
  BY <1>4, <1>12, <1>13 DEF JoinedRow
<1> HIDE DEF p, q, m, a, n
<1>15. \A i, j \in 1 .. a : i < j => p[i] < p[j]
  <2>1. TagsRise(Join) /\ DOMAIN Join = 1 .. a /\ \A i \in 1 .. a : p[i] = Join[i].tag
    BY <1>2, <1>3, <1>12, <1>14 DEF IsJoin
  <2> QED
    BY <2>1 DEF TagsRise
<1>16. \A i, j \in 1 .. m : i < j => q[i] < q[j]
  <2> SUFFICES ASSUME NEW i \in 1 .. m, NEW j \in 1 .. m, i < j PROVE q[i] < q[j]
    OBVIOUS
  <2>1. place[i] < place[j]
    BY <1>10 DEF IsPlaces, m
  <2>2. kept[i] \in Nat /\ kept[j] \in Nat
    BY <1>4, <1>13
  <2> QED
    BY <1>13, <1>14, <2>1, <2>2
<1>17. ASSUME NEW i \in 1 .. a PROVE \E j \in 1 .. m : p[i] = q[j]
  <2>1. /\ IsPosition(1, p[i]) /\ p[i] \in Nat
        /\ \A j \in 1 .. Len(columns) : Passes(columns[j], p[i])
    <3>1. i \in DOMAIN Join /\ p[i] = Join[i].tag /\ p[i] \in Nat
      BY <1>2, <1>12, <1>14
    <3> QED
      BY <1>3, <3>1 DEF IsJoin
  <2>2. p[i] + 1 \in 1 .. n /\ (p[i] + 1) - 1 = p[i]
    BY <1>4, <2>1 DEF IsPosition, n
  <2>3. all[p[i] + 1] \in S
    BY <1>7, <2>1, <2>2, AllPass
  <2>4. PICK j \in 1 .. m : place[j] = p[i] + 1
    BY <1>10, <2>2, <2>3 DEF IsPlaces, m
  <2> QED
    BY <1>13, <1>14, <2>2, <2>4
<1>18. ASSUME NEW j \in 1 .. m PROVE \E i \in 1 .. a : q[j] = p[i]
  <2>1. kept[j] \in 1 .. n /\ q[j] = kept[j] - 1 /\ q[j] \in Nat
    BY <1>13, <1>14
  <2>2. q[j] + 1 = kept[j] /\ q[j] < n
    BY <1>4, <2>1
  <2>3. all[kept[j]] \in S
    BY <1>10, <1>13 DEF IsPlaces, m
  <2>4. \A k \in Range(stmt.where) : Meets(k, cells[k.col][q[j] + 1])
    BY <1>7, <2>1, <2>2, <2>3
  <2>5. \A i \in 1 .. Len(columns) : Passes(columns[i], q[j])
    BY <2>4, AllPass
  <2>6. IsPosition(1, q[j])
    BY <2>1, <2>2 DEF IsPosition, n
  <2>7. PICK i \in DOMAIN Join : Join[i].tag = q[j]
    BY <1>3, <2>1, <2>5, <2>6 DEF IsJoin
  <2>8. i \in 1 .. a /\ p[i] = q[j]
    BY <1>2, <1>12, <1>14, <2>7
  <2> QED
    BY <2>8
<1>19. a = m /\ \A i \in 1 .. a : p[i] = q[i]
  <2>1. a \in Nat /\ m \in Nat
    BY <1>11, <1>12
  <2>2. IsRising(p, a) /\ IsRising(q, m)
    BY <1>14, <1>15, <1>16 DEF IsRising
  <2>3. IsWithin(p, a, q, m)
    BY <1>17 DEF IsWithin
  <2>4. IsWithin(q, m, p, a)
    BY <1>18 DEF IsWithin
  <2> QED
    BY <2>1, <2>2, <2>3, <2>4, RisingUnique
<1>20. ASSUME NEW i \in 1 .. a
       PROVE  answer[i] = [tag |-> kept[i] - 1, values |-> Project(kept[i])]
  <2>1. answer[i].tag = kept[i] - 1 /\ kept[i] \in Nat
    BY <1>4, <1>13, <1>14, <1>19
  <2>2. answer[i].tag + 1 = kept[i]
    BY <2>1
  <2>3. answer[i].values = Project(kept[i])
    BY <1>2, <1>12, <2>2
  <2>4. answer[i] = [tag |-> answer[i].tag, values |-> answer[i].values]
    BY <1>12 DEF JoinedRow
  <2> QED
    BY <2>1, <2>3, <2>4
<1> HIDE DEF sel
<1>21. answer = [i \in 1 .. a |-> answer[i]]
  BY <1>2, <1>12, LenProperties
<1> QED
  BY <1>8, <1>11, <1>19, <1>20, <1>21, Zenon

(* The rows of the answer are rows of the table.                           *)
LEMMA AnswerOfTheTable == SelectionInv => RowsOfTheTable
<1> SUFFICES ASSUME SelectionInv, worker = "answered", NEW i \in DOMAIN answer
             PROVE  /\ \A j \in DOMAIN answer : i < j => answer[i].tag < answer[j].tag
                    /\ answer[i].values = [j \in DOMAIN SelectedColumns(stmt) |->
                                             cells[SelectedColumns(stmt)[j]][answer[i].tag + 1]]
  BY DEF RowsOfTheTable
<1>1. Len(cols) = Len(columns) /\ answer = PrintRows(Join, Len(SelectedColumns(stmt)))
  BY DEF SelectionInv, Answered
<1>2. IsJoin(Join, Len(columns))
  BY <1>1, JoinAll
<1>3. /\ DOMAIN answer = DOMAIN Join
      /\ \A j \in DOMAIN answer :
           /\ answer[j].tag = Join[j].tag
           /\ answer[j].values = [h \in DOMAIN SelectedColumns(stmt) |->
                                    cells[SelectedColumns(stmt)[h]][answer[j].tag + 1]]
  BY <1>1, Printed
<1>4. \A j \in DOMAIN answer : i < j => answer[i].tag < answer[j].tag
  BY <1>2, <1>3 DEF IsJoin, TagsRise
<1> QED
  BY <1>3, <1>4

-----------------------------------------------------------------------------
(* The invariant, step by step.                                            *)
LEMMA SelectionInit == Init => SelectionInv
<1> SUFFICES ASSUME Init PROVE SelectionInv
  OBVIOUS
<1>1. TypeOK
  BY EmptySeq DEF Init, TypeOK
<1>2. stmt \in Executed
  BY EmptySeq DEF Init, Executed
<1>3. Even /\ Loaded /\ Answered
  BY DEF Init, Even, Loaded, Answered
<1> QED
  BY <1>1, <1>2, <1>3 DEF SelectionInv

(* A column's last block begins within it, or just behind its end.         *)
LEMMA LastBlock ==
  ASSUME TypeOK, NEW c \in Column
  PROVE  LastBlockStart(c) \in 1 .. Len(cells[c]) + 1
<1>1. Len(cells[c]) \in Nat /\ BlockRows \in Nat \ {0}
  BY CellsFacts, SelectionAssumption
<1>2. \A n \in Nat, b \in Nat \ {0} : (n \div b) * b \in 0 .. n
  OBVIOUS
<1>3. (Len(cells[c]) \div BlockRows) * BlockRows \in 0 .. Len(cells[c])
  BY <1>1, <1>2
<1> DEFINE start == (Len(cells[c]) \div BlockRows) * BlockRows
<1>4. LastBlockStart(c) = start + 1 /\ start \in 0 .. Len(cells[c])
  BY <1>3 DEF LastBlockStart
<1> HIDE DEF start
<1> QED
  BY <1>1, <1>4

LEMMA Inserted ==
  ASSUME NEW s \in Seq(Nat), NEW p \in 1 .. Len(s) + 1, NEW v \in Nat
  PROVE  InsertAt(s, p, v) \in Seq(Nat) /\ Len(InsertAt(s, p, v)) = Len(s) + 1
<1> DEFINE front == SubSeq(s, 1, p - 1)
           back == SubSeq(s, p, Len(s))
<1>1. Len(s) \in Nat /\ \A i \in 1 .. Len(s) : s[i] \in Nat
  BY LenProperties
<1>2. \A i \in 1 .. p - 1 : s[i] \in Nat
  BY <1>1
<1>3. front \in Seq(Nat) /\ Len(front) = (IF 1 <= p - 1 THEN (p - 1) - 1 + 1 ELSE 0)
  <2>1. 1 \in Int /\ p - 1 \in Int
    BY <1>1
  <2> QED
    BY <1>2, <2>1, SubSeqProperties
<1>4. back \in Seq(Nat) /\ Len(back) = (IF p <= Len(s) THEN Len(s) - p + 1 ELSE 0)
  <2>1. p \in Int /\ Len(s) \in Int /\ \A i \in p .. Len(s) : s[i] \in Nat
    BY <1>1
  <2> QED
    BY <2>1, SubSeqProperties
<1> HIDE DEF front, back
<1>5. Len(front) \in Nat /\ Len(back) \in Nat
  BY <1>3, <1>4, LenProperties
<1>6. <<v>> \in Seq(Nat) /\ Len(<<v>>) = 1
  OBVIOUS
<1>7. front \o <<v>> \in Seq(Nat) /\ Len(front \o <<v>>) = Len(front) + 1
  BY <1>3, <1>6, ConcatProperties
<1> DEFINE more == front \o <<v>>
<1> HIDE DEF more
<1>8. more \o back \in Seq(Nat) /\ Len(more \o back) = Len(more) + Len(back)
  BY <1>4, <1>7, ConcatProperties DEF more
<1>9. Len(front) = p - 1 /\ Len(back) = Len(s) - p + 1
  BY <1>1, <1>3, <1>4
<1>10. Len(more) + Len(back) = Len(s) + 1
  BY <1>1, <1>7, <1>9 DEF more
<1> QED
  BY <1>8, <1>10 DEF InsertAt, front, back, more

LEMMA SelectionInsert ==
  ASSUME SelectionInv, NEW row \in NewRows, Insert(row)
  PROVE  SelectionInv'
<1>1. TypeOK /\ Even /\ row \in [Column -> Nat]
  BY SelectionAssumption DEF SelectionInv
<1>2. \A c \in Column : cells'[c] = InsertAt(cells[c], LastBlockStart(c), row[c])
  BY DEF Insert
<1>3. ASSUME NEW c \in Column
      PROVE  cells'[c] \in Seq(Nat) /\ Len(cells'[c]) = Len(cells[c]) + 1
  <2>1. cells[c] \in Seq(Nat) /\ row[c] \in Nat
    BY <1>1 DEF TypeOK
  <2>2. LastBlockStart(c) \in 1 .. Len(cells[c]) + 1
    BY <1>1, LastBlock
  <2> QED
    BY <1>2, <2>1, <2>2, Inserted
<1>4. cells' \in [Column -> Seq(Nat)]
  BY <1>3 DEF Insert
<1>5. TypeOK'
  BY <1>1, <1>4 DEF Insert, TypeOK
<1>6. Even'
  BY <1>1, <1>3 DEF Even
<1>7. stmt' \in Executed /\ Loaded' /\ Answered'
  BY DEF Insert, SelectionInv, Loaded, Answered
<1> QED
  BY <1>5, <1>6, <1>7 DEF SelectionInv

(* A statement whose columns are there is executed on columns of the table.*)
LEMMA ParsedStatement ==
  ASSUME NEW s \in Statements, CheckColsExists(SelectedColumns(s) \o ComparedColumns(s))
  PROVE  /\ Parse(s) \in Executed
         /\ MergeUsedCols(s) = MergeUsedCols(Parse(s))
<1> DEFINE All == Column \cup {Unknown}
           sel == SelectedColumns(s)
           cmp == ComparedColumns(s)
           where == Parse(s).where
<1>1. s \in [select : {Star} \cup (Seq(All) \ {<<>>}), where : Seq(Condition)]
  BY SelectionAssumption
<1>2. /\ s.select = Star \/ s.select \in Seq(All) \ {<<>>}
      /\ s.where \in Seq(Condition)
      /\ Parse(s).select = s.select
      /\ where = [i \in DOMAIN s.where |-> ParseCondition(s.where[i])]
      /\ Parse(s) = [select |-> Parse(s).select, where |-> where]
  BY <1>1 DEF Parse
<1>3. /\ Len(s.where) \in Nat /\ DOMAIN s.where = 1 .. Len(s.where)
      /\ \A i \in 1 .. Len(s.where) : s.where[i] \in Condition
  BY <1>2, LenProperties
<1>4. cmp \in [1 .. Len(s.where) -> All]
  BY <1>3 DEF ComparedColumns, Condition
<1>5. cmp \in Seq(All) /\ Len(cmp) = Len(s.where)
  BY <1>3, <1>4, FunctionIsSeq
<1>6. sel \in Seq(All)
  <2>1. CASE s.select = Star
    <3>1. Columns \in Nat /\ BuildAllCols \in [1 .. Columns -> All]
      BY SelectionAssumption DEF BuildAllCols, Column
    <3>2. BuildAllCols \in Seq(All)
      BY <3>1, FunctionIsSeq
    <3> QED
      BY <2>1, <3>2 DEF SelectedColumns
  <2>2. CASE s.select # Star
    BY <1>2, <2>2 DEF SelectedColumns
  <2> QED
    BY <2>1, <2>2
<1>7. Range(sel \o cmp) = Range(sel) \cup Range(cmp)
  <2> HIDE DEF sel, cmp
  <2> QED
    BY <1>5, <1>6, RangeConcatenation
<1>8. Range(sel) \subseteq Column /\ Range(cmp) \subseteq Column
  BY <1>7 DEF CheckColsExists
<1>9. ASSUME NEW i \in DOMAIN s.where
      PROVE  /\ where[i] \in Parsed
             /\ where[i].col = s.where[i].col
  <2>1. cmp[i] = s.where[i].col /\ i \in DOMAIN cmp
    BY DEF ComparedColumns
  <2>2. s.where[i].col \in Column
    BY <1>8, <2>1 DEF Range
  <2>3. s.where[i] \in Condition
    BY <1>3
  <2>4. NotANumber \in Written
    BY DEF Written, NotANumber
  <2>5. where[i] = ParseCondition(s.where[i])
    BY <1>2
  <2> HIDE DEF where
  <2>6. where[i] = s.where[i] \/ where[i] = [s.where[i] EXCEPT !.value = NotANumber]
    BY <2>5 DEF ParseCondition
  <2> QED
    BY <2>2, <2>3, <2>4, <2>6 DEF Condition, Parsed
<1>10. where \in Seq(Parsed)
  <2> DEFINE X == Parsed
  <2>1. DOMAIN where = 1 .. Len(s.where) /\ \A i \in 1 .. Len(s.where) : where[i] \in X
    BY <1>2, <1>3, <1>9
  <2> HIDE DEF X
  <2>2. where \in [1 .. Len(s.where) -> X]
    BY <1>2, <2>1
  <2>3. where \in Seq(X)
    BY <1>3, <2>2, FunctionIsSeq
  <2> QED
    BY <2>3 DEF X
<1>11. s.select = Star \/ s.select \in Seq(Column) \ {<<>>}
  <2> SUFFICES ASSUME s.select # Star PROVE s.select \in Seq(Column)
    BY <1>2
  <2>1. sel = s.select
    BY DEF SelectedColumns
  <2>2. s.select \in Seq(Range(s.select))
    BY <1>2, SeqOfRange
  <2> QED
    BY <1>8, <2>1, <2>2, SeqMonotonic
<1>12. Parse(s) \in Executed
  BY <1>2, <1>10, <1>11 DEF Executed
<1>13. SelectedColumns(Parse(s)) = sel
  BY <1>2 DEF SelectedColumns
<1>14. ComparedColumns(Parse(s)) = cmp
  <2>1. DOMAIN where = DOMAIN s.where
    BY <1>2
  <2> QED
    BY <1>9, <2>1 DEF ComparedColumns
<1> QED
  BY <1>12, <1>13, <1>14 DEF MergeUsedCols

LEMMA SelectionExecute ==
  ASSUME SelectionInv, NEW s \in Statements, ExecuteSelect(s)
  PROVE  SelectionInv'
<1>1. Parse(s) \in Executed /\ MergeUsedCols(s) = MergeUsedCols(Parse(s))
  BY ParsedStatement DEF ExecuteSelect
<1>2. /\ stmt' \in Executed /\ columns' = MergeUsedCols(stmt') /\ columns' \in Seq(Column)
      /\ cols' = <<>> /\ answer' = <<>> /\ worker' = "loading" /\ UNCHANGED <<server, cells>>
  BY <1>1, ColumnsUsed DEF ExecuteSelect
<1>3. TypeOK'
  BY <1>2, EmptySeq DEF SelectionInv, TypeOK
<1>4. Len(columns') \in Nat /\ Len(cols') = 0 /\ DOMAIN cols' = {}
  BY <1>2, LenProperties
<1>5. Loaded'
  BY <1>2, <1>4 DEF Loaded
<1>6. Even' /\ Answered'
  BY <1>2 DEF SelectionInv, Even, Answered
<1> QED
  BY <1>2, <1>3, <1>5, <1>6 DEF SelectionInv

LEMMA LoadedSame ==
  ASSUME UNCHANGED <<cells, stmt>>, NEW i, NEW col, NEW c, cols'[i] = col, columns'[i] = c,
         IsLoaded(col, c)
  PROVE  IsLoaded(cols[i], columns[i])'
BY DEF IsLoaded, IsPosition, Passes, ConditionsOn, GetConditionOnCol, TagsRise

LEMMA SelectionLoad ==
  ASSUME SelectionInv, FilterLoad
  PROVE  SelectionInv'
<1>0. cols \in Seq(Seq(Tagged)) /\ Len(cols) \in Nat
  BY LenProperties DEF SelectionInv, TypeOK
<1> PICK n \in Nat : n = Len(cols)
  BY <1>0
<1> DEFINE c == columns[n + 1]
<1>1. /\ TypeOK /\ Loaded /\ worker = "loading" /\ n < Len(columns)
      /\ UNCHANGED <<server, cells, worker, stmt, columns, answer>>
  BY DEF SelectionInv, FilterLoad, Loading
<1>2. cols \in Seq(Seq(Tagged)) /\ columns \in Seq(Column)
  BY <1>1 DEF TypeOK
<1>3. n \in Nat /\ Len(columns) \in Nat /\ DOMAIN cols = 1 .. n /\ n + 1 \in 1 .. Len(columns)
  BY <1>1, <1>2, LenProperties
<1>4. c \in Column
  BY <1>2, <1>3, LenProperties
<1>5. PICK col : IsLoaded(col, c) /\ cols' = Append(cols, col)
  BY <1>1, <1>4, LoadedWhole, LoadedFiltered DEF FilterLoad
<1>6. col \in Seq(Tagged)
  BY <1>5 DEF IsLoaded
<1>7. /\ cols' \in Seq(Seq(Tagged)) /\ Len(cols') = n + 1
      /\ \A i \in 1 .. n : cols'[i] = cols[i]
      /\ cols'[n + 1] = col
  BY <1>2, <1>5, <1>6, AppendProperties
<1>8. DOMAIN cols' = 1 .. n + 1
  BY <1>7, LenProperties
<1> HIDE DEF c
<1>9. \A i \in 1 .. n : IsLoaded(cols[i], columns[i])'
  <2> TAKE i \in 1 .. n
  <2>1. IsLoaded(cols[i], columns[i]) /\ cols[i] = cols'[i]
    BY <1>1, <1>3, <1>7 DEF Loaded
  <2> QED
    BY <1>1, <2>1, LoadedSame
<1>10. IsLoaded(cols[n + 1], columns[n + 1])'
  <2>1. cols'[n + 1] = col /\ columns'[n + 1] = c
    BY <1>1, <1>7 DEF c
  <2> QED
    BY <1>1, <1>5, <2>1, LoadedSame
<1>11. Loaded'
  <2>1. columns' = MergeUsedCols(stmt')
    BY <1>1 DEF Loaded
  <2>2. Len(cols') <= Len(columns')
    BY <1>1, <1>3, <1>7
  <2>3. \A i \in 1 .. n + 1 : i \in 1 .. n \/ i = n + 1
    BY <1>3
  <2>4. \A i \in 1 .. n + 1 : IsLoaded(cols[i], columns[i])'
    BY <1>9, <1>10, <2>3, Zenon
  <2> QED
    BY <1>8, <2>1, <2>2, <2>4, Zenon DEF Loaded
<1>12. TypeOK'
  BY <1>1, <1>7 DEF TypeOK
<1>13. Even' /\ stmt' \in Executed /\ Answered'
  BY <1>1 DEF SelectionInv, Even, Answered
<1> QED
  BY <1>11, <1>12, <1>13 DEF SelectionInv

LEMMA SelectionJoin ==
  ASSUME SelectionInv, InnerJoinColumns
  PROVE  SelectionInv'
<1>1. /\ worker = "loading" /\ worker' = "answered" /\ Len(cols) = Len(columns)
      /\ answer' = PrintRows(Join, Len(SelectedColumns(stmt)))
      /\ UNCHANGED <<server, cells, stmt, columns, cols>>
  BY DEF InnerJoinColumns
<1>2. answer' \in Seq(JoinedRow)
  BY <1>1, Printed
<1>3. TypeOK'
  BY <1>1, <1>2 DEF SelectionInv, TypeOK, JoinedRow
<1>4. Loaded'
  BY <1>1, LoadedSame DEF SelectionInv, Loaded
<1>5. Answered'
  BY <1>1 DEF Answered, Join
<1>6. Even' /\ stmt' \in Executed
  BY <1>1 DEF SelectionInv, Even
<1> QED
  BY <1>3, <1>4, <1>5, <1>6 DEF SelectionInv

(* What ends the server, or changes nothing.                               *)
LEMMA SelectionStop ==
  ASSUME SelectionInv,
         \/ \E s \in Statements : ThrowInParser(s) \/ MissColumn(s)
         \/ ThrowInCompare \/ UNCHANGED vars
  PROVE  SelectionInv'
<1>1. /\ UNCHANGED <<cells, worker, stmt, columns, cols, answer>>
      /\ server' \in {"up", "ended", "undefined"}
  BY DEF SelectionInv, TypeOK, ThrowInParser, MissColumn, ThrowInCompare, vars, select
<1>2. TypeOK'
  BY <1>1 DEF SelectionInv, TypeOK
<1>3. Loaded'
  BY <1>1, LoadedSame DEF SelectionInv, Loaded
<1>4. Answered' /\ Even' /\ stmt' \in Executed
  BY <1>1 DEF SelectionInv, Answered, Join, Even
<1> QED
  BY <1>2, <1>3, <1>4 DEF SelectionInv

LEMMA SelectionCorrect == Spec => []SelectionInv
<1>1. SelectionInv /\ [Next]_vars => SelectionInv'
  BY SelectionInsert, SelectionExecute, SelectionLoad, SelectionJoin, SelectionStop DEF Next
<1> QED
  BY SelectionInit, <1>1, PTL DEF Spec

-----------------------------------------------------------------------------
(* Columns, loaded lists and answers keep their types: what is loaded and  *)
(* joined are positions and values of the table's own columns, as MissColumn *)
(* takes the statements that name others.                                  *)
THEOREM SelectionTypeCorrect == Spec => []TypeOK
<1>1. SelectionInv => TypeOK
  BY DEF SelectionInv
<1> QED
  BY <1>1, SelectionCorrect, PTL

(* Whatever conditions are dropped, the join by position in the optimizer  *)
(* makes no row of values of two records, repeats none and keeps the order *)
(* of the scan.                                                            *)
THEOREM AnswersOfTheTable == Spec => []RowsOfTheTable
BY AnswerOfTheTable, SelectionCorrect, PTL

(* A SELECT that compares no column twice, joins its conditions by AND and *)
(* compares fractions by ">" only is answered with the rows that meet all  *)
(* its conditions, in the order of the scan, for any number of columns,    *)
(* conditions and rows: stoi's cut changes no such comparison, and loading *)
(* and filtering the columns apart and joining them by position is the     *)
(* selection.                                                              *)
THEOREM AnswersSelected == Spec => []AnswerIsSelection
<1>1. SelectionInv => AnswerIsSelection
  BY AnswerSelected DEF AnswerIsSelection
<1> QED
  BY <1>1, SelectionCorrect, PTL
=============================================================================
